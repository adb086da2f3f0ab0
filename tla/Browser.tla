------------------------------ MODULE Browser ------------------------------
(***************************************************************************)
(* The web client: the tabs of one browser, which share a refresh cookie   *)
(* and a lock, and the server's answers as they reach them.  Sources:      *)
(* stores/session.ts, services/http.ts, services/refresh-coordinator.ts,   *)
(* stores/transactions.ts, stores/user-context.ts, auth_controller.cpp.    *)
(*                                                                         *)
(* A tab runs tasks on the token endpoints (restore, login, logout and the *)
(* refresh that calls share) and calls on everything else.  A generation   *)
(* is only ever compared with the current one: current says whether it     *)
(* still is.  The page of a tab holds the store of transactions.           *)
(*                                                                         *)
(* A transaction is <<thing, n>>, what the n-th correction has made of it:  *)
(* the server stores each correction as a new transaction.  What else the  *)
(* server stores is Ledger's.  A list is the pages it was loaded from; the *)
(* rows of a page are left out.                                            *)
(*                                                                         *)
(* Two bounds: cast is who takes part and how often a thing is corrected,  *)
(* chosen once; budget is how often an access token lapses, a page is      *)
(* reloaded or an exchange breaks off.                                     *)
(***************************************************************************)
EXTENDS Naturals, FiniteSets

CONSTANTS
    Tabs, Users,
    Sessions,       \* session ids the server will give out
    Things,         \* what transactions are about, and filters to list them by
    Casts,          \* tabs, tabs with a page, its requests, their things, bounds
    None

Requests == {"load", "loadMore", "loadDetail", "create", "correct", "delete"}

Transactions == Things \X Nat

ASSUME BrowserAssumption ==
    /\ Casts \subseteq [tabs : SUBSET Tabs, pages : SUBSET Tabs, calls : Nat,
                        requests : SUBSET Requests, things : SUBSET Things, corrections : Nat,
                        budget : Nat]
    /\ None \notin Tabs \cup Users \cup Sessions \cup Things
    /\ None \notin Sessions \X Nat
    /\ None \notin Tabs \X {"restore", "login", "share", "logout"}
    /\ None \notin Transactions /\ None \notin Users \X Transactions

VARIABLES
    jar,            \* the refresh cookie: <<session, version>> or None
    owner,          \* user of a session, None before its login
    newest,         \* version of its usable refresh token
    ended,          \* sessions the server has closed ...
    alarmed,        \* ... because a used refresh token came back
    broken,         \* auxiliary: sessions an exchange of which was cut off
    orphans,        \* refresh requests on their way that nobody waits for
    lock,           \* the task that holds pfh-web-refresh-lock
    mail,           \* tabs that an 'anonymous' message is on its way to
    status, token,  \* a tab's status, and the session of its access token
    live,           \* its access token has not run out
    swapped,        \* auxiliary: a refresh gave it another user's token
    task, calls,    \* what a tab waits for
    preference,     \* whose preferences it shows
    items, query,   \* its list: <<user, filter>> of each page, and the filter
    selected, wanted, \* <<user, transaction>>, and the one last asked for
    budget, cast

serverVars == <<owner, newest, ended, alarmed, broken>>
netVars == <<jar, serverVars, orphans, lock, mail>>
tabVars == <<status, token, live, swapped, task>>
pageVars == <<calls, preference, items, query, selected, wanted>>
vars == <<netVars, tabVars, pageVars, budget, cast>>

Kinds == {"restore", "login", "share", "logout"}
Stages == {"none", "queue", "sent", "refresh", "resent", "answered", "context"}
Rest == [at |-> "none", with |-> None, got |-> None, current |-> TRUE]

Init ==
    /\ jar = None
    /\ owner = [s \in Sessions |-> None]
    /\ newest = [s \in Sessions |-> 0]
    /\ ended = {} /\ alarmed = {} /\ broken = {} /\ orphans = {}
    /\ lock = None
    /\ mail = {}
    /\ status = [t \in Tabs |-> "idle"]
    /\ token = [t \in Tabs |-> None]
    /\ live = [t \in Tabs |-> FALSE]
    /\ swapped = [t \in Tabs |-> FALSE]
    /\ task = [t \in Tabs |-> [k \in Kinds |-> Rest]]
    /\ calls = [t \in Tabs |-> {}]
    /\ preference = [t \in Tabs |-> None]
    /\ items = [t \in Tabs |-> {}]
    /\ query = [t \in Tabs |-> None]
    /\ selected = [t \in Tabs |-> None]
    /\ wanted = [t \in Tabs |-> None]
    /\ cast \in Casts
    /\ budget = cast.budget

----------------------------------------------------------------------------
(* The token endpoints.                                                    *)

\* AuthService::refresh as Sessions has it: the newest token is exchanged,
\* an older one closes its session, and that of a closed one is refused.
Exchanged(c) == c # None /\ c[1] \notin ended /\ c[2] = newest[c[1]]
Reused(c) == c # None /\ c[1] \notin ended /\ c[2] < newest[c[1]]

Exchange(c) ==
    /\ newest' = IF Exchanged(c) THEN [newest EXCEPT ![c[1]] = @ + 1] ELSE newest
    /\ ended' = IF Reused(c) THEN ended \cup {c[1]} ELSE ended
    /\ alarmed' = IF Reused(c) THEN alarmed \cup {c[1]} ELSE alarmed
    /\ UNCHANGED owner

\* web_refresh: the answer sets the cookie or clears it.
RefreshCookie(c) == jar' = IF Exchanged(c) THEN <<c[1], c[2] + 1>> ELSE None

GotBy(c) == IF Exchanged(c) THEN c[1] ELSE None

\* Mutation: everybody may hold the lock.
AlwaysFree == TRUE

LockFree == lock = None

LockOf(t) == {<<t, k>> : k \in Kinds}

\* What an abandoned task leaves on its way to the server.
Underway(t, kinds) ==
    {task[t][k].with : k \in {j \in kinds :
        task[t][j].at = IF j = "logout" THEN "refresh" ELSE "sent"}} \ {None}

----------------------------------------------------------------------------
(* Forgetting a user.                                                      *)

\* clearRefreshState and the lifecycle's abort: what is queued or sent is
\* dropped; what is answered but not yet looked at will be found stale.
Superseded(r) == IF r.at = "answered" THEN [r EXCEPT !.current = FALSE] ELSE Rest

\* Mutation: a new lifecycle leaves the calls of the old one alone.
KeepCalls(cs) == cs

\* An aborted call rejects; its generation would silence it too.
Aborted(cs) == {}

\* beginAuthentication and clear: the stores, the access token and every
\* generation; not the logout, which nothing aborts.
Forget(t) ==
    /\ token' = [token EXCEPT ![t] = None]
    /\ live' = [live EXCEPT ![t] = FALSE]
    /\ swapped' = [swapped EXCEPT ![t] = FALSE]
    /\ calls' = [calls EXCEPT ![t] = Aborted(@)]
    /\ preference' = [preference EXCEPT ![t] = None]
    /\ items' = [items EXCEPT ![t] = {}]
    /\ query' = [query EXCEPT ![t] = None]
    /\ selected' = [selected EXCEPT ![t] = None]
    /\ wanted' = [wanted EXCEPT ![t] = None]

\* The tasks it leaves.
Cleared(t) == [k \in Kinds |-> IF k = "logout" THEN task[t][k] ELSE Superseded(task[t][k])]

Clear(t, state, tasks) ==
    /\ Forget(t)
    /\ status' = [status EXCEPT ![t] = state]
    /\ task' = [task EXCEPT ![t] = tasks]
    /\ lock' = IF lock \in {<<t, "restore">>, <<t, "share">>} THEN None ELSE lock
    /\ orphans' = orphans \cup Underway(t, {"restore", "share"})
    /\ broken' = broken \cup {c[1] : c \in Underway(t, {"restore", "share"})}

\* broadcastSessionState('anonymous').
Broadcast(t) == mail' = mail \cup (Tabs \ {t})

\* The listener of another tab's message.
Hear(t) ==
    /\ t \in mail
    /\ mail' = mail \ {t}
    /\ Clear(t, "anonymous", Cleared(t))
    /\ UNCHANGED <<jar, owner, newest, ended, alarmed, budget>>

----------------------------------------------------------------------------
(* Restoring a session, and logging in.                                    *)

To(stage) == [Rest EXCEPT !.at = stage]
Alter(t, k, r) == task' = [task EXCEPT ![t][k] = r]

\* The first navigation of a page.
StartRestore(t) ==
    /\ status[t] = "idle"
    /\ Clear(t, "restoring", [Cleared(t) EXCEPT !["restore"] = To("queue")])
    /\ UNCHANGED <<jar, owner, newest, ended, alarmed, mail, budget>>

\* login and register do not queue.
StartLogin(t) ==
    /\ status[t] = "anonymous"
    /\ Clear(t, "restoring", [Cleared(t) EXCEPT !["login"] = To("sent")])
    /\ UNCHANGED <<jar, owner, newest, ended, alarmed, mail, budget>>

\* serializeRefresh: the lock is there, and the request goes out with the
\* cookie of this moment.
TakeLock(t, k) ==
    /\ task[t][k].at = "queue"
    /\ LockFree
    /\ lock' = <<t, k>>
    /\ Alter(t, k, [To("sent") EXCEPT !.with = jar,
                                      !.got = IF k = "logout" /\ live[t] THEN token[t] ELSE None])
    /\ UNCHANGED <<jar, serverVars, orphans, mail, status, token, live, swapped,
                   pageVars, budget>>

\* refreshWeb has its answer; the lock goes before the promise settles.
RefreshArrives(t, k) ==
    /\ k \in {"restore", "share"}
    /\ task[t][k].at = "sent"
    /\ Exchange(task[t][k].with)
    /\ RefreshCookie(task[t][k].with)
    /\ Alter(t, k, [To("answered") EXCEPT !.got = GotBy(task[t][k].with)])
    /\ lock' = None
    /\ UNCHANGED <<broken, orphans, mail, status, token, live, swapped, pageVars, budget>>

\* A timeout or a network failure leaves the cookie, whatever the server does;
\* an error of the server's own (not of the token) clears it.
RefreshBreaks(t, k) ==
    LET sent == task[t][k].with IN
    /\ k \in {"restore", "share"}
    /\ task[t][k].at = "sent"
    /\ budget > 0
    /\ budget' = budget - 1
    /\ \/ /\ orphans' = orphans \cup ({sent} \ {None})
          /\ broken' = broken \cup {c[1] : c \in {sent} \ {None}}
          /\ UNCHANGED jar
       \/ jar' = None /\ UNCHANGED <<orphans, broken>>
    /\ Alter(t, k, To("answered"))
    /\ lock' = None
    /\ UNCHANGED <<owner, newest, ended, alarmed, mail, status, token, live, swapped, pageVars>>

\* Nobody waits for the answer any more, and the cookie stays as it is.
OrphanArrives(c) ==
    /\ c \in orphans
    /\ Exchange(c)
    /\ orphans' = orphans \ {c}
    /\ UNCHANGED <<jar, broken, lock, mail, tabVars, pageVars, budget>>

OrphanDies(c) ==
    /\ c \in orphans
    /\ orphans' = orphans \ {c}
    /\ UNCHANGED <<jar, serverVars, lock, mail, tabVars, pageVars, budget>>

NewCall(slot, s, arg) ==
    [slot |-> slot, at |-> "sent", by |-> s, good |-> TRUE, retried |-> FALSE,
     arg |-> arg]

\* completeAuthentication: the access token, then userContext.load().
Enter(t, s) ==
    /\ token' = [token EXCEPT ![t] = s]
    /\ live' = [live EXCEPT ![t] = TRUE]
    /\ calls' = [calls EXCEPT ![t] = @ \cup {NewCall("context", s, None)}]
    /\ UNCHANGED <<status, swapped, preference, items, query, selected, wanted>>

IsCurrent(r) == r.at = "answered" /\ r.current

SettleRestore(t) ==
    /\ IsCurrent(task[t]["restore"])
    /\ IF task[t]["restore"].got # None
       THEN /\ Enter(t, task[t]["restore"].got)
            /\ Alter(t, "restore", To("context"))
            /\ UNCHANGED <<broken, orphans, lock>>
       ELSE Clear(t, "anonymous", [Cleared(t) EXCEPT !["restore"] = Rest])
    /\ UNCHANGED <<jar, owner, newest, ended, alarmed, mail, budget>>

\* A result that came too late changes nothing.
SettleStale(t, k) ==
    /\ k \in {"restore", "share"}
    /\ task[t][k].at = "answered"
    /\ ~IsCurrent(task[t][k])
    /\ Alter(t, k, Rest)
    /\ UNCHANGED <<netVars, status, token, live, swapped, pageVars, budget>>

LoginArrives(t, s, u) ==
    /\ task[t]["login"].at = "sent"
    /\ owner[s] = None
    /\ owner' = [owner EXCEPT ![s] = u]
    /\ newest' = [newest EXCEPT ![s] = 1]
    /\ jar' = <<s, 1>>
    /\ Enter(t, s)
    /\ Alter(t, "login", To("context"))
    /\ UNCHANGED <<ended, alarmed, broken, orphans, lock, mail, budget>>

LoginFails(t) ==
    /\ task[t]["login"].at = "sent"
    /\ Clear(t, "anonymous", Cleared(t))
    /\ UNCHANGED <<jar, owner, newest, ended, alarmed, mail, budget>>

----------------------------------------------------------------------------
(* Logging out: one operation under the lock.                              *)

StartLogout(t) ==
    /\ status[t] = "authenticated"
    /\ task[t]["logout"].at = "none"
    /\ Alter(t, "logout", To("queue"))
    /\ UNCHANGED <<netVars, status, token, live, swapped, pageVars, budget>>

\* JwtFilter, then AuthService::logout: cookie and token are of one session.
Admitted(s) == s # None /\ s \notin ended
Matches(r) == r.with # None /\ r.with[1] = r.got

\* web_logout closes the session and clears the cookie, or refuses.  Every
\* refusal is a 401, but the filter's leaves the cookie alone.
Logout(r) ==
    /\ ended' = IF Admitted(r.got) /\ Matches(r) THEN ended \cup {r.got} ELSE ended
    /\ jar' = IF Admitted(r.got) THEN None ELSE jar
    /\ UNCHANGED <<owner, newest, alarmed, broken>>

\* A 401 is answered by a refresh, once, within the same operation.
LogoutArrives(t) ==
    LET r == task[t]["logout"] IN
    /\ r.at \in {"sent", "resent"}
    /\ Logout(r)
    /\ IF r.at = "sent" /\ ~(Admitted(r.got) /\ Matches(r))
       THEN Alter(t, "logout", [To("refresh") EXCEPT !.with = jar']) /\ UNCHANGED lock
       ELSE Alter(t, "logout", To("answered")) /\ lock' = None
    /\ UNCHANGED <<orphans, mail, status, token, live, swapped, pageVars, budget>>

\* The cookie is by now another user's.
Swaps(t, s) == token[t] = None \/ owner[token[t]] # owner[s]

\* The token it brings is set whatever has happened to the tab.
LogoutRefreshed(t) ==
    LET r == task[t]["logout"] IN
    /\ r.at = "refresh"
    /\ Exchange(r.with)
    /\ RefreshCookie(r.with)
    /\ IF Exchanged(r.with)
       THEN /\ Alter(t, "logout", [To("resent") EXCEPT !.got = r.with[1], !.with = jar'])
            /\ token' = [token EXCEPT ![t] = r.with[1]]
            /\ live' = [live EXCEPT ![t] = TRUE]
            /\ swapped' = [swapped EXCEPT ![t] = @ \/ Swaps(t, r.with[1])]
            /\ UNCHANGED lock
       ELSE /\ Alter(t, "logout", To("answered"))
            /\ lock' = None
            /\ UNCHANGED <<token, live, swapped>>
    /\ UNCHANGED <<broken, orphans, mail, status, pageVars, budget>>

LogoutBreaks(t) ==
    LET r == task[t]["logout"] IN
    /\ r.at \in {"sent", "refresh", "resent"}
    /\ budget > 0
    /\ budget' = budget - 1
    /\ \/ UNCHANGED ended
       \/ r.at # "refresh" /\ Matches(r) /\ ended' = ended \cup {r.got}
    /\ orphans' = orphans \cup Underway(t, {"logout"})
    /\ broken' = broken \cup {c[1] : c \in Underway(t, {"logout"})}
    /\ Alter(t, "logout", To("answered"))
    /\ lock' = None
    /\ UNCHANGED <<jar, owner, newest, alarmed, mail, status, token, live, swapped, pageVars>>

\* finally.
EndLogout(t) ==
    /\ task[t]["logout"].at = "answered"
    /\ Clear(t, "anonymous", [Cleared(t) EXCEPT !["logout"] = Rest])
    /\ Broadcast(t)
    /\ UNCHANGED <<jar, owner, newest, ended, alarmed, budget>>

----------------------------------------------------------------------------
(* Calls, and the refresh they share.                                      *)

\* The actions of the store, of which one is current, and those on what it shows.
Actions == {"create", "correct", "delete"}
OnSelected == {"correct", "delete"}

\* Mutation: a new request for a list or a detail does not outdate the last.
NoneOf(c, slots) == FALSE

\* Mutation: a correction or deletion outlives the detail it was made on.
OneOfLoads(c, slots) == c.slot \in slots \ OnSelected

OneOf(c, slots) == c.slot \in slots

\* The request of a slot aborts those of others, and is the current one.
Request(t, slot, arg, outdates) ==
    /\ status[t] = "authenticated" /\ token[t] # None
    /\ Cardinality({c \in calls[t] : ~OneOf(c, outdates)}) < cast.calls
    /\ calls' = [calls EXCEPT ![t] =
           {c \in @ : ~OneOf(c, outdates)}
               \cup {[NewCall(slot, token[t], arg) EXCEPT !.good = live[t]]}]
    /\ UNCHANGED <<netVars, tabVars, preference, budget>>

\* load, loadMore and loadDetail of the transaction store.
Load(t, filter) ==
    /\ Request(t, "list", filter, {"list"} \cup Actions)
    /\ items' = [items EXCEPT ![t] = {}]
    /\ query' = [query EXCEPT ![t] = filter]
    /\ UNCHANGED <<selected, wanted>>

Listing(t) == \E c \in calls[t] : c.slot = "list"

LoadMore(t) ==
    /\ items[t] # {} /\ ~Listing(t)
    /\ Request(t, "list", query[t], {"list"})
    /\ UNCHANGED <<items, query, selected, wanted>>

LoadDetail(t, transaction) ==
    /\ Request(t, "detail", transaction, {"detail"} \cup Actions)
    /\ selected' = [selected EXCEPT ![t] = None]
    /\ wanted' = [wanted EXCEPT ![t] = transaction]
    /\ UNCHANGED <<items, query>>

\* beginAction: an action outdates the last one, whatever it was.
Act(t, slot, arg) ==
    /\ Request(t, slot, arg, Actions)
    /\ UNCHANGED <<items, query, selected, wanted>>

Create(t) == Act(t, "create", None)

\* A correction and a deletion are of the transaction that is shown.
Correct(t) ==
    /\ selected[t] # None /\ selected[t][2][2] < cast.corrections
    /\ Act(t, "correct", selected[t])

Delete(t) == selected[t] # None /\ Act(t, "delete", selected[t])

\* JwtFilter::authenticate.
Accepted(c) == c.good /\ c.by \notin ended

\* The server finds a transaction to correct or delete for its user only.
Found(c) == c.slot \in OnSelected => c.arg[1] = owner[c.by]

Replacement(transaction) == <<transaction[1], transaction[2] + 1>>

\* The detail after an answer: a correction's is the new transaction.
DetailAfter(t, c) ==
    CASE c.slot = "detail" -> <<owner[c.by], c.arg>>
      [] c.slot = "correct" -> <<c.arg[1], Replacement(c.arg[2])>>
      [] c.slot = "delete" -> None
      [] OTHER -> selected[t]

\* What a store does with an answer that is for its user and its request.
Apply(t, c) ==
    LET user == owner[c.by] IN
    /\ preference' = IF c.slot = "context" THEN [preference EXCEPT ![t] = user] ELSE preference
    /\ items' = IF c.slot = "list" THEN [items EXCEPT ![t] = @ \cup {<<user, c.arg>>}] ELSE items
    /\ selected' = [selected EXCEPT ![t] = DetailAfter(t, c)]
    /\ status' = IF c.slot = "context" THEN [status EXCEPT ![t] = "authenticated"] ELSE status
    /\ task' = IF c.slot = "context"
               THEN [task EXCEPT ![t]["restore"] = Rest, ![t]["login"] = Rest] ELSE task

Answer(t, c) ==
    /\ c \in calls[t] /\ c.at = "sent" /\ Accepted(c) /\ Found(c)
    /\ calls' = [calls EXCEPT ![t] = @ \ {c}]
    /\ Apply(t, c)
    /\ UNCHANGED <<netVars, token, live, swapped, query, wanted, budget>>

\* canReplayAfterRefresh: reads, and writes under an idempotency key.
Replayable(c) == ~c.retried /\ c.slot # "delete"

\* The server refuses it for good.
Refused(c) == IF Accepted(c) THEN ~Found(c) ELSE ~Replayable(c)

\* Mutation: clearRefreshState leaves the promise.
SharingStale(t) == IF task[t]["share"].at # "none" THEN task[t]["share"] ELSE To("queue")

\* refreshOnce: the promise there is, or a new one.
Sharing(t) ==
    LET r == task[t]["share"] IN
    IF r.at # "none" /\ r.current THEN r ELSE To("queue")

Unauthorized(t, c) ==
    /\ c \in calls[t] /\ c.at = "sent"
    /\ ~Accepted(c) /\ Replayable(c)
    /\ calls' = [calls EXCEPT ![t] = (@ \ {c}) \cup {[c EXCEPT !.at = "waiting", !.retried = TRUE]}]
    /\ Alter(t, "share", Sharing(t))
    /\ UNCHANGED <<netVars, status, token, live, swapped, preference, items, query, selected,
                   wanted, budget>>

\* A call ends without an answer: refused for good, or broken off.  Without
\* its context a tab does not come up.
CallFails(t, c) ==
    /\ c \in calls[t] /\ c.at = "sent"
    /\ IF Refused(c) THEN UNCHANGED budget ELSE budget > 0 /\ budget' = budget - 1
    /\ IF c.slot = "context"
       THEN Clear(t, "anonymous", Cleared(t))
       ELSE /\ calls' = [calls EXCEPT ![t] = @ \ {c}]
            /\ UNCHANGED <<broken, orphans, lock, tabVars, preference, items, query,
                           selected, wanted>>
    /\ UNCHANGED <<jar, owner, newest, ended, alarmed, mail>>

Resent(c, s) == [c EXCEPT !.at = "sent", !.by = s, !.good = TRUE]

\* The shared promise settles: every call that waits for it is sent again, or
\* the session has expired, for this tab and for all others.
SettleShare(t) ==
    LET got == task[t]["share"].got IN
    /\ IsCurrent(task[t]["share"])
    /\ IF got # None
       THEN /\ token' = [token EXCEPT ![t] = got]
            /\ live' = [live EXCEPT ![t] = TRUE]
            /\ swapped' = [swapped EXCEPT ![t] = @ \/ Swaps(t, got)]
            /\ calls' = [calls EXCEPT ![t] =
                   {IF c.at = "waiting" THEN Resent(c, got) ELSE c : c \in @}]
            /\ Alter(t, "share", Rest)
            /\ UNCHANGED <<broken, orphans, lock, mail, status, preference, items, query,
                           selected, wanted>>
       ELSE /\ Clear(t, "anonymous", [Cleared(t) EXCEPT !["share"] = Rest])
            /\ Broadcast(t)
    /\ UNCHANGED <<jar, owner, newest, ended, alarmed, budget>>

----------------------------------------------------------------------------
(* The environment.                                                        *)

Lapse(t) ==
    /\ live[t] /\ budget > 0
    /\ live' = [live EXCEPT ![t] = FALSE]
    /\ budget' = budget - 1
    /\ UNCHANGED <<netVars, status, token, swapped, task, pageVars>>

\* A reloaded page forgets everything, its lock and its requests.
Reload(t) ==
    /\ status[t] # "idle" /\ budget > 0
    /\ budget' = budget - 1
    /\ status' = [status EXCEPT ![t] = "idle"]
    /\ token' = [token EXCEPT ![t] = None]
    /\ live' = [live EXCEPT ![t] = FALSE]
    /\ swapped' = [swapped EXCEPT ![t] = FALSE]
    /\ task' = [task EXCEPT ![t] = [k \in Kinds |-> Rest]]
    /\ calls' = [calls EXCEPT ![t] = {}]
    /\ preference' = [preference EXCEPT ![t] = None]
    /\ items' = [items EXCEPT ![t] = {}]
    /\ query' = [query EXCEPT ![t] = None]
    /\ selected' = [selected EXCEPT ![t] = None]
    /\ wanted' = [wanted EXCEPT ![t] = None]
    /\ orphans' = orphans \cup Underway(t, {"restore", "share", "logout"})
    /\ broken' = broken \cup {c[1] : c \in Underway(t, {"restore", "share", "logout"})}
    /\ lock' = IF lock \in LockOf(t) THEN None ELSE lock
    /\ mail' = mail \ {t}
    /\ UNCHANGED <<jar, owner, newest, ended, alarmed>>

TaskStep(t) ==
    \/ SettleRestore(t) \/ SettleShare(t) \/ LoginFails(t)
    \/ \E k \in Kinds : RefreshArrives(t, k) \/ SettleStale(t, k)
    \/ LogoutArrives(t) \/ LogoutRefreshed(t) \/ EndLogout(t)

CallStep(t) == \E c \in calls[t] : Answer(t, c) \/ Unauthorized(t, c) \/ CallFails(t, c)

UserStep(t) ==
    \/ StartRestore(t) \/ StartLogin(t) \/ StartLogout(t)
    \/ \E s \in Sessions, u \in Users : LoginArrives(t, s, u)

PageStep(t) ==
    \/ \E x \in cast.things :
        \/ "load" \in cast.requests /\ Load(t, x)
        \/ "loadDetail" \in cast.requests /\ \E n \in 0..cast.corrections : LoadDetail(t, <<x, n>>)
    \/ "loadMore" \in cast.requests /\ LoadMore(t)
    \/ "create" \in cast.requests /\ Create(t)
    \/ "correct" \in cast.requests /\ Correct(t)
    \/ "delete" \in cast.requests /\ Delete(t)

Environment ==
    \/ \E c \in orphans : OrphanArrives(c) \/ OrphanDies(c)
    \/ \E t \in cast.tabs :
        \/ Hear(t) \/ Lapse(t) \/ Reload(t) \/ LogoutBreaks(t)
        \/ \E k \in Kinds : RefreshBreaks(t, k)

Next ==
    /\ \/ \E t \in cast.tabs :
           \/ TaskStep(t) \/ CallStep(t) \/ UserStep(t)
           \/ \E k \in Kinds : TakeLock(t, k)
       \/ \E t \in cast.pages : PageStep(t)
       \/ Environment
    /\ UNCHANGED cast

Spec == Init /\ [][Next]_vars

----------------------------------------------------------------------------
(* Properties.                                                             *)

Cookies == (Sessions \X Nat) \cup {None}
Owners == Users \cup {None}
Task == [at : Stages, with : Cookies, got : Sessions \cup {None}, current : BOOLEAN]
Slots == {"context", "list", "detail"} \cup Actions
Args == Things \cup Transactions \cup (Users \X Transactions) \cup {None}
Call == [slot : Slots, at : {"sent", "waiting"}, by : Sessions, good : BOOLEAN,
         retried : BOOLEAN, arg : Args]

TypeOK ==
    /\ jar \in Cookies
    /\ jar # None => jar[2] \in 1..newest[jar[1]]
    /\ owner \in [Sessions -> Owners]
    /\ newest \in [Sessions -> Nat]
    /\ ended \subseteq Sessions /\ alarmed \subseteq ended /\ broken \subseteq Sessions
    /\ orphans \subseteq Cookies \ {None}
    /\ lock \in (Tabs \X Kinds) \cup {None}
    /\ mail \subseteq Tabs
    /\ status \in [Tabs -> {"idle", "restoring", "authenticated", "anonymous"}]
    /\ token \in [Tabs -> Sessions \cup {None}]
    /\ live \in [Tabs -> BOOLEAN] /\ swapped \in [Tabs -> BOOLEAN]
    /\ task \in [Tabs -> [Kinds -> Task]]
    /\ calls \in [Tabs -> SUBSET Call]
    /\ preference \in [Tabs -> Owners]
    /\ items \in [Tabs -> SUBSET (Users \X Things)]
    /\ query \in [Tabs -> Things \cup {None}]
    /\ wanted \in [Tabs -> Transactions \cup {None}]
    /\ selected \in [Tabs -> (Users \X Transactions) \cup {None}]
    /\ cast \in Casts /\ budget \in 0..cast.budget

Shown(t) ==
    ({preference[t]} \cup {x[1] : x \in items[t]}
        \cup (IF selected[t] = None THEN {} ELSE {selected[t][1]})) \ {None}

\* A session is never closed on the suspicion of a stolen refresh token unless
\* an exchange of it was cut off: tabs and calls that refresh together do not
\* look like a thief (serializeRefresh, refreshOnce).
NoFalseAlarm == alarmed \subseteq broken

\* What a tab shows is of the user whose access token it holds: no answer to
\* an earlier login gets through to a later one (the generations of
\* session.ts, http.ts and the stores), unless a refresh brought the token of
\* another user who has logged in in another tab.
OwnData ==
    \A t \in Tabs : ~swapped[t] =>
        Shown(t) \subseteq IF token[t] = None THEN {} ELSE {owner[token[t]]}

\* A tab that has no user keeps no token and shows nothing, whatever arrives
\* late; only a logout that is still at work may bring a token back.
QuietWithoutUser ==
    \A t \in Tabs :
        /\ status[t] \in {"idle", "anonymous"}
        /\ task[t]["logout"].at \notin {"resent", "answered"}
        => token[t] = None /\ Shown(t) = {}

\* A tab shows the data of its own user, and none without one.
OwnScreen == TypeOK /\ OwnData /\ QuietWithoutUser

\* A transaction, or what corrections have made of it.
Succeeds(later, earlier) == later[1] = earlier[1] /\ later[2] >= earlier[2]

\* The list holds pages of the filter last asked for, and the detail is the
\* transaction last asked for or what corrections have made of it since, in
\* whatever order the answers come.  A correction or deletion under way is of
\* the transaction shown: correctSelected takes the row of the one shown when
\* the answer comes, not of the one it corrected, from the list.
AsAsked ==
    \A t \in Tabs :
        /\ \A x \in items[t] : x[2] = query[t]
        /\ selected[t] # None => Succeeds(selected[t][2], wanted[t])
        /\ \A c \in calls[t] : c.slot \in OnSelected => selected[t] = c.arg

\* Whoever waits, waits for something that is under way and ends, if by its
\* timeout: no tab stays on the restoring screen, no call waits for a refresh
\* nobody runs, and the lock is held by a request, never by a wait for it.
WaitsEnd ==
    /\ lock # None => task[lock[1]][lock[2]].at \in {"sent", "refresh", "resent"}
    /\ \A t \in Tabs :
        /\ \A k \in {"restore", "share"} : task[t][k].at = "sent" => lock = <<t, k>>
        /\ status[t] = "restoring" =>
               \/ task[t]["restore"].at \in {"queue", "sent"}
               \/ task[t]["login"].at = "sent"
               \/ IsCurrent(task[t]["restore"])
               \/ \E c \in calls[t] : c.slot = "context"
        /\ (\E c \in calls[t] : c.at = "waiting") =>
               \/ task[t]["share"].at \in {"queue", "sent"}
               \/ IsCurrent(task[t]["share"])

=============================================================================
