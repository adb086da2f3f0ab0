---------------------------- MODULE BrowserProofs ----------------------------
(***************************************************************************)
(* Proofs about Browser, for any number of tabs, users, sessions and       *)
(* calls: tabs that refresh together look like no thief, every tab shows   *)
(* its own user what was asked for last, and whoever waits waits for       *)
(* something that is under way.                                            *)
(***************************************************************************)
EXTENDS Browser, TLAPS

-----------------------------------------------------------------------------
(* The inductive invariant.                                                *)

\* A task nobody waits for: there is none, or its answer is out of date.
Over(r) == r.at = "none" \/ ~r.current

\* The requests that run under the lock.
Holding(t, k) ==
    \/ k \in {"restore", "share"} /\ task[t][k].at = "sent"
    \/ k = "logout" /\ task[t][k].at \in {"sent", "refresh", "resent"}

StagesOK(t) ==
    /\ task[t]["restore"].at \in {"none", "queue", "sent", "answered", "context"}
    /\ task[t]["login"].at \in {"none", "sent", "context"}
    /\ task[t]["share"].at \in {"none", "queue", "sent", "answered"}
    /\ task[t]["logout"].at \in {"none", "queue", "sent", "refresh", "resent", "answered"}
    /\ \A k \in Kinds : ~task[t][k].current =>
                            k \in {"restore", "share"} /\ task[t][k].at = "answered"

LockOK == \A t \in Tabs, k \in Kinds : Holding(t, k) <=> lock = <<t, k>>

\* A cookie is the newest of its session, or that session is closed or had an
\* exchange cut off.
CookieOK(c) ==
    c # None =>
        /\ owner[c[1]] # None
        /\ c[2] <= newest[c[1]]
        /\ c[1] \in broken \cup ended \/ c[2] = newest[c[1]]

CookiesOK ==
    /\ CookieOK(jar)
    /\ \A t \in Tabs, k \in Kinds : Holding(t, k) => CookieOK(task[t][k].with)
    /\ \A c \in orphans : /\ owner[c[1]] # None
                          /\ c[2] <= newest[c[1]]
                          /\ c[1] \in broken

Known(s) == s # None => owner[s] # None

KnownOK(t) ==
    /\ Known(token[t])
    /\ \A c \in calls[t] : Known(c.by)
    /\ \A k \in Kinds : Known(task[t][k].got)

Blank(t) == preference[t] = None /\ items[t] = {} /\ selected[t] = None

\* The tab waits for a refresh or a login that is to give it a user.
Awaits(t) ==
    \/ task[t]["restore"].at \in {"queue", "sent"} \/ IsCurrent(task[t]["restore"])
    \/ task[t]["login"].at = "sent"

\* What goes on in a tab that has no user, or none yet.
StatusOK(t) ==
    /\ Awaits(t) \/ status[t] \in {"idle", "anonymous"} =>
        /\ calls[t] = {} /\ Blank(t)
        /\ Over(task[t]["share"])
    /\ Awaits(t) => status[t] = "restoring" /\ (token[t] = None \/ swapped[t])
    /\ status[t] # "restoring" => Over(task[t]["restore"]) /\ task[t]["login"].at = "none"
    /\ task[t]["login"].at # "none" => Over(task[t]["restore"])
    /\ status[t] \in {"idle", "anonymous"} =>
        token[t] = None \/ task[t]["logout"].at \in {"resent", "answered"}

\* What a tab shows and asks for is of the user whose token it holds.
OwnOK(t) ==
    ~swapped[t] =>
        /\ \A c \in calls[t] : token[t] # None /\ owner[c.by] = owner[token[t]]
        /\ preference[t] # None => token[t] # None /\ preference[t] = owner[token[t]]
        /\ \A x \in items[t] : token[t] # None /\ x[1] = owner[token[t]]
        /\ selected[t] # None => token[t] # None /\ selected[t][1] = owner[token[t]]

\* At most one of the calls is of these slots.
Single(cs, slots) == \A c, d \in cs : c.slot \in slots /\ d.slot \in slots => c = d

\* What a call asks for is what the tab wants, or of what it shows.
ArgOK(t, c) ==
    /\ c.slot = "list" => c.arg = query[t] /\ c.arg \in Things
    /\ c.slot = "detail" =>
           c.arg = wanted[t] /\ c.arg \in Transactions /\ selected[t] = None
    /\ c.slot \in OnSelected => c.arg = selected[t] /\ c.arg # None

AskedOK(t) ==
    /\ \A c \in calls[t] : ArgOK(t, c)
    /\ Single(calls[t], {"detail"}) /\ Single(calls[t], Actions)
    /\ \A x \in items[t] : x[2] = query[t]
    /\ selected[t] # None =>
           wanted[t] \in Transactions /\ Succeeds(selected[t][2], wanted[t])

WaitOK(t) ==
    /\ status[t] = "restoring" => Awaits(t) \/ \E c \in calls[t] : c.slot = "context"
    /\ (\E c \in calls[t] : c.at = "waiting") => ~Over(task[t]["share"])

TabOK(t) == StagesOK(t) /\ KnownOK(t) /\ StatusOK(t) /\ OwnOK(t) /\ AskedOK(t) /\ WaitOK(t)

IInv ==
    /\ TypeOK
    /\ LockOK
    /\ CookiesOK
    /\ NoFalseAlarm
    /\ \A t \in Tabs : TabOK(t)

-----------------------------------------------------------------------------
LEMMA InitOK == Init => IInv
  <1>. SUFFICES ASSUME Init PROVE IInv
    OBVIOUS
  <1>1. Rest \in Task
    BY DEF Rest, Task, Stages, Cookies
  <1>2. cast \in Casts /\ cast.budget \in Nat /\ budget = cast.budget
    BY BrowserAssumption DEF Init
  <1>3. TypeOK
    <2>1. task \in [Tabs -> [Kinds -> Task]]
      BY <1>1 DEF Init
    <2>2. budget \in 0..cast.budget
      BY <1>2
    <2>. QED  BY <1>2, <2>1, <2>2 DEF Init, TypeOK, Cookies, Owners
  <1>4. \A t \in Tabs, k \in Kinds : task[t][k] = Rest
    BY DEF Init
  <1>5. \A t \in Tabs, k \in Kinds : ~Holding(t, k)
    BY <1>4 DEF Holding, Rest
  <1>6. LockOK
    BY <1>5, BrowserAssumption DEF Init, LockOK, Kinds
  <1>7. CookiesOK /\ NoFalseAlarm
    BY <1>5 DEF Init, CookiesOK, CookieOK, NoFalseAlarm
  <1>8. ASSUME NEW t \in Tabs PROVE TabOK(t)
    <2>1. \A k \in {"restore", "login", "share", "logout"} : task[t][k] = Rest
      BY <1>4 DEF Kinds
    <2>2. ~Awaits(t)
      BY <2>1 DEF Awaits, Rest, IsCurrent
    <2>3. /\ status[t] = "idle" /\ token[t] = None /\ calls[t] = {} /\ preference[t] = None
          /\ items[t] = {} /\ selected[t] = None
      BY DEF Init
    <2>4. StagesOK(t)
      BY <2>1 DEF StagesOK, Rest, Kinds
    <2>5. KnownOK(t)
      BY <2>1, <2>3 DEF KnownOK, Known, Rest, Kinds
    <2>6. StatusOK(t)
      BY <2>1, <2>2, <2>3 DEF StatusOK, Blank, Over, Rest
    <2>7. OwnOK(t) /\ AskedOK(t) /\ WaitOK(t)
      BY <2>3 DEF OwnOK, AskedOK, Single, WaitOK
    <2>. QED  BY <2>4, <2>5, <2>6, <2>7 DEF TabOK
  <1>. QED  BY <1>3, <1>6, <1>7, <1>8 DEF IInv

-----------------------------------------------------------------------------
(* What a step leaves alone.                                               *)

\* The types of what a tab keeps.
LEMMA TabTypes ==
    ASSUME IInv, NEW t \in Tabs
    PROVE  /\ task[t] \in [Kinds -> Task]
           /\ calls[t] \subseteq Call
           /\ token[t] \in Sessions \cup {None}
           /\ items[t] \subseteq Users \X Things
           /\ \A k \in Kinds : /\ task[t][k].with \in Cookies
                               /\ task[t][k].got \in Sessions \cup {None}
                               /\ task[t][k].at \in Stages
                               /\ task[t][k].current \in BOOLEAN
           /\ \A c \in calls[t] : c.by \in Sessions
  <1>1. task[t] \in [Kinds -> Task]
    BY DEF IInv, TypeOK
  <1>2. calls[t] \subseteq Call
    BY DEF IInv, TypeOK
  <1>3. token[t] \in Sessions \cup {None} /\ items[t] \subseteq Users \X Things
    BY DEF IInv, TypeOK
  <1>. QED  BY <1>1, <1>2, <1>3 DEF Task, Call

\* A step that leaves tab u as it is.
SameTab(u) ==
    /\ status'[u] = status[u] /\ token'[u] = token[u] /\ swapped'[u] = swapped[u]
    /\ task'[u] = task[u] /\ calls'[u] = calls[u] /\ preference'[u] = preference[u]
    /\ items'[u] = items[u] /\ query'[u] = query[u] /\ selected'[u] = selected[u]
    /\ wanted'[u] = wanted[u]

\* Sessions keep their users.
OwnersStay == \A s \in Sessions : owner[s] # None => owner'[s] = owner[s]

LEMMA SameTabOK ==
    ASSUME IInv, NEW u \in Tabs, SameTab(u), OwnersStay
    PROVE  TabOK(u)'
  <1>1. TabOK(u)
    BY DEF IInv
  <1>2. StagesOK(u)'
    BY <1>1 DEF TabOK, StagesOK, SameTab
  <1>3. KnownOK(u)'
    BY <1>1, TabTypes DEF TabOK, KnownOK, Known, SameTab, OwnersStay
  <1>4. StatusOK(u)'
    BY <1>1 DEF TabOK, StatusOK, Awaits, Blank, Over, IsCurrent, SameTab
  <1>5. OwnOK(u)'
    <2>1. token[u] # None => owner'[token[u]] = owner[token[u]]
      BY <1>1, TabTypes DEF TabOK, KnownOK, Known, OwnersStay
    <2>2. \A c \in calls[u] : owner'[c.by] = owner[c.by]
      BY <1>1, TabTypes, BrowserAssumption DEF TabOK, KnownOK, Known, OwnersStay
    <2>. QED  BY <1>1, <2>1, <2>2 DEF TabOK, OwnOK, SameTab
  <1>6. AskedOK(u)'
    BY <1>1 DEF TabOK, AskedOK, ArgOK, SameTab
  <1>7. WaitOK(u)'
    BY <1>1 DEF TabOK, WaitOK, Awaits, Over, IsCurrent, SameTab
  <1>. QED  BY <1>2, <1>3, <1>4, <1>5, <1>6, <1>7 DEF TabOK

\* One task of a tab moves on.
LEMMA AlterOK ==
    ASSUME IInv, NEW t \in Tabs, NEW k \in Kinds, NEW r \in Task, Alter(t, k, r)
    PROVE  /\ task' \in [Tabs -> [Kinds -> Task]]
           /\ task'[t][k] = r
           /\ \A j \in Kinds \ {k} : task'[t][j] = task[t][j]
           /\ \A u \in Tabs \ {t} : task'[u] = task[u]
  <1>1. task \in [Tabs -> [Kinds -> Task]]
    BY DEF IInv, TypeOK
  <1>2. task' = [task EXCEPT ![t][k] = r]
    BY DEF Alter
  <1>. QED  BY <1>1, <1>2

\* A cookie stays in order when sessions are closed or their exchanges are
\* cut off.
LEMMA CookieStays ==
    ASSUME NEW c, CookieOK(c), owner' = owner, newest' = newest,
           broken \cup ended \subseteq broken' \cup ended'
    PROVE  CookieOK(c)'
  BY DEF CookieOK

\* Exchanges that are cut off.
LEMMA BreakOff ==
    ASSUME IInv, NEW t \in Tabs, NEW kinds \in SUBSET {"restore", "share", "logout"},
           orphans' = orphans \cup Underway(t, kinds),
           broken' = broken \cup {c[1] : c \in Underway(t, kinds)},
           UNCHANGED <<owner, newest, alarmed>>
    PROVE  /\ orphans' \subseteq Cookies \ {None}
           /\ broken' \subseteq Sessions
           /\ broken \subseteq broken'
           /\ \A c \in orphans' : owner'[c[1]] # None /\ c[2] <= newest'[c[1]] /\ c[1] \in broken'
           /\ NoFalseAlarm'
  <1>1. ASSUME NEW c \in Underway(t, kinds)
        PROVE  c \in Cookies \ {None} /\ owner[c[1]] # None /\ c[2] <= newest[c[1]]
    <2>1. PICK k \in kinds : /\ task[t][k].at = IF k = "logout" THEN "refresh" ELSE "sent"
                             /\ c = task[t][k].with /\ c # None
      BY DEF Underway
    <2>2. k \in Kinds /\ Holding(t, k)
      BY <2>1 DEF Kinds, Holding
    <2>3. c \in Cookies
      BY <2>1, <2>2, TabTypes
    <2>4. CookieOK(task[t][k].with)
      BY <2>2 DEF IInv, CookiesOK
    <2>. QED  BY <2>1, <2>3, <2>4 DEF CookieOK
  <1>2. orphans' \subseteq Cookies \ {None}
    BY <1>1 DEF IInv, TypeOK
  <1>3. \A c \in Cookies \ {None} : c[1] \in Sessions
    BY DEF Cookies
  <1>4. broken' \subseteq Sessions /\ broken \subseteq broken'
    BY <1>1, <1>3 DEF IInv, TypeOK
  <1>5. \A c \in orphans' : owner'[c[1]] # None /\ c[2] <= newest'[c[1]] /\ c[1] \in broken'
    BY <1>1 DEF IInv, CookiesOK
  <1>6. NoFalseAlarm'
    BY <1>4 DEF IInv, NoFalseAlarm
  <1>. QED  BY <1>2, <1>4, <1>5, <1>6

\* What is superseded is over.
LEMMA SupersededOK ==
    ASSUME NEW r \in Task
    PROVE  /\ Superseded(r) \in Task /\ Over(Superseded(r)) /\ ~IsCurrent(Superseded(r))
           /\ Superseded(r).at \in {"none", "answered"} /\ Superseded(r).got \in {None, r.got}
           /\ ~Superseded(r).current => Superseded(r).at = "answered"
           /\ r.at # "answered" => Superseded(r) = Rest
  <1>1. CASE r.at = "answered"
    <2>1. /\ Superseded(r) = [r EXCEPT !.current = FALSE]
          /\ Superseded(r) \in Task
          /\ Superseded(r).at = "answered" /\ ~Superseded(r).current /\ Superseded(r).got = r.got
      BY <1>1 DEF Superseded, Task
    <2>. QED  BY <1>1, <2>1 DEF Over, IsCurrent
  <1>2. CASE r.at # "answered"
    <2>1. Superseded(r) = Rest
      BY <1>2 DEF Superseded
    <2>2. Rest \in Task /\ Rest.at = "none" /\ Rest.got = None /\ Rest.current
      BY DEF Rest, Task, Stages, Cookies
    <2>. QED  BY <2>1, <2>2 DEF Over, IsCurrent
  <1>. QED  BY <1>1, <1>2

\* A tab forgets its user: it has nobody, or waits for somebody.
LEMMA ClearOK ==
    ASSUME IInv, NEW t \in Tabs, NEW state, NEW tasks \in [Kinds -> Task],
           Clear(t, state, tasks),
           UNCHANGED <<jar, owner, newest, ended, alarmed, cast>>,
           mail' \subseteq Tabs, budget' \in 0..cast.budget,
           tasks["share"] \in {Superseded(task[t]["share"]), Rest},
           \/ tasks["logout"] = task[t]["logout"]
           \/ tasks["logout"] = Rest /\ task[t]["logout"].at = "answered",
           \/ /\ state = "anonymous" /\ tasks["login"] = Rest
              /\ tasks["restore"] \in {Superseded(task[t]["restore"]), Rest}
           \/ /\ state = "restoring" /\ tasks["login"] = Rest
              /\ tasks["restore"] = To("queue")
           \/ /\ state = "restoring" /\ tasks["login"] = To("sent")
              /\ tasks["restore"] = Superseded(task[t]["restore"])
    PROVE  IInv'
  <1>. DEFINE was(k) == task[t][k]
  <1>1. /\ token'[t] = None /\ swapped'[t] = FALSE /\ calls'[t] = {} /\ preference'[t] = None
        /\ items'[t] = {} /\ query'[t] = None /\ selected'[t] = None /\ wanted'[t] = None
        /\ status'[t] = state /\ task'[t] = tasks
        /\ \A u \in Tabs \ {t} : SameTab(u)
    BY DEF Clear, Forget, Aborted, SameTab, IInv, TypeOK
  <1>2. /\ task[t] \in [Kinds -> Task]
        /\ \A k \in Kinds : was(k) \in Task
    BY TabTypes
  <1>3. /\ {"restore", "login", "share", "logout"} = Kinds
        /\ Rest \in Task /\ Rest.at = "none" /\ Rest.got = None /\ Rest.current
        /\ To("queue") \in Task /\ To("queue").at = "queue" /\ To("queue").got = None
        /\ To("queue").current
        /\ To("sent") \in Task /\ To("sent").at = "sent" /\ To("sent").got = None
        /\ To("sent").current
    BY DEF Kinds, Rest, To, Task, Stages, Cookies
  <1>4. /\ Over(Superseded(was("restore"))) /\ Over(Superseded(was("share")))
        /\ ~IsCurrent(Superseded(was("restore"))) /\ ~IsCurrent(Superseded(was("share")))
        /\ Superseded(was("restore")).at \in {"none", "answered"}
        /\ Superseded(was("share")).at \in {"none", "answered"}
        /\ Superseded(was("restore")).got \in {None, was("restore").got}
        /\ Superseded(was("share")).got \in {None, was("share").got}
        /\ ~Superseded(was("restore")).current => Superseded(was("restore")).at = "answered"
        /\ ~Superseded(was("share")).current => Superseded(was("share")).at = "answered"
    BY <1>2, <1>3, SupersededOK
  <1>5. Over(Rest) /\ ~IsCurrent(Rest) /\ ~IsCurrent(To("queue"))
    BY <1>3 DEF Over, IsCurrent
  <1>6. TypeOK'
    <2>1. task' \in [Tabs -> [Kinds -> Task]]
      BY DEF Clear, IInv, TypeOK
    <2>2. /\ status' \in [Tabs -> {"idle", "restoring", "authenticated", "anonymous"}]
          /\ token' \in [Tabs -> Sessions \cup {None}]
          /\ live' \in [Tabs -> BOOLEAN] /\ swapped' \in [Tabs -> BOOLEAN]
      BY DEF Clear, Forget, IInv, TypeOK
    <2>3. /\ calls' \in [Tabs -> SUBSET Call]
          /\ preference' \in [Tabs -> Owners]
          /\ items' \in [Tabs -> SUBSET (Users \X Things)]
      BY DEF Clear, Forget, Aborted, IInv, TypeOK, Owners
    <2>4. /\ query' \in [Tabs -> Things \cup {None}]
          /\ wanted' \in [Tabs -> Transactions \cup {None}]
          /\ selected' \in [Tabs -> (Users \X Transactions) \cup {None}]
      BY DEF Clear, Forget, IInv, TypeOK
    <2>5. lock' \in (Tabs \X Kinds) \cup {None}
      BY DEF Clear, IInv, TypeOK
    <2>6. orphans' \subseteq Cookies \ {None} /\ broken' \subseteq Sessions
      BY BreakOff DEF Clear
    <2>7. /\ jar' = jar /\ newest' = newest /\ owner' = owner /\ ended' = ended
          /\ alarmed' = alarmed /\ cast' = cast
          /\ mail' \subseteq Tabs /\ budget' \in 0..cast'.budget
      OBVIOUS
    <2>8. /\ jar \in Cookies /\ (jar # None => jar[2] \in 1..newest[jar[1]])
          /\ owner \in [Sessions -> Owners] /\ newest \in [Sessions -> Nat]
          /\ ended \subseteq Sessions /\ alarmed \subseteq ended /\ cast \in Casts
      BY DEF IInv, TypeOK
    <2>. QED  BY <2>1, <2>2, <2>3, <2>4, <2>5, <2>6, <2>7, <2>8 DEF TypeOK
  <1>7. StagesOK(t)
    BY DEF IInv, TabOK
  <1>8. /\ ~Holding(t, "restore")' /\ ~Holding(t, "share")'
        /\ ~Holding(t, "login")' /\ ~Holding(t, "login")
        /\ Holding(t, "logout")' <=> Holding(t, "logout")
    BY <1>1, <1>3, <1>4 DEF Holding
  <1>9. \A u \in Tabs \ {t}, k \in Kinds : Holding(u, k)' <=> Holding(u, k)
    BY <1>1 DEF Holding, SameTab
  <1>10. LockOK'
    <2>1. lock' = IF lock \in {<<t, "restore">>, <<t, "share">>} THEN None ELSE lock
      BY DEF Clear
    <2>2. ASSUME NEW u \in Tabs, NEW k \in Kinds
          PROVE  Holding(u, k)' <=> lock' = <<u, k>>
      <3>1. <<u, k>> # None
        BY BrowserAssumption DEF Kinds
      <3>2. Holding(u, k) <=> lock = <<u, k>>
        BY DEF IInv, LockOK
      <3>3. CASE u = t /\ k \in {"restore", "share"}
        BY <1>8, <2>1, <3>1, <3>3
      <3>4. CASE u = t /\ k = "login"
        BY <1>8, <2>1, <3>1, <3>2, <3>4
      <3>5. CASE u = t /\ k = "logout"
        BY <1>8, <2>1, <3>1, <3>2, <3>5
      <3>6. CASE u # t
        BY <1>9, <2>1, <3>1, <3>2, <3>6
      <3>. QED  BY <1>3, <3>3, <3>4, <3>5, <3>6
    <2>. QED  BY <2>2 DEF LockOK
  <1>11. CookiesOK' /\ NoFalseAlarm'
    <2>1. /\ NoFalseAlarm' /\ broken \subseteq broken'
          /\ \A c \in orphans' : owner'[c[1]] # None /\ c[2] <= newest'[c[1]] /\ c[1] \in broken'
      BY BreakOff DEF Clear
    <2>2. CookieOK(jar)'
      BY <2>1 DEF IInv, CookiesOK, CookieOK
    <2>3. ASSUME NEW u \in Tabs, NEW k \in Kinds, Holding(u, k)'
          PROVE  CookieOK(task[u][k].with)'
      <3>1. Holding(u, k) /\ task'[u][k].with = task[u][k].with
        <4>1. CASE u = t
          <5>1. k = "logout" /\ task[t]["logout"].at # "answered"
            BY <1>1, <1>3, <1>8, <2>3, <4>1 DEF Holding
          <5>. QED  BY <1>1, <1>3, <1>8, <2>3, <4>1, <5>1
        <4>2. CASE u # t
          BY <1>1, <1>9, <2>3, <4>2 DEF SameTab
        <4>. QED  BY <4>1, <4>2
      <3>. QED  BY <2>1, <3>1 DEF IInv, CookiesOK, CookieOK
    <2>. QED  BY <2>1, <2>2, <2>3 DEF CookiesOK
  <1>12. TabOK(t)'
    <2>1. StagesOK(t)'
      BY <1>1, <1>3, <1>4, <1>7 DEF StagesOK
    <2>2. KnownOK(t)'
      <3>1. \A k \in Kinds : Known(task[t][k].got)
        BY DEF IInv, TabOK, KnownOK
      <3>. QED  BY <1>1, <1>3, <1>4, <3>1 DEF KnownOK, Known
    <2>3. StatusOK(t)'
      BY <1>1, <1>3, <1>4, <1>5 DEF StatusOK, Awaits, Blank, IsCurrent, Over
    <2>4. OwnOK(t)' /\ AskedOK(t)'
      BY <1>1 DEF OwnOK, AskedOK, Single
    <2>5. WaitOK(t)'
      BY <1>1, <1>3 DEF WaitOK, Awaits
    <2>. QED  BY <2>1, <2>2, <2>3, <2>4, <2>5 DEF TabOK
  <1>13. \A u \in Tabs \ {t} : TabOK(u)'
    BY <1>1, SameTabOK DEF OwnersStay
  <1>. QED  BY <1>6, <1>10, <1>11, <1>12, <1>13 DEF IInv

LEMMA ClearedOK ==
    ASSUME IInv, NEW t \in Tabs
    PROVE  /\ Cleared(t) \in [Kinds -> Task]
           /\ Cleared(t)["restore"] = Superseded(task[t]["restore"])
           /\ Cleared(t)["share"] = Superseded(task[t]["share"])
           /\ Cleared(t)["login"] = Rest
           /\ Cleared(t)["logout"] = task[t]["logout"]
  <1>1. task[t] \in [Kinds -> Task] /\ \A k \in Kinds : task[t][k] \in Task
    BY TabTypes
  <1>2. \A k \in Kinds : Superseded(task[t][k]) \in Task
    BY <1>1, SupersededOK
  <1>3. {"restore", "login", "share", "logout"} = Kinds
    BY DEF Kinds
  <1>4. task[t]["login"].at # "answered"
    BY DEF IInv, TabOK, StagesOK
  <1>5. Superseded(task[t]["login"]) = Rest
    BY <1>1, <1>3, <1>4, SupersededOK
  <1>. QED  BY <1>1, <1>2, <1>3, <1>5 DEF Cleared

\* The tasks a step may start or end by clearing its tab.
LEMMA StartsOK ==
    /\ Rest \in Task /\ To("queue") \in Task /\ To("sent") \in Task
    /\ {"restore", "login", "share", "logout"} = Kinds
  BY DEF Rest, To, Task, Stages, Cookies, Kinds

LEMMA BudgetOK ==
    ASSUME IInv, cast' = cast, budget' = budget \/ (budget > 0 /\ budget' = budget - 1)
    PROVE  cast' \in Casts /\ budget' \in 0..cast'.budget /\ budget' \in 0..cast.budget
  BY BrowserAssumption DEF IInv, TypeOK

LEMMA HearOK ==
    ASSUME IInv, NEW t \in Tabs, Hear(t), cast' = cast
    PROVE  IInv'
  <1>1. Clear(t, "anonymous", Cleared(t)) /\ mail' \subseteq Tabs
    BY DEF Hear, IInv, TypeOK
  <1>. QED  BY <1>1, ClearedOK, ClearOK, BudgetOK DEF Hear

LEMMA StartRestoreOK ==
    ASSUME IInv, NEW t \in Tabs, StartRestore(t), cast' = cast
    PROVE  IInv'
  <1>. DEFINE tasks == [Cleared(t) EXCEPT !["restore"] = To("queue")]
  <1>1. Clear(t, "restoring", tasks) /\ mail' \subseteq Tabs
    BY DEF StartRestore, IInv, TypeOK
  <1>2. /\ tasks \in [Kinds -> Task] /\ tasks["restore"] = To("queue") /\ tasks["login"] = Rest
        /\ tasks["share"] = Superseded(task[t]["share"]) /\ tasks["logout"] = task[t]["logout"]
    BY ClearedOK, StartsOK
  <1>. HIDE DEF tasks
  <1>. QED  BY <1>1, <1>2, ClearOK, BudgetOK DEF StartRestore

LEMMA StartLoginOK ==
    ASSUME IInv, NEW t \in Tabs, StartLogin(t), cast' = cast
    PROVE  IInv'
  <1>. DEFINE tasks == [Cleared(t) EXCEPT !["login"] = To("sent")]
  <1>1. Clear(t, "restoring", tasks) /\ mail' \subseteq Tabs
    BY DEF StartLogin, IInv, TypeOK
  <1>2. /\ tasks \in [Kinds -> Task] /\ tasks["login"] = To("sent")
        /\ tasks["restore"] = Superseded(task[t]["restore"])
        /\ tasks["share"] = Superseded(task[t]["share"]) /\ tasks["logout"] = task[t]["logout"]
    BY ClearedOK, StartsOK
  <1>. HIDE DEF tasks
  <1>. QED  BY <1>1, <1>2, ClearOK, BudgetOK DEF StartLogin

LEMMA LoginFailsOK ==
    ASSUME IInv, NEW t \in Tabs, LoginFails(t), cast' = cast
    PROVE  IInv'
  <1>1. Clear(t, "anonymous", Cleared(t)) /\ mail' \subseteq Tabs
    BY DEF LoginFails, IInv, TypeOK
  <1>. QED  BY <1>1, ClearedOK, ClearOK, BudgetOK DEF LoginFails

LEMMA EndLogoutOK ==
    ASSUME IInv, NEW t \in Tabs, EndLogout(t), cast' = cast
    PROVE  IInv'
  <1>. DEFINE tasks == [Cleared(t) EXCEPT !["logout"] = Rest]
  <1>1. /\ Clear(t, "anonymous", tasks) /\ mail' \subseteq Tabs
        /\ task[t]["logout"].at = "answered"
    BY DEF EndLogout, Broadcast, IInv, TypeOK
  <1>2. /\ tasks \in [Kinds -> Task] /\ tasks["login"] = Rest
        /\ tasks["restore"] = Superseded(task[t]["restore"])
        /\ tasks["share"] = Superseded(task[t]["share"]) /\ tasks["logout"] = Rest
    BY ClearedOK, StartsOK
  <1>. HIDE DEF tasks
  <1>. QED  BY <1>1, <1>2, ClearOK, BudgetOK DEF EndLogout

-----------------------------------------------------------------------------
(* Requests under the lock.                                                *)

\* A step of one tab.
LEMMA OneTab ==
    ASSUME IInv, NEW t \in Tabs, TypeOK', LockOK', CookiesOK', NoFalseAlarm', TabOK(t)',
           \A u \in Tabs \ {t} : SameTab(u), OwnersStay
    PROVE  IInv'
  BY SameTabOK DEF IInv

\* A tab changes neither what it shows nor what it calls.
SamePage(u) ==
    /\ status'[u] = status[u] /\ calls'[u] = calls[u] /\ preference'[u] = preference[u]
    /\ items'[u] = items[u] /\ query'[u] = query[u] /\ selected'[u] = selected[u]
    /\ wanted'[u] = wanted[u]

\* The request of a tab goes out, moves on or comes back, and the lock with it.
LEMMA MoveOK ==
    ASSUME IInv, NEW t \in Tabs, NEW k \in {"restore", "share", "logout"}, NEW r \in Task,
           Alter(t, k, r),
           \/ lock' = <<t, k>> /\ lock = None
           \/ lock' \in {None, lock} /\ lock = <<t, k>>,
           lock' = <<t, k>> <=>
               \/ k \in {"restore", "share"} /\ r.at = "sent"
               \/ k = "logout" /\ r.at \in {"sent", "refresh", "resent"}
    PROVE  /\ LockOK' /\ lock' \in (Tabs \X Kinds) \cup {None}
           /\ \A u \in Tabs, j \in Kinds : Holding(u, j)' =>
                  u = t /\ j = k /\ lock' = <<t, k>> /\ task'[t][k] = r
  <1>1. k \in Kinds /\ <<t, k>> # None
    BY BrowserAssumption DEF Kinds
  <1>2. /\ task'[t][k] = r /\ \A j \in Kinds \ {k} : task'[t][j] = task[t][j]
        /\ \A u \in Tabs \ {t} : task'[u] = task[u]
    BY <1>1, AlterOK
  <1>3. \A u \in Tabs, j \in Kinds : Holding(u, j) <=> lock = <<u, j>>
    BY DEF IInv, LockOK
  <1>4. Holding(t, k)' <=> lock' = <<t, k>>
    BY <1>2 DEF Holding
  <1>5. ASSUME NEW u \in Tabs, NEW j \in Kinds, <<u, j>> # <<t, k>>
        PROVE  ~Holding(u, j)' /\ lock' # <<u, j>>
    <2>1. task'[u][j] = task[u][j]
      BY <1>2, <1>5
    <2>2. Holding(u, j)' <=> Holding(u, j)
      BY <2>1 DEF Holding
    <2>3. ~Holding(u, j)
      BY <1>1, <1>3, <1>5, BrowserAssumption DEF Kinds
    <2>4. <<u, j>> # None
      BY BrowserAssumption DEF Kinds
    <2>. QED  BY <1>5, <2>2, <2>3, <2>4
  <1>6. LockOK'
    BY <1>4, <1>5 DEF LockOK
  <1>. QED  BY <1>1, <1>2, <1>4, <1>5, <1>6

\* What the tab is about does not change with that.
LEMMA MovedTab ==
    ASSUME IInv, NEW t \in Tabs, NEW k \in {"restore", "share", "logout"}, NEW r \in Task,
           Alter(t, k, r), SamePage(t), token'[t] = token[t], swapped'[t] = swapped[t],
           OwnersStay, r.got # None => owner'[r.got] # None,
           r.current,
           k \in {"restore", "share"} =>
               /\ r.at \in {"none", "queue", "sent", "answered"}
               /\ r.at = "none" <=> Over(task[t][k])
               /\ task[t][k].at # "context",
           k = "logout" =>
               /\ r.at \in {"queue", "sent", "refresh", "resent", "answered"}
               /\ task[t][k].at \in {"resent", "answered"} => r.at \in {"resent", "answered"}
    PROVE  TabOK(t)'
  <1>1. TabOK(t)
    BY DEF IInv
  <1>2. {"restore", "login", "share", "logout"} = Kinds
    BY DEF Kinds
  <1>3. task'[t][k] = r /\ \A j \in Kinds \ {k} : task'[t][j] = task[t][j]
    BY <1>2, AlterOK
  <1>4. StagesOK(t)'
    BY <1>1, <1>2, <1>3 DEF TabOK, StagesOK
  <1>5. KnownOK(t)'
    <2>1. Known(token[t])'
      BY <1>1, TabTypes DEF TabOK, KnownOK, Known, OwnersStay
    <2>2. \A c \in calls[t] : Known(c.by)'
      BY <1>1, TabTypes DEF TabOK, KnownOK, Known, OwnersStay
    <2>3. ASSUME NEW j \in Kinds
          PROVE  Known(task[t][j].got)'
      <3>1. CASE j = k
        BY <1>3, <3>1 DEF Known
      <3>2. CASE j # k
        <4>1. task[t][j].got \in Sessions \cup {None} /\ Known(task[t][j].got)
          BY <1>1, TabTypes DEF TabOK, KnownOK
        <4>2. task'[t][j].got = task[t][j].got
          BY <1>3, <3>2
        <4>. QED  BY <4>1, <4>2 DEF Known, OwnersStay
      <3>. QED  BY <3>1, <3>2
    <2>. QED  BY <2>1, <2>2, <2>3 DEF KnownOK, Known, SamePage
  <1>6. /\ Awaits(t)' <=> Awaits(t)
        /\ Over(task'[t]["share"]) <=> Over(task[t]["share"])
        /\ Over(task'[t]["restore"]) <=> Over(task[t]["restore"])
    <2>1. /\ task[t]["restore"].at \in {"none", "queue", "sent", "answered", "context"}
          /\ task[t]["share"].at \in {"none", "queue", "sent", "answered"}
          /\ \A j \in Kinds : ~task[t][j].current => task[t][j].at = "answered"
      BY <1>1 DEF TabOK, StagesOK
    <2>2. CASE k = "restore"
      BY <1>2, <1>3, <2>1, <2>2 DEF Awaits, Over, IsCurrent
    <2>3. CASE k = "share"
      BY <1>2, <1>3, <2>1, <2>3 DEF Awaits, Over, IsCurrent
    <2>4. CASE k = "logout"
      BY <1>2, <1>3, <2>4 DEF Awaits, Over, IsCurrent
    <2>. QED  BY <2>2, <2>3, <2>4
  <1>7. StatusOK(t)'
    <2>1. task'[t]["login"] = task[t]["login"]
      BY <1>2, <1>3
    <2>2. task[t]["logout"].at \in {"resent", "answered"} =>
              task'[t]["logout"].at \in {"resent", "answered"}
      BY <1>2, <1>3
    <2>. QED  BY <1>1, <1>6, <2>1, <2>2 DEF TabOK, StatusOK, Blank, SamePage
  <1>8. OwnOK(t)'
    <2>1. token[t] # None => owner'[token[t]] = owner[token[t]]
      BY <1>1, TabTypes DEF TabOK, KnownOK, Known, OwnersStay
    <2>2. \A c \in calls[t] : owner'[c.by] = owner[c.by]
      BY <1>1, TabTypes, BrowserAssumption DEF TabOK, KnownOK, Known, OwnersStay
    <2>. QED  BY <1>1, <2>1, <2>2 DEF TabOK, OwnOK, SamePage
  <1>9. AskedOK(t)'
    BY <1>1 DEF TabOK, AskedOK, ArgOK, SamePage
  <1>10. WaitOK(t)'
    BY <1>1, <1>6 DEF TabOK, WaitOK, SamePage
  <1>. QED  BY <1>4, <1>5, <1>7, <1>8, <1>9, <1>10 DEF TabOK

\* What the server makes of a cookie.
LEMMA ExchangeOK ==
    ASSUME IInv, NEW c \in Cookies, CookieOK(c), Exchange(c), broken' = broken
    PROVE  /\ owner' = owner
           /\ newest' \in [Sessions -> Nat] /\ \A s \in Sessions : newest[s] <= newest'[s]
           /\ \A s \in Sessions : newest'[s] = newest[s] \/ (Exchanged(c) /\ s = c[1])
           /\ ended \subseteq ended' /\ ended' \subseteq Sessions /\ alarmed' \subseteq ended'
           /\ NoFalseAlarm'
           /\ Exchanged(c) => /\ c[1] \in Sessions /\ owner[c[1]] # None /\ c # None
                              /\ <<c[1], c[2] + 1>> \in Cookies
                              /\ c[2] \in Nat /\ newest'[c[1]] = c[2] + 1
           /\ GotBy(c) \in Sessions \cup {None}
           /\ GotBy(c) # None => owner'[GotBy(c)] # None
  <1>1. c # None => c[1] \in Sessions /\ c[2] \in Nat /\ newest[c[1]] \in Nat
    BY DEF Cookies, IInv, TypeOK
  <1>2. /\ newest \in [Sessions -> Nat] /\ ended \subseteq Sessions /\ alarmed \subseteq ended
        /\ alarmed \subseteq broken
    BY DEF IInv, TypeOK, NoFalseAlarm
  <1>3. Exchanged(c) => c # None /\ c[2] = newest[c[1]]
    BY DEF Exchanged
  <1>4. Exchanged(c) => newest' = [newest EXCEPT ![c[1]] = @ + 1]
    BY DEF Exchange
  <1>5. ~Exchanged(c) => newest' = newest
    BY DEF Exchange
  <1>6. /\ newest' \in [Sessions -> Nat] /\ \A s \in Sessions : newest[s] <= newest'[s]
        /\ \A s \in Sessions : newest'[s] = newest[s] \/ (Exchanged(c) /\ s = c[1])
        /\ Exchanged(c) => newest'[c[1]] = c[2] + 1
    <2>1. CASE Exchanged(c)
      <3>1. /\ newest'[c[1]] = newest[c[1]] + 1 /\ newest' \in [Sessions -> Nat]
            /\ \A s \in Sessions \ {c[1]} : newest'[s] = newest[s]
        BY <1>1, <1>2, <1>3, <1>4, <2>1
      <3>2. \A s \in Sessions : newest[s] \in Nat /\ newest[s] <= newest'[s]
        BY <1>2, <3>1
      <3>3. newest'[c[1]] = c[2] + 1
        BY <1>3, <2>1, <3>1
      <3>. QED  BY <2>1, <3>1, <3>2, <3>3
    <2>2. CASE ~Exchanged(c)
      <3>1. \A s \in Sessions : newest[s] \in Nat /\ newest[s] <= newest[s]
        BY <1>2
      <3>. QED  BY <1>2, <1>5, <2>2, <3>1
    <2>. QED  BY <2>1, <2>2
  <1>7. Reused(c) => c # None /\ c[1] \in broken
    BY <1>1 DEF Reused, CookieOK
  <1>8. /\ ended \subseteq ended' /\ ended' \subseteq Sessions /\ alarmed' \subseteq ended'
        /\ NoFalseAlarm'
    BY <1>1, <1>2, <1>7 DEF Exchange, NoFalseAlarm
  <1>9. Exchanged(c) => c[1] \in Sessions /\ owner[c[1]] # None /\ c # None /\ c[2] \in Nat
    BY <1>1, <1>3 DEF CookieOK
  <1>10. Exchanged(c) => <<c[1], c[2] + 1>> \in Cookies
    BY <1>9 DEF Cookies
  <1>11. owner' = owner
    BY DEF Exchange
  <1>12. GotBy(c) \in Sessions \cup {None} /\ (GotBy(c) # None => owner'[GotBy(c)] # None)
    BY <1>9, <1>11 DEF GotBy
  <1>. QED  BY <1>6, <1>8, <1>9, <1>10, <1>11, <1>12

\* The cookie that comes back is in order.
LEMMA RefreshCookieOK ==
    ASSUME IInv, NEW c \in Cookies, CookieOK(c), Exchange(c), RefreshCookie(c), broken' = broken
    PROVE  /\ jar' \in Cookies /\ CookieOK(jar)'
           /\ jar' # None => jar'[2] \in 1..newest'[jar'[1]]
           /\ \A d \in orphans : owner'[d[1]] # None /\ d[2] <= newest'[d[1]] /\ d[1] \in broken'
  <1>1. /\ owner' = owner
        /\ Exchanged(c) => /\ c[1] \in Sessions /\ owner[c[1]] # None /\ c # None
                           /\ <<c[1], c[2] + 1>> \in Cookies
                           /\ c[2] \in Nat /\ newest'[c[1]] = c[2] + 1
    BY ExchangeOK
  <1>2. newest' \in [Sessions -> Nat] /\ \A s \in Sessions : newest[s] <= newest'[s]
    BY ExchangeOK
  <1>3. ASSUME Exchanged(c)
        PROVE  /\ jar' \in Cookies /\ CookieOK(jar)'
               /\ jar' # None => jar'[2] \in 1..newest'[jar'[1]]
    <2>1. jar' = <<c[1], c[2] + 1>>
      BY <1>3 DEF RefreshCookie
    <2>2. jar'[1] = c[1] /\ jar'[2] = c[2] + 1
      BY <2>1
    <2>3. jar' \in Cookies /\ CookieOK(jar)'
      BY <1>1, <1>3, <2>1, <2>2 DEF CookieOK
    <2>4. jar'[2] \in 1..newest'[jar'[1]]
      <3>1. newest'[jar'[1]] = c[2] + 1
        BY <1>1, <1>3, <2>2
      <3>. QED  BY <1>1, <1>3, <2>2, <3>1
    <2>. QED  BY <2>3, <2>4
  <1>4. ASSUME ~Exchanged(c)
        PROVE  /\ jar' \in Cookies /\ CookieOK(jar)'
               /\ jar' # None => jar'[2] \in 1..newest'[jar'[1]]
    BY <1>4 DEF RefreshCookie, Cookies, CookieOK
  <1>5. ASSUME NEW d \in orphans
        PROVE  owner'[d[1]] # None /\ d[2] <= newest'[d[1]] /\ d[1] \in broken'
    <2>1. owner[d[1]] # None /\ d[2] <= newest[d[1]] /\ d[1] \in broken
      BY DEF IInv, CookiesOK
    <2>2. d[1] \in Sessions /\ d[2] \in Nat
      BY DEF IInv, TypeOK, Cookies
    <2>3. newest[d[1]] \in Nat /\ newest'[d[1]] \in Nat /\ newest[d[1]] <= newest'[d[1]]
      BY <1>2, <2>2 DEF IInv, TypeOK
    <2>. QED  BY <1>1, <2>1, <2>2, <2>3
  <1>. QED  BY <1>3, <1>4, <1>5

LEMMA TakeLockOK ==
    ASSUME IInv, NEW t \in Tabs, NEW k \in Kinds, TakeLock(t, k), cast' = cast
    PROVE  IInv'
  <1>. DEFINE r == [To("sent") EXCEPT !.with = jar,
                        !.got = IF k = "logout" /\ live[t] THEN token[t] ELSE None]
  <1>1. TabOK(t) /\ jar \in Cookies /\ token[t] \in Sessions \cup {None}
    BY DEF IInv, TypeOK
  <1>2. k \in {"restore", "share", "logout"} /\ task[t][k].at = "queue"
    BY <1>1 DEF TakeLock, TabOK, StagesOK, Kinds
  <1>3. /\ r \in Task /\ r.at = "sent" /\ r.current /\ r.with = jar
        /\ r.got \in {None, token[t]}
    BY <1>1 DEF To, Rest, Task, Stages, Cookies
  <1>4. Alter(t, k, r) /\ lock = None /\ lock' = <<t, k>>
    BY DEF TakeLock, LockFree
  <1>5. /\ UNCHANGED <<jar, owner, newest, ended, alarmed, broken, orphans, mail>>
        /\ UNCHANGED <<status, token, live, swapped, calls, preference, items, query,
                       selected, wanted, budget>>
    BY DEF TakeLock, serverVars, pageVars
  <1>. HIDE DEF r
  <1>6. /\ LockOK' /\ lock' \in (Tabs \X Kinds) \cup {None}
        /\ \A u \in Tabs, j \in Kinds : Holding(u, j)' =>
               u = t /\ j = k /\ lock' = <<t, k>> /\ task'[t][k] = r
    <2>1. lock' = <<t, k>> /\ lock = None
      BY <1>4
    <2>2. lock' = <<t, k>> <=>
              \/ k \in {"restore", "share"} /\ r.at = "sent"
              \/ k = "logout" /\ r.at \in {"sent", "refresh", "resent"}
      BY <1>2, <1>3, <1>4
    <2>3. r \in Task /\ Alter(t, k, r)
      BY <1>3, <1>4
    <2>. QED  BY <1>2, <2>1, <2>2, <2>3, MoveOK
  <1>7. CookiesOK'
    BY <1>3, <1>5, <1>6 DEF CookiesOK, CookieOK, IInv
  <1>8. TypeOK'
    <2>1. task' \in [Tabs -> [Kinds -> Task]]
      BY <1>3, <1>4, AlterOK
    <2>. QED  BY <1>5, <1>6, <2>1 DEF IInv, TypeOK
  <1>9. NoFalseAlarm' /\ OwnersStay
    BY <1>5 DEF IInv, NoFalseAlarm, OwnersStay
  <1>10. TabOK(t)'
    <2>1. r.got # None => owner'[r.got] # None
      BY <1>1, <1>3, <1>5 DEF TabOK, KnownOK, Known
    <2>2. SamePage(t)
      BY <1>5 DEF SamePage
    <2>3. ~Over(task[t][k])
      BY <1>1, <1>2 DEF Over, TabOK, StagesOK, Kinds
    <2>4. token'[t] = token[t] /\ swapped'[t] = swapped[t]
      BY <1>5
    <2>. QED  BY <1>2, <1>3, <1>4, <1>9, <2>1, <2>2, <2>3, <2>4, MovedTab
  <1>11. \A u \in Tabs \ {t} : SameTab(u)
    BY <1>2, <1>3, <1>4, <1>5, AlterOK DEF SameTab, Kinds
  <1>. QED  BY <1>6, <1>7, <1>8, <1>9, <1>10, <1>11, OneTab

\* A request under the lock is over, with a session or without one.
LEMMA AnsweredOK ==
    ASSUME IInv, NEW t \in Tabs, NEW k \in {"restore", "share", "logout"}, Holding(t, k),
           NEW r \in Task, r.at = "answered", r.current, r.got # None => owner'[r.got] # None,
           Alter(t, k, r), lock' = None,
           UNCHANGED <<owner, status, token, swapped, calls, preference, items, query,
                       selected, wanted>>
    PROVE  /\ LockOK' /\ lock' \in (Tabs \X Kinds) \cup {None}
           /\ task' \in [Tabs -> [Kinds -> Task]]
           /\ \A u \in Tabs, j \in Kinds : ~Holding(u, j)'
           /\ TabOK(t)' /\ OwnersStay
           /\ \A u \in Tabs \ {t} : SameTab(u)
  <1>1. k \in Kinds /\ <<t, k>> # None /\ lock = <<t, k>>
    BY BrowserAssumption DEF Kinds, IInv, LockOK
  <1>2. /\ LockOK' /\ lock' \in (Tabs \X Kinds) \cup {None}
        /\ \A u \in Tabs, j \in Kinds : ~Holding(u, j)'
    BY <1>1, MoveOK
  <1>3. OwnersStay /\ SamePage(t)
    BY DEF OwnersStay, SamePage
  <1>4. k \in {"restore", "share"} => ~Over(task[t][k]) /\ task[t][k].at = "sent"
    BY <1>1 DEF Over, Holding, IInv, TabOK, StagesOK
  <1>5. TabOK(t)'
    BY <1>3, <1>4, MovedTab
  <1>6. /\ task' \in [Tabs -> [Kinds -> Task]] /\ \A u \in Tabs \ {t} : task'[u] = task[u]
    BY <1>1, AlterOK
  <1>7. \A u \in Tabs \ {t} : SameTab(u)
    BY <1>6 DEF SameTab
  <1>. QED  BY <1>2, <1>3, <1>5, <1>6, <1>7

LEMMA RefreshArrivesOK ==
    ASSUME IInv, NEW t \in Tabs, NEW k \in Kinds, RefreshArrives(t, k), cast' = cast
    PROVE  IInv'
  <1>. DEFINE c == task[t][k].with
  <1>1. /\ k \in {"restore", "share"} /\ Holding(t, k) /\ c \in Cookies
        /\ Exchange(c) /\ RefreshCookie(c) /\ lock' = None
        /\ Alter(t, k, [To("answered") EXCEPT !.got = GotBy(c)])
    BY TabTypes DEF RefreshArrives, Holding
  <1>2. /\ UNCHANGED <<broken, orphans, mail, live>>
        /\ UNCHANGED <<status, token, swapped, calls, preference, items, query,
                       selected, wanted, budget>>
    BY DEF RefreshArrives, pageVars
  <1>3. CookieOK(task[t][k].with)
    BY <1>1 DEF IInv, CookiesOK
  <1>. HIDE DEF c
  <1>4. CookieOK(c)
    BY <1>3 DEF c
  <1>5. /\ owner' = owner /\ newest' \in [Sessions -> Nat]
        /\ ended' \subseteq Sessions /\ alarmed' \subseteq ended' /\ NoFalseAlarm'
        /\ GotBy(c) \in Sessions \cup {None} /\ (GotBy(c) # None => owner'[GotBy(c)] # None)
    BY <1>1, <1>2, <1>4, ExchangeOK
  <1>6. /\ jar' \in Cookies /\ CookieOK(jar)'
        /\ jar' # None => jar'[2] \in 1..newest'[jar'[1]]
        /\ \A d \in orphans : owner'[d[1]] # None /\ d[2] <= newest'[d[1]] /\ d[1] \in broken'
    BY <1>1, <1>2, <1>4, RefreshCookieOK
  <1>7. /\ LockOK' /\ lock' \in (Tabs \X Kinds) \cup {None}
        /\ task' \in [Tabs -> [Kinds -> Task]]
        /\ \A u \in Tabs, j \in Kinds : ~Holding(u, j)'
        /\ TabOK(t)' /\ OwnersStay
        /\ \A u \in Tabs \ {t} : SameTab(u)
    <2>. DEFINE r == [To("answered") EXCEPT !.got = GotBy(c)]
    <2>1. r \in Task /\ r.at = "answered" /\ r.current /\ r.got = GotBy(c)
      BY <1>5 DEF To, Rest, Task, Stages, Cookies
    <2>2. Alter(t, k, r) /\ (r.got # None => owner'[r.got] # None)
      BY <1>1, <1>5, <2>1
    <2>. HIDE DEF r
    <2>. QED  BY <1>1, <1>2, <1>5, <2>1, <2>2, AnsweredOK
  <1>8. CookiesOK'
    BY <1>2, <1>6, <1>7 DEF CookiesOK
  <1>9. TypeOK'
    BY <1>2, <1>5, <1>6, <1>7 DEF IInv, TypeOK
  <1>. QED  BY <1>5, <1>7, <1>8, <1>9, OneTab

LEMMA RefreshBreaksOK ==
    ASSUME IInv, NEW t \in Tabs, NEW k \in Kinds, RefreshBreaks(t, k), cast' = cast
    PROVE  IInv'
  <1>. DEFINE c == task[t][k].with
  <1>1. /\ k \in {"restore", "share"} /\ Holding(t, k) /\ c \in Cookies
        /\ lock' = None /\ Alter(t, k, To("answered"))
        /\ budget > 0 /\ budget' = budget - 1
    BY TabTypes DEF RefreshBreaks, Holding
  <1>2. /\ UNCHANGED <<owner, newest, ended, alarmed, mail, live>>
        /\ UNCHANGED <<status, token, swapped, calls, preference, items, query,
                       selected, wanted>>
    BY DEF RefreshBreaks, pageVars
  <1>3. CookieOK(c)
    BY <1>1 DEF IInv, CookiesOK
  <1>4. \/ /\ orphans' = orphans \cup ({c} \ {None})
           /\ broken' = broken \cup {d[1] : d \in {c} \ {None}} /\ jar' = jar
        \/ jar' = None /\ orphans' = orphans /\ broken' = broken
    BY DEF RefreshBreaks
  <1>. HIDE DEF c
  <1>5. c # None => c[1] \in Sessions /\ owner[c[1]] # None /\ c[2] <= newest[c[1]]
    BY <1>1, <1>3 DEF Cookies, CookieOK
  <1>6. /\ orphans' \subseteq Cookies \ {None} /\ broken' \subseteq Sessions
        /\ broken \subseteq broken'
        /\ \A d \in orphans' : owner'[d[1]] # None /\ d[2] <= newest'[d[1]] /\ d[1] \in broken'
    BY <1>1, <1>2, <1>4, <1>5 DEF IInv, TypeOK, CookiesOK
  <1>7. jar' \in Cookies /\ (jar' # None => jar'[2] \in 1..newest'[jar'[1]])
    BY <1>2, <1>4 DEF IInv, TypeOK, Cookies
  <1>8. CookieOK(jar)'
    BY <1>2, <1>4, <1>6 DEF IInv, CookiesOK, CookieOK
  <1>9. /\ LockOK' /\ lock' \in (Tabs \X Kinds) \cup {None}
        /\ task' \in [Tabs -> [Kinds -> Task]]
        /\ \A u \in Tabs, j \in Kinds : ~Holding(u, j)'
        /\ TabOK(t)' /\ OwnersStay
        /\ \A u \in Tabs \ {t} : SameTab(u)
    <2>. DEFINE r == To("answered")
    <2>1. r \in Task /\ r.at = "answered" /\ r.current /\ r.got = None
      BY DEF To, Rest, Task, Stages, Cookies
    <2>2. Alter(t, k, r)
      BY <1>1
    <2>. HIDE DEF r
    <2>. QED  BY <1>1, <1>2, <2>1, <2>2, AnsweredOK
  <1>10. CookiesOK'
    BY <1>6, <1>8, <1>9 DEF CookiesOK
  <1>11. TypeOK'
    BY <1>1, <1>2, <1>6, <1>7, <1>9, BudgetOK DEF IInv, TypeOK
  <1>12. NoFalseAlarm'
    BY <1>2, <1>6 DEF IInv, NoFalseAlarm
  <1>. QED  BY <1>9, <1>10, <1>11, <1>12, OneTab

\* A step that changes no tab.
LEMMA NoTab ==
    ASSUME IInv, TypeOK', LockOK', CookiesOK', NoFalseAlarm', \A u \in Tabs : SameTab(u), OwnersStay
    PROVE  IInv'
  BY SameTabOK DEF IInv

\* A step that no request under the lock takes part in, nor the server.
LEMMA StillHolding ==
    ASSUME IInv, UNCHANGED <<jar, owner, newest, ended, alarmed, broken, orphans, lock>>,
           \A u \in Tabs, j \in Kinds :
               /\ Holding(u, j)' <=> Holding(u, j)
               /\ Holding(u, j) => task'[u][j].with = task[u][j].with
    PROVE  LockOK' /\ CookiesOK' /\ NoFalseAlarm' /\ OwnersStay
  <1>1. LockOK'
    BY DEF IInv, LockOK
  <1>2. CookiesOK'
    <2>1. CookieOK(jar)'
      BY DEF IInv, CookiesOK, CookieOK
    <2>2. ASSUME NEW u \in Tabs, NEW j \in Kinds, Holding(u, j)'
          PROVE  CookieOK(task[u][j].with)'
      <3>1. CookieOK(task[u][j].with) /\ task'[u][j].with = task[u][j].with
        BY <2>2 DEF IInv, CookiesOK
      <3>. QED  BY <3>1 DEF CookieOK
    <2>. QED  BY <2>1, <2>2 DEF IInv, CookiesOK
  <1>. QED  BY <1>1, <1>2 DEF IInv, NoFalseAlarm, OwnersStay

\* The server gets a request nobody waits for.
LEMMA OrphanArrivesOK ==
    ASSUME IInv, NEW c \in orphans, OrphanArrives(c), cast' = cast
    PROVE  IInv'
  <1>1. /\ UNCHANGED <<jar, broken, lock, mail, status, token, live, swapped, task, calls,
                       preference, items, query, selected, wanted, budget>>
        /\ Exchange(c) /\ orphans' = orphans \ {c}
    BY DEF OrphanArrives, tabVars, pageVars
  <1>2. c \in Cookies /\ c # None /\ c[1] \in Sessions /\ c[1] \in broken
    BY DEF IInv, TypeOK, CookiesOK, Cookies
  <1>3. CookieOK(c)
    BY <1>2 DEF IInv, CookiesOK, CookieOK
  <1>4. /\ owner' = owner
        /\ newest' \in [Sessions -> Nat] /\ \A s \in Sessions : newest[s] <= newest'[s]
        /\ \A s \in Sessions : newest'[s] = newest[s] \/ s = c[1]
        /\ ended \subseteq ended' /\ ended' \subseteq Sessions /\ alarmed' \subseteq ended'
        /\ NoFalseAlarm'
    BY <1>1, <1>2, <1>3, ExchangeOK
  <1>5. ASSUME NEW d \in Cookies \ {None}, owner[d[1]] # None, d[2] <= newest[d[1]]
        PROVE  /\ d[1] \in Sessions /\ d[2] \in Nat /\ newest'[d[1]] \in Nat
               /\ owner'[d[1]] # None /\ d[2] <= newest'[d[1]]
    <2>1. d[1] \in Sessions /\ d[2] \in Nat
      BY DEF Cookies
    <2>2. newest[d[1]] \in Nat /\ newest'[d[1]] \in Nat /\ newest[d[1]] <= newest'[d[1]]
      BY <1>4, <2>1 DEF IInv, TypeOK
    <2>. QED  BY <1>4, <1>5, <2>1, <2>2
  <1>6. ASSUME NEW d \in Cookies, CookieOK(d)
        PROVE  d # None => /\ owner'[d[1]] # None /\ d[2] <= newest'[d[1]]
                           /\ d[1] \in broken' \cup ended' \/ d[2] = newest'[d[1]]
    <2>1. SUFFICES ASSUME d # None
                   PROVE  /\ owner'[d[1]] # None /\ d[2] <= newest'[d[1]]
                          /\ d[1] \in broken' \cup ended' \/ d[2] = newest'[d[1]]
      OBVIOUS
    <2>2. /\ owner[d[1]] # None /\ d[2] <= newest[d[1]]
          /\ d[1] \in broken \cup ended \/ d[2] = newest[d[1]]
      BY <1>6, <2>1 DEF CookieOK
    <2>3. d[1] \in Sessions /\ owner'[d[1]] # None /\ d[2] <= newest'[d[1]]
      BY <1>5, <2>1, <2>2
    <2>. QED  BY <1>1, <1>2, <1>4, <2>2, <2>3
  <1>7. CookiesOK'
    <2>1. CookieOK(jar)'
      BY <1>1, <1>6 DEF IInv, TypeOK, CookiesOK, CookieOK
    <2>2. ASSUME NEW u \in Tabs, NEW j \in Kinds, Holding(u, j)'
          PROVE  CookieOK(task[u][j].with)'
      <3>1. Holding(u, j)
        BY <1>1, <2>2 DEF Holding
      <3>2. task[u][j].with \in Cookies /\ CookieOK(task[u][j].with)
        BY <3>1, TabTypes DEF IInv, CookiesOK
      <3>. QED  BY <1>1, <1>6, <3>2 DEF CookieOK
    <2>3. \A d \in orphans' : /\ owner'[d[1]] # None /\ d[2] <= newest'[d[1]]
                              /\ d[1] \in broken'
      BY <1>1, <1>5 DEF IInv, TypeOK, CookiesOK
    <2>. QED  BY <2>1, <2>2, <2>3 DEF CookiesOK
  <1>8. TypeOK'
    <2>1. jar # None => jar[2] \in 1..newest'[jar[1]]
      <3>1. SUFFICES ASSUME jar # None PROVE jar[2] \in 1..newest'[jar[1]]
        OBVIOUS
      <3>2. jar \in Cookies \ {None} /\ jar[2] \in 1..newest[jar[1]] /\ CookieOK(jar)
        BY <3>1 DEF IInv, TypeOK, CookiesOK
      <3>3. /\ jar[1] \in Sessions /\ jar[2] \in Nat /\ newest'[jar[1]] \in Nat
            /\ jar[2] <= newest'[jar[1]]
        BY <1>5, <3>2 DEF CookieOK
      <3>4. newest[jar[1]] \in Nat
        BY <3>3 DEF IInv, TypeOK
      <3>. QED  BY <3>2, <3>3, <3>4
    <2>. QED  BY <1>1, <1>4, <2>1 DEF IInv, TypeOK
  <1>9. LockOK' /\ OwnersStay /\ \A u \in Tabs : SameTab(u)
    BY <1>1, <1>4 DEF IInv, LockOK, Holding, OwnersStay, SameTab
  <1>. QED  BY <1>4, <1>7, <1>8, <1>9, NoTab

LEMMA OrphanDiesOK ==
    ASSUME IInv, NEW c \in orphans, OrphanDies(c), cast' = cast
    PROVE  IInv'
  <1>1. /\ UNCHANGED <<jar, owner, newest, ended, alarmed, broken, lock, mail>>
        /\ UNCHANGED <<status, token, live, swapped, task, calls,
                       preference, items, query, selected, wanted, budget>>
        /\ orphans' = orphans \ {c}
    BY DEF OrphanDies, serverVars, tabVars, pageVars
  <1>2. TypeOK'
    BY <1>1 DEF IInv, TypeOK
  <1>3. LockOK' /\ NoFalseAlarm' /\ OwnersStay /\ \A u \in Tabs : SameTab(u)
    BY <1>1 DEF IInv, LockOK, Holding, NoFalseAlarm, OwnersStay, SameTab
  <1>4. CookiesOK'
    BY <1>1 DEF IInv, CookiesOK, CookieOK, Holding
  <1>. QED  BY <1>2, <1>3, <1>4, NoTab

\* An access token runs out.
LEMMA LapseOK ==
    ASSUME IInv, NEW t \in Tabs, Lapse(t), cast' = cast
    PROVE  IInv'
  <1>1. /\ UNCHANGED <<jar, owner, newest, ended, alarmed, broken, orphans, lock, mail>>
        /\ UNCHANGED <<status, token, swapped, task, calls,
                       preference, items, query, selected, wanted>>
        /\ budget > 0 /\ budget' = budget - 1
    BY DEF Lapse, netVars, serverVars, pageVars
  <1>2. live' \in [Tabs -> BOOLEAN]
    BY DEF Lapse, IInv, TypeOK
  <1>3. TypeOK'
    BY <1>1, <1>2, BudgetOK DEF IInv, TypeOK
  <1>4. \A u \in Tabs, j \in Kinds : Holding(u, j)' <=> Holding(u, j)
    BY <1>1 DEF Holding
  <1>5. \A u \in Tabs : SameTab(u)
    BY <1>1 DEF SameTab
  <1>. QED  BY <1>1, <1>3, <1>4, <1>5, StillHolding, NoTab

-----------------------------------------------------------------------------
(* Logging out.                                                            *)

LEMMA StartLogoutOK ==
    ASSUME IInv, NEW t \in Tabs, StartLogout(t), cast' = cast
    PROVE  IInv'
  <1>. DEFINE r == To("queue")
  <1>1. /\ UNCHANGED <<jar, owner, newest, ended, alarmed, broken, orphans, lock, mail>>
        /\ UNCHANGED <<status, token, live, swapped, calls,
                       preference, items, query, selected, wanted, budget>>
        /\ Alter(t, "logout", r) /\ task[t]["logout"].at = "none"
    BY DEF StartLogout, netVars, serverVars, pageVars
  <1>2. r \in Task /\ r.at = "queue" /\ r.current /\ r.got = None /\ "logout" \in Kinds
    BY DEF To, Rest, Task, Stages, Cookies, Kinds
  <1>. HIDE DEF r
  <1>3. /\ task' \in [Tabs -> [Kinds -> Task]]
        /\ task'[t]["logout"] = r
        /\ \A j \in Kinds \ {"logout"} : task'[t][j] = task[t][j]
        /\ \A u \in Tabs \ {t} : task'[u] = task[u]
    BY <1>1, <1>2, AlterOK
  <1>4. ASSUME NEW u \in Tabs, NEW j \in Kinds
        PROVE  /\ Holding(u, j)' <=> Holding(u, j)
               /\ Holding(u, j) => task'[u][j].with = task[u][j].with
    <2>1. CASE u = t /\ j = "logout"
      BY <1>1, <1>2, <1>3, <2>1 DEF Holding
    <2>2. CASE ~(u = t /\ j = "logout")
      <3>1. task'[u][j] = task[u][j]
        BY <1>3, <2>2
      <3>. QED  BY <3>1 DEF Holding
    <2>. QED  BY <2>1, <2>2
  <1>5. TypeOK'
    BY <1>1, <1>3 DEF IInv, TypeOK
  <1>6. LockOK' /\ CookiesOK' /\ NoFalseAlarm' /\ OwnersStay
    BY <1>1, <1>4, StillHolding
  <1>7. TabOK(t)'
    BY <1>1, <1>2, <1>6, MovedTab DEF SamePage
  <1>8. \A u \in Tabs \ {t} : SameTab(u)
    BY <1>1, <1>3 DEF SameTab
  <1>. QED  BY <1>5, <1>6, <1>7, <1>8, OneTab

\* The server closes a session and takes its cookie back, or leaves it.
LEMMA ClosedOK ==
    ASSUME IInv, jar' \in {None, jar}, ended \subseteq ended', ended' \subseteq Sessions,
           UNCHANGED <<owner, newest, alarmed, broken, orphans>>
    PROVE  /\ jar' \in Cookies /\ (jar' # None => jar'[2] \in 1..newest'[jar'[1]])
           /\ CookieOK(jar)' /\ alarmed' \subseteq ended' /\ NoFalseAlarm' /\ OwnersStay
           /\ \A d \in orphans' : owner'[d[1]] # None /\ d[2] <= newest'[d[1]] /\ d[1] \in broken'
  <1>1. jar' \in Cookies /\ (jar' # None => jar'[2] \in 1..newest'[jar'[1]])
    BY DEF IInv, TypeOK, Cookies
  <1>2. CookieOK(jar)'
    BY DEF IInv, CookiesOK, CookieOK
  <1>3. alarmed' \subseteq ended' /\ NoFalseAlarm' /\ OwnersStay
    BY DEF IInv, TypeOK, NoFalseAlarm, OwnersStay
  <1>. QED  BY <1>1, <1>2, <1>3 DEF IInv, CookiesOK

LEMMA LogoutArrivesOK ==
    ASSUME IInv, NEW t \in Tabs, LogoutArrives(t), cast' = cast
    PROVE  IInv'
  <1>. DEFINE o == task[t]["logout"]
  <1>1. /\ o.at \in {"sent", "resent"} /\ o.got \in Sessions \cup {None}
        /\ UNCHANGED <<orphans, mail, owner, newest, alarmed, broken>>
        /\ UNCHANGED <<status, token, live, swapped, calls,
                       preference, items, query, selected, wanted, budget>>
    BY TabTypes DEF LogoutArrives, Logout, pageVars, Kinds
  <1>2. jar' \in {None, jar} /\ ended \subseteq ended' /\ ended' \subseteq Sessions
    BY <1>1 DEF LogoutArrives, Logout, Admitted, IInv, TypeOK
  <1>3. /\ jar' \in Cookies /\ (jar' # None => jar'[2] \in 1..newest'[jar'[1]])
        /\ CookieOK(jar)' /\ alarmed' \subseteq ended' /\ NoFalseAlarm' /\ OwnersStay
        /\ \A d \in orphans' : owner'[d[1]] # None /\ d[2] <= newest'[d[1]] /\ d[1] \in broken'
    BY <1>1, <1>2, ClosedOK
  <1>4. Holding(t, "logout")
    BY <1>1 DEF Holding
  <1>5. lock = <<t, "logout">> /\ "logout" \in Kinds /\ lock # None
    BY <1>4, BrowserAssumption DEF IInv, LockOK, Kinds
  <1>6. /\ LockOK' /\ lock' \in (Tabs \X Kinds) \cup {None}
        /\ task' \in [Tabs -> [Kinds -> Task]]
        /\ \A u \in Tabs, j \in Kinds : Holding(u, j)' => CookieOK(task[u][j].with)'
        /\ TabOK(t)' /\ \A u \in Tabs \ {t} : SameTab(u)
    <2>1. CASE Alter(t, "logout", To("answered")) /\ lock' = None
      <3>. DEFINE r == To("answered")
      <3>1. r \in Task /\ r.at = "answered" /\ r.current /\ r.got = None
        BY DEF To, Rest, Task, Stages, Cookies
      <3>2. Alter(t, "logout", r)
        BY <2>1
      <3>. HIDE DEF r
      <3>. QED  BY <1>1, <1>4, <2>1, <3>1, <3>2, AnsweredOK
    <2>2. CASE /\ Alter(t, "logout", [To("refresh") EXCEPT !.with = jar'])
               /\ lock' = lock /\ o.at = "sent"
      <3>. DEFINE r == [To("refresh") EXCEPT !.with = jar']
      <3>1. r \in Task /\ r.at = "refresh" /\ r.current /\ r.got = None /\ r.with = jar'
        BY <1>3 DEF To, Rest, Task, Stages, Cookies
      <3>2. Alter(t, "logout", r)
        BY <2>2
      <3>3. lock' = <<t, "logout">>
        BY <1>5, <2>2
      <3>4. \A u \in Tabs \ {t} : task'[u] = task[u]
        BY <1>5, <3>1, <3>2, AlterOK
      <3>5. task' \in [Tabs -> [Kinds -> Task]]
        BY <1>5, <3>1, <3>2, AlterOK
      <3>6. TabOK(t)'
        BY <1>1, <1>3, <2>2, <3>1, <3>2, MovedTab DEF SamePage
      <3>7. /\ LockOK' /\ lock' \in (Tabs \X Kinds) \cup {None}
            /\ \A u \in Tabs, j \in Kinds : Holding(u, j)' =>
                   task'[u][j].with = jar'
        <4>1. lock' \in {None, lock} /\ lock = <<t, "logout">>
          BY <1>5, <2>2
        <4>2. r.at \in {"sent", "refresh", "resent"}
          BY <3>1
        <4>. HIDE DEF r
        <4>3. /\ LockOK' /\ lock' \in (Tabs \X Kinds) \cup {None}
              /\ \A u \in Tabs, j \in Kinds : Holding(u, j)' =>
                     u = t /\ j = "logout" /\ task'[t]["logout"] = r
          BY <3>1, <3>2, <3>3, <4>1, <4>2, MoveOK
        <4>. QED  BY <3>1, <4>3
      <3>8. \A u \in Tabs \ {t} : SameTab(u)
        BY <1>1, <3>4 DEF SameTab
      <3>. QED  BY <1>3, <3>5, <3>6, <3>7, <3>8 DEF CookieOK
    <2>. QED  BY <2>1, <2>2 DEF LogoutArrives
  <1>7. CookiesOK'
    BY <1>3, <1>6 DEF CookiesOK
  <1>8. TypeOK'
    BY <1>1, <1>2, <1>3, <1>6 DEF IInv, TypeOK
  <1>. QED  BY <1>3, <1>6, <1>7, <1>8, OneTab

LEMMA LogoutBreaksOK ==
    ASSUME IInv, NEW t \in Tabs, LogoutBreaks(t), cast' = cast
    PROVE  IInv'
  <1>. DEFINE o == task[t]["logout"]
  <1>1. /\ o.at \in {"sent", "refresh", "resent"}
        /\ UNCHANGED <<jar, mail, owner, newest, alarmed>>
        /\ UNCHANGED <<status, token, live, swapped, calls,
                       preference, items, query, selected, wanted>>
        /\ budget > 0 /\ budget' = budget - 1 /\ lock' = None
        /\ Alter(t, "logout", To("answered"))
        /\ orphans' = orphans \cup Underway(t, {"logout"})
        /\ broken' = broken \cup {c[1] : c \in Underway(t, {"logout"})}
    BY DEF LogoutBreaks, pageVars
  <1>2. o.with \in Cookies /\ "logout" \in Kinds
    BY TabTypes DEF Kinds
  <1>3. ended \subseteq ended' /\ ended' \subseteq Sessions
    BY <1>2 DEF LogoutBreaks, Matches, Cookies, IInv, TypeOK
  <1>4. /\ orphans' \subseteq Cookies \ {None} /\ broken' \subseteq Sessions
        /\ broken \subseteq broken' /\ NoFalseAlarm'
        /\ \A c \in orphans' : owner'[c[1]] # None /\ c[2] <= newest'[c[1]] /\ c[1] \in broken'
    BY <1>1, BreakOff
  <1>5. Holding(t, "logout")
    BY <1>1 DEF Holding
  <1>6. /\ LockOK' /\ lock' \in (Tabs \X Kinds) \cup {None}
        /\ task' \in [Tabs -> [Kinds -> Task]]
        /\ \A u \in Tabs, j \in Kinds : ~Holding(u, j)'
        /\ TabOK(t)' /\ OwnersStay /\ \A u \in Tabs \ {t} : SameTab(u)
    <2>. DEFINE r == To("answered")
    <2>1. r \in Task /\ r.at = "answered" /\ r.current /\ r.got = None
      BY DEF To, Rest, Task, Stages, Cookies
    <2>2. Alter(t, "logout", r)
      BY <1>1
    <2>. HIDE DEF r
    <2>. QED  BY <1>1, <1>5, <2>1, <2>2, AnsweredOK
  <1>7. CookieOK(jar)'
    BY <1>1, <1>3, <1>4 DEF IInv, CookiesOK, CookieOK
  <1>8. CookiesOK'
    BY <1>4, <1>6, <1>7 DEF CookiesOK
  <1>9. TypeOK'
    BY <1>1, <1>3, <1>4, <1>6, BudgetOK DEF IInv, TypeOK
  <1>. QED  BY <1>4, <1>6, <1>8, <1>9, OneTab

\* The tab's access token becomes that of session s, and what it shows is no
\* longer of the user it shows it for unless that is the same one.
LEMMA SwapOK ==
    ASSUME IInv, NEW t \in Tabs, NEW s \in Sessions, owner[s] # None, owner' = owner,
           token'[t] = s, swapped'[t] = (swapped[t] \/ Swaps(t, s)),
           calls'[t] = calls[t], preference'[t] = preference[t], items'[t] = items[t],
           selected'[t] = selected[t]
    PROVE  OwnOK(t)'
  <1>1. OwnOK(t)
    BY DEF IInv, TabOK
  <1>2. SUFFICES ASSUME ~swapped'[t]
                 PROVE  ~swapped[t] /\ token[t] # None /\ owner[token[t]] = owner[s]
    <2>1. s # None
      BY BrowserAssumption
    <2>. QED  BY <1>1, <1>2, <2>1 DEF OwnOK
  <1>. QED  BY <1>2 DEF Swaps

LEMMA LogoutRefreshedOK ==
    ASSUME IInv, NEW t \in Tabs, LogoutRefreshed(t), cast' = cast
    PROVE  IInv'
  <1>. DEFINE o == task[t]["logout"]
              c == o.with
  <1>1. /\ o.at = "refresh" /\ Holding(t, "logout") /\ "logout" \in Kinds
        /\ Exchange(c) /\ RefreshCookie(c) /\ c \in Cookies
        /\ UNCHANGED <<broken, orphans, mail, status, budget>>
        /\ UNCHANGED <<calls, preference, items, query, selected, wanted>>
    BY TabTypes DEF LogoutRefreshed, pageVars, Holding, Kinds
  <1>2. CookieOK(c)
    BY <1>1 DEF IInv, CookiesOK
  <1>3. \/ /\ Exchanged(c)
           /\ Alter(t, "logout", [To("resent") EXCEPT !.got = c[1], !.with = jar'])
           /\ token' = [token EXCEPT ![t] = c[1]]
           /\ live' = [live EXCEPT ![t] = TRUE]
           /\ swapped' = [swapped EXCEPT ![t] = @ \/ Swaps(t, c[1])]
           /\ lock' = lock
        \/ /\ Alter(t, "logout", To("answered")) /\ lock' = None
           /\ token' = token /\ live' = live /\ swapped' = swapped
    BY DEF LogoutRefreshed
  <1>. HIDE DEF c
  <1>4. /\ owner' = owner /\ newest' \in [Sessions -> Nat]
        /\ ended' \subseteq Sessions /\ alarmed' \subseteq ended' /\ NoFalseAlarm'
        /\ Exchanged(c) => c[1] \in Sessions /\ owner[c[1]] # None
    BY <1>1, <1>2, ExchangeOK
  <1>5. /\ jar' \in Cookies /\ CookieOK(jar)'
        /\ jar' # None => jar'[2] \in 1..newest'[jar'[1]]
        /\ \A d \in orphans : owner'[d[1]] # None /\ d[2] <= newest'[d[1]] /\ d[1] \in broken'
    BY <1>1, <1>2, RefreshCookieOK
  <1>6. OwnersStay
    BY <1>4 DEF OwnersStay
  <1>7. lock = <<t, "logout">> /\ lock # None
    BY <1>1, BrowserAssumption DEF IInv, LockOK, Kinds
  <1>8. /\ LockOK' /\ lock' \in (Tabs \X Kinds) \cup {None}
        /\ task' \in [Tabs -> [Kinds -> Task]]
        /\ \A u \in Tabs, j \in Kinds : Holding(u, j)' => CookieOK(task[u][j].with)'
        /\ TabOK(t)' /\ \A u \in Tabs \ {t} : SameTab(u)
        /\ token' \in [Tabs -> Sessions \cup {None}]
        /\ live' \in [Tabs -> BOOLEAN] /\ swapped' \in [Tabs -> BOOLEAN]
    <2>1. CASE /\ Alter(t, "logout", To("answered")) /\ lock' = None
               /\ token' = token /\ live' = live /\ swapped' = swapped
      <3>. DEFINE r == To("answered")
      <3>1. r \in Task /\ r.at = "answered" /\ r.current /\ r.got = None
        BY DEF To, Rest, Task, Stages, Cookies
      <3>2. Alter(t, "logout", r)
        BY <2>1
      <3>. HIDE DEF r
      <3>3. /\ LockOK' /\ lock' \in (Tabs \X Kinds) \cup {None}
            /\ task' \in [Tabs -> [Kinds -> Task]]
            /\ \A u \in Tabs, j \in Kinds : ~Holding(u, j)'
            /\ TabOK(t)' /\ \A u \in Tabs \ {t} : SameTab(u)
        BY <1>1, <1>4, <2>1, <3>1, <3>2, AnsweredOK
      <3>. QED  BY <2>1, <3>3 DEF IInv, TypeOK
    <2>2. CASE /\ Exchanged(c)
               /\ Alter(t, "logout", [To("resent") EXCEPT !.got = c[1], !.with = jar'])
               /\ token' = [token EXCEPT ![t] = c[1]]
               /\ live' = [live EXCEPT ![t] = TRUE]
               /\ swapped' = [swapped EXCEPT ![t] = @ \/ Swaps(t, c[1])]
               /\ lock' = lock
      <3>. DEFINE r == [To("resent") EXCEPT !.got = c[1], !.with = jar']
      <3>1. /\ r \in Task /\ r.at = "resent" /\ r.current /\ r.got = c[1] /\ r.with = jar'
            /\ c[1] \in Sessions /\ owner[c[1]] # None
        BY <1>4, <1>5, <2>2 DEF To, Rest, Task, Stages, Cookies
      <3>2. Alter(t, "logout", r)
        BY <2>2
      <3>3. lock' \in {None, lock} /\ lock' = <<t, "logout">>
        BY <1>7, <2>2
      <3>4. /\ \A u \in Tabs \ {t} : task'[u] = task[u]
            /\ task' \in [Tabs -> [Kinds -> Task]]
            /\ task'[t]["logout"] = r
            /\ \A j \in Kinds \ {"logout"} : task'[t][j] = task[t][j]
        BY <1>1, <3>1, <3>2, AlterOK
      <3>5. /\ LockOK' /\ lock' \in (Tabs \X Kinds) \cup {None}
            /\ \A u \in Tabs, j \in Kinds : Holding(u, j)' => task'[u][j].with = jar'
        <4>1. r.at \in {"sent", "refresh", "resent"}
          BY <3>1
        <4>. HIDE DEF r
        <4>2. /\ LockOK' /\ lock' \in (Tabs \X Kinds) \cup {None}
              /\ \A u \in Tabs, j \in Kinds : Holding(u, j)' =>
                     u = t /\ j = "logout" /\ task'[t]["logout"] = r
          BY <1>7, <3>1, <3>2, <3>3, <4>1, MoveOK
        <4>. QED  BY <3>1, <4>2
      <3>6. /\ token'[t] = c[1] /\ swapped'[t] = (swapped[t] \/ Swaps(t, c[1]))
            /\ token' \in [Tabs -> Sessions \cup {None}]
            /\ live' \in [Tabs -> BOOLEAN] /\ swapped' \in [Tabs -> BOOLEAN]
            /\ \A u \in Tabs \ {t} : token'[u] = token[u] /\ swapped'[u] = swapped[u]
        BY <2>2, <3>1 DEF IInv, TypeOK, Swaps
      <3>7. \A u \in Tabs \ {t} : SameTab(u)
        BY <1>1, <3>4, <3>6 DEF SameTab
      <3>. HIDE DEF r
      <3>8. TabOK(t)'
        <4>1. TabOK(t)
          BY DEF IInv
        <4>2. {"restore", "login", "share", "logout"} = Kinds
          BY DEF Kinds
        <4>3. StagesOK(t)'
          BY <3>1, <3>4, <4>1, <4>2 DEF TabOK, StagesOK
        <4>4. KnownOK(t)'
          BY <1>1, <1>4, <3>1, <3>4, <3>6, <4>1 DEF TabOK, KnownOK, Known
        <4>5. /\ Awaits(t)' <=> Awaits(t)
              /\ task'[t]["share"] = task[t]["share"] /\ task'[t]["restore"] = task[t]["restore"]
              /\ task'[t]["login"] = task[t]["login"] /\ task'[t]["logout"].at = "resent"
          BY <3>1, <3>4, <4>2 DEF Awaits
        <4>6. Awaits(t) => swapped'[t]
          BY <3>6, <4>1 DEF TabOK, StatusOK, Swaps
        <4>7. StatusOK(t)'
          BY <1>1, <4>1, <4>5, <4>6 DEF TabOK, StatusOK, Blank
        <4>8. OwnOK(t)'
          BY <1>1, <1>4, <3>1, <3>6, SwapOK
        <4>9. AskedOK(t)' /\ WaitOK(t)'
          BY <1>1, <4>1, <4>5 DEF TabOK, AskedOK, ArgOK, WaitOK
        <4>. QED  BY <4>3, <4>4, <4>7, <4>8, <4>9 DEF TabOK
      <3>. QED  BY <1>5, <3>4, <3>5, <3>6, <3>7, <3>8 DEF CookieOK
    <2>. QED  BY <1>3, <2>1, <2>2
  <1>9. CookiesOK'
    BY <1>1, <1>5, <1>8 DEF CookiesOK
  <1>10. TypeOK'
    BY <1>1, <1>4, <1>5, <1>8 DEF IInv, TypeOK
  <1>. QED  BY <1>4, <1>6, <1>8, <1>9, <1>10, OneTab

-----------------------------------------------------------------------------
(* Coming up.                                                              *)

\* A result that came too late.
LEMMA SettleStaleOK ==
    ASSUME IInv, NEW t \in Tabs, NEW k \in Kinds, SettleStale(t, k), cast' = cast
    PROVE  IInv'
  <1>1. /\ UNCHANGED <<jar, owner, newest, ended, alarmed, broken, orphans, lock, mail>>
        /\ UNCHANGED <<status, token, live, swapped, calls,
                       preference, items, query, selected, wanted, budget>>
        /\ Alter(t, k, Rest) /\ k \in {"restore", "share"}
        /\ task[t][k].at = "answered" /\ ~task[t][k].current
    BY DEF SettleStale, IsCurrent, netVars, serverVars, pageVars
  <1>2. Rest \in Task /\ Rest.at = "none" /\ Rest.current /\ Rest.got = None
    BY DEF Rest, Task, Stages, Cookies
  <1>3. /\ task' \in [Tabs -> [Kinds -> Task]]
        /\ task'[t][k] = Rest
        /\ \A j \in Kinds \ {k} : task'[t][j] = task[t][j]
        /\ \A u \in Tabs \ {t} : task'[u] = task[u]
    BY <1>1, <1>2, AlterOK
  <1>4. ASSUME NEW u \in Tabs, NEW j \in Kinds
        PROVE  /\ Holding(u, j)' <=> Holding(u, j)
               /\ Holding(u, j) => task'[u][j].with = task[u][j].with
    <2>1. CASE u = t /\ j = k
      BY <1>1, <1>2, <1>3, <2>1 DEF Holding
    <2>2. CASE ~(u = t /\ j = k)
      <3>1. task'[u][j] = task[u][j]
        BY <1>3, <2>2
      <3>. QED  BY <3>1 DEF Holding
    <2>. QED  BY <2>1, <2>2
  <1>5. TypeOK'
    BY <1>1, <1>3 DEF IInv, TypeOK
  <1>6. LockOK' /\ CookiesOK' /\ NoFalseAlarm' /\ OwnersStay
    BY <1>1, <1>4, StillHolding
  <1>7. TabOK(t)'
    <2>1. Over(task[t][k])
      BY <1>1 DEF Over
    <2>. QED  BY <1>1, <1>2, <1>6, <2>1, MovedTab DEF SamePage
  <1>8. \A u \in Tabs \ {t} : SameTab(u)
    BY <1>1, <1>3 DEF SameTab
  <1>. QED  BY <1>5, <1>6, <1>7, <1>8, OneTab

\* A tab that waited has a user, and asks who it is.
LEMMA EnteredOK ==
    ASSUME IInv, NEW t \in Tabs, NEW s \in Sessions, NEW k \in {"restore", "login"},
           owner'[s] # None, OwnersStay, Enter(t, s), Alter(t, k, To("context")),
           k = "restore" => IsCurrent(task[t]["restore"]),
           k = "login" => task[t]["login"].at = "sent"
    PROVE  /\ TabOK(t)' /\ \A u \in Tabs \ {t} : SameTab(u)
           /\ task' \in [Tabs -> [Kinds -> Task]]
           /\ token' \in [Tabs -> Sessions \cup {None}] /\ live' \in [Tabs -> BOOLEAN]
           /\ calls' \in [Tabs -> SUBSET Call]
           /\ \A u \in Tabs, j \in Kinds :
                  /\ Holding(u, j)' <=> Holding(u, j)
                  /\ Holding(u, j) => task'[u][j].with = task[u][j].with
  <1>. DEFINE r == To("context")
              c == NewCall("context", s, None)
  <1>1. TabOK(t) /\ {"restore", "login", "share", "logout"} = Kinds /\ k \in Kinds
    BY DEF IInv, Kinds
  <1>2. r \in Task /\ r.at = "context" /\ r.current /\ r.got = None
    BY DEF To, Rest, Task, Stages, Cookies
  <1>3. Alter(t, k, r)
    OBVIOUS
  <1>4. c \in Call /\ c.slot = "context" /\ c.at = "sent" /\ c.by = s /\ s # None
    BY BrowserAssumption DEF NewCall, Call, Slots, Args
  <1>5. calls' = [calls EXCEPT ![t] = @ \cup {c}]
    BY DEF Enter
  <1>. HIDE DEF r, c
  <1>6. /\ task' \in [Tabs -> [Kinds -> Task]]
        /\ task'[t][k] = r
        /\ \A j \in Kinds \ {k} : task'[t][j] = task[t][j]
        /\ \A u \in Tabs \ {t} : task'[u] = task[u]
    BY <1>1, <1>2, <1>3, AlterOK
  <1>7. /\ token' \in [Tabs -> Sessions \cup {None}] /\ live' \in [Tabs -> BOOLEAN]
        /\ calls' \in [Tabs -> SUBSET Call]
        /\ token'[t] = s /\ calls'[t] = calls[t] \cup {c}
        /\ status' = status /\ swapped' = swapped /\ preference' = preference
        /\ items' = items /\ query' = query /\ selected' = selected /\ wanted' = wanted
        /\ \A u \in Tabs \ {t} : token'[u] = token[u] /\ calls'[u] = calls[u]
    <2>1. token' \in [Tabs -> Sessions \cup {None}] /\ token'[t] = s
      BY DEF Enter, IInv, TypeOK
    <2>2. live' \in [Tabs -> BOOLEAN]
      BY DEF Enter, IInv, TypeOK
    <2>3. calls' \in [Tabs -> SUBSET Call] /\ calls'[t] = calls[t] \cup {c}
      BY <1>4, <1>5 DEF IInv, TypeOK
    <2>4. \A u \in Tabs \ {t} : token'[u] = token[u] /\ calls'[u] = calls[u]
      BY DEF Enter, IInv, TypeOK
    <2>. QED  BY <2>1, <2>2, <2>3, <2>4 DEF Enter
  <1>8. \A u \in Tabs \ {t} : SameTab(u)
    BY <1>6, <1>7 DEF SameTab
  <1>9. ASSUME NEW u \in Tabs, NEW j \in Kinds
        PROVE  /\ Holding(u, j)' <=> Holding(u, j)
               /\ Holding(u, j) => task'[u][j].with = task[u][j].with
    <2>1. CASE u = t /\ j = k
      BY <1>2, <1>6, <2>1 DEF Holding, IsCurrent
    <2>2. CASE ~(u = t /\ j = k)
      <3>1. task'[u][j] = task[u][j]
        BY <1>6, <2>2
      <3>. QED  BY <3>1 DEF Holding
    <2>. QED  BY <2>1, <2>2
  \* Before, it waited: it showed nothing and called nobody.
  <1>10. /\ Awaits(t) /\ calls[t] = {} /\ Blank(t) /\ status[t] = "restoring"
         /\ Over(task[t]["share"])
    <2>1. Awaits(t)
      BY DEF Awaits
    <2>. QED  BY <1>1, <2>1 DEF TabOK, StatusOK
  <1>11. Over(task'[t]["restore"]) \/ (k = "restore" /\ task'[t]["login"].at = "none")
    <2>1. CASE k = "restore"
      <3>1. ~Over(task[t]["restore"])
        BY <2>1 DEF IsCurrent, Over
      <3>2. task'[t]["login"] = task[t]["login"]
        BY <1>1, <1>6, <2>1
      <3>. QED  BY <1>1, <2>1, <3>1, <3>2 DEF TabOK, StatusOK
    <2>2. CASE k = "login"
      <3>1. task'[t]["restore"] = task[t]["restore"]
        BY <1>1, <1>6, <2>2
      <3>. QED  BY <1>1, <2>2, <3>1 DEF TabOK, StatusOK
    <2>. QED  BY <2>1, <2>2
  <1>12. StagesOK(t)'
    BY <1>1, <1>2, <1>6 DEF TabOK, StagesOK
  <1>13. ~Awaits(t)'
    <2>1. CASE k = "restore"
      BY <1>1, <1>2, <1>6, <1>11, <2>1 DEF Awaits, IsCurrent, Over
    <2>2. CASE k = "login"
      <3>1. task'[t]["restore"] = task[t]["restore"] /\ task'[t]["login"] = r
        BY <1>1, <1>6, <2>2
      <3>2. Over(task[t]["restore"])
        BY <1>1, <2>2 DEF TabOK, StatusOK
      <3>. QED  BY <1>1, <1>2, <3>1, <3>2 DEF TabOK, StagesOK, Awaits, IsCurrent, Over, Kinds
    <2>. QED  BY <2>1, <2>2
  <1>14. KnownOK(t)'
    <2>1. \A j \in Kinds : Known(task[t][j].got) /\ task[t][j].got \in Sessions \cup {None}
      BY <1>1, TabTypes DEF TabOK, KnownOK
    <2>2. ASSUME NEW j \in Kinds
          PROVE  task'[t][j].got # None => owner'[task'[t][j].got] # None
      BY <1>2, <1>6, <2>1 DEF Known, OwnersStay
    <2>. QED  BY <1>4, <1>7, <1>10, <2>2 DEF KnownOK, Known
  <1>15. StatusOK(t)'
    BY <1>7, <1>10, <1>11, <1>13, <1>2, <1>6 DEF StatusOK
  <1>16. OwnOK(t)' /\ AskedOK(t)' /\ WaitOK(t)'
    BY <1>4, <1>7, <1>10 DEF OwnOK, AskedOK, ArgOK, Single, Actions, OnSelected, WaitOK, Blank
  <1>17. TabOK(t)'
    BY <1>12, <1>14, <1>15, <1>16 DEF TabOK
  <1>. QED  BY <1>6, <1>7, <1>8, <1>9, <1>17

LEMMA SettleRestoreOK ==
    ASSUME IInv, NEW t \in Tabs, SettleRestore(t), cast' = cast
    PROVE  IInv'
  <1>. DEFINE got == task[t]["restore"].got
  <1>1. /\ got \in Sessions \cup {None} /\ (got # None => owner[got] # None)
        /\ UNCHANGED <<jar, owner, newest, ended, alarmed, mail, budget>>
        /\ IsCurrent(task[t]["restore"])
    BY TabTypes DEF SettleRestore, IInv, TabOK, KnownOK, Known, Kinds
  <1>2. CASE got # None
    <2>1. /\ Enter(t, got) /\ Alter(t, "restore", To("context"))
          /\ UNCHANGED <<broken, orphans, lock>>
      BY <1>2 DEF SettleRestore
    <2>2. got \in Sessions /\ owner'[got] # None /\ OwnersStay
      BY <1>1, <1>2 DEF OwnersStay
    <2>. HIDE DEF got
    <2>3. /\ TabOK(t)' /\ \A u \in Tabs \ {t} : SameTab(u)
          /\ task' \in [Tabs -> [Kinds -> Task]]
          /\ token' \in [Tabs -> Sessions \cup {None}] /\ live' \in [Tabs -> BOOLEAN]
          /\ calls' \in [Tabs -> SUBSET Call]
          /\ \A u \in Tabs, j \in Kinds :
                 /\ Holding(u, j)' <=> Holding(u, j)
                 /\ Holding(u, j) => task'[u][j].with = task[u][j].with
      BY <1>1, <2>1, <2>2, EnteredOK
    <2>4. LockOK' /\ CookiesOK' /\ NoFalseAlarm' /\ OwnersStay
      BY <1>1, <2>1, <2>3, StillHolding
    <2>5. TypeOK'
      BY <1>1, <2>1, <2>3 DEF Enter, IInv, TypeOK
    <2>. QED  BY <2>3, <2>4, <2>5, OneTab
  <1>3. CASE got = None
    <2>. DEFINE tasks == [Cleared(t) EXCEPT !["restore"] = Rest]
    <2>1. Clear(t, "anonymous", tasks) /\ mail' \subseteq Tabs
      BY <1>1, <1>3 DEF SettleRestore, IInv, TypeOK
    <2>2. /\ tasks \in [Kinds -> Task] /\ tasks["restore"] = Rest /\ tasks["login"] = Rest
          /\ tasks["share"] = Superseded(task[t]["share"]) /\ tasks["logout"] = task[t]["logout"]
      BY ClearedOK, StartsOK
    <2>. HIDE DEF tasks
    <2>. QED  BY <1>1, <2>1, <2>2, ClearOK, BudgetOK
  <1>. QED  BY <1>2, <1>3

LEMMA LoginArrivesOK ==
    ASSUME IInv, NEW t \in Tabs, NEW s \in Sessions, NEW u \in Users, LoginArrives(t, s, u),
           cast' = cast
    PROVE  IInv'
  <1>1. /\ task[t]["login"].at = "sent" /\ owner[s] = None
        /\ owner' = [owner EXCEPT ![s] = u] /\ newest' = [newest EXCEPT ![s] = 1]
        /\ jar' = <<s, 1>> /\ Enter(t, s) /\ Alter(t, "login", To("context"))
        /\ UNCHANGED <<ended, alarmed, broken, orphans, lock, mail, budget>>
    BY DEF LoginArrives
  <1>2. /\ owner' \in [Sessions -> Owners] /\ owner'[s] = u /\ u # None
        /\ newest' \in [Sessions -> Nat] /\ newest'[s] = 1
        /\ \A x \in Sessions \ {s} : owner'[x] = owner[x] /\ newest'[x] = newest[x]
    BY <1>1, BrowserAssumption DEF IInv, TypeOK, Owners
  <1>3. OwnersStay
    BY <1>1, <1>2 DEF OwnersStay
  <1>4. /\ TabOK(t)' /\ \A v \in Tabs \ {t} : SameTab(v)
        /\ task' \in [Tabs -> [Kinds -> Task]]
        /\ token' \in [Tabs -> Sessions \cup {None}] /\ live' \in [Tabs -> BOOLEAN]
        /\ calls' \in [Tabs -> SUBSET Call]
        /\ \A v \in Tabs, j \in Kinds :
               /\ Holding(v, j)' <=> Holding(v, j)
               /\ Holding(v, j) => task'[v][j].with = task[v][j].with
    BY <1>1, <1>2, <1>3, EnteredOK
  <1>5. \A d \in Cookies \ {None} : owner[d[1]] # None =>
            owner'[d[1]] = owner[d[1]] /\ newest'[d[1]] = newest[d[1]]
    BY <1>1, <1>2 DEF Cookies
  <1>6. CookiesOK'
    <2>1. CookieOK(jar)'
      <3>1. jar'[1] = s /\ jar'[2] = 1
        BY <1>1
      <3>. QED  BY <1>2, <3>1 DEF CookieOK
    <2>2. ASSUME NEW v \in Tabs, NEW j \in Kinds, Holding(v, j)'
          PROVE  CookieOK(task[v][j].with)'
      <3>1. /\ CookieOK(task[v][j].with) /\ task[v][j].with \in Cookies
            /\ task'[v][j].with = task[v][j].with
        BY <1>4, <2>2, TabTypes DEF IInv, CookiesOK
      <3>. QED  BY <1>1, <1>5, <3>1 DEF CookieOK
    <2>3. \A d \in orphans' : owner'[d[1]] # None /\ d[2] <= newest'[d[1]] /\ d[1] \in broken'
      BY <1>1, <1>5 DEF IInv, TypeOK, CookiesOK
    <2>. QED  BY <2>1, <2>2, <2>3 DEF CookiesOK
  <1>7. LockOK' /\ NoFalseAlarm'
    BY <1>1, <1>4 DEF IInv, LockOK, NoFalseAlarm
  <1>8. TypeOK'
    <2>1. jar' \in Cookies /\ jar'[2] \in 1..newest'[jar'[1]]
      <3>1. jar'[1] = s /\ jar'[2] = 1
        BY <1>1
      <3>. QED  BY <1>1, <1>2, <3>1 DEF Cookies
    <2>. QED  BY <1>1, <1>2, <1>4, <2>1 DEF Enter, IInv, TypeOK
  <1>. QED  BY <1>3, <1>4, <1>6, <1>7, <1>8, OneTab

-----------------------------------------------------------------------------
(* Calls.                                                                  *)

\* A call in a tab means that the tab has a user, or is finding out who it is.
LEMMA CallingOK ==
    ASSUME IInv, NEW t \in Tabs, NEW c \in calls[t]
    PROVE  /\ ~Awaits(t) /\ status[t] \in {"restoring", "authenticated"}
           /\ c \in Call /\ c.by \in Sessions /\ c.by # None /\ owner[c.by] # None
           /\ owner[c.by] \in Users
           /\ ~swapped[t] => token[t] # None /\ owner[c.by] = owner[token[t]]
  <1>1. TabOK(t) /\ c \in Call /\ c.by \in Sessions
    BY TabTypes DEF IInv, TypeOK
  <1>2. c.by # None
    BY <1>1, BrowserAssumption
  <1>3. ~Awaits(t) /\ status[t] \notin {"idle", "anonymous"}
    BY <1>1 DEF TabOK, StatusOK
  <1>4. status[t] \in {"idle", "restoring", "authenticated", "anonymous"}
    BY DEF IInv, TypeOK
  <1>5. owner[c.by] # None
    BY <1>1, <1>2 DEF TabOK, KnownOK, Known
  <1>6. owner[c.by] \in Users
    BY <1>1, <1>5 DEF IInv, TypeOK, Owners
  <1>. QED  BY <1>1, <1>2, <1>3, <1>4, <1>5, <1>6 DEF TabOK, OwnOK

\* A tab that neither awaits a user nor is without one, after a step of its
\* page that leaves its tasks, its token and the net alone.
LEMMA PageOK ==
    ASSUME IInv, NEW t \in Tabs, NEW cs \in SUBSET Call, calls' = [calls EXCEPT ![t] = cs],
           ~Awaits(t), status[t] \in {"restoring", "authenticated"},
           UNCHANGED <<jar, owner, newest, ended, alarmed, broken, orphans, lock, mail,
                       status, token, live, swapped, task>>,
           cast' = cast, budget' \in 0..cast'.budget,
           preference' \in [Tabs -> Owners], items' \in [Tabs -> SUBSET (Users \X Things)],
           query' \in [Tabs -> Things \cup {None}], wanted' \in [Tabs -> Transactions \cup {None}],
           selected' \in [Tabs -> (Users \X Transactions) \cup {None}],
           \A u \in Tabs \ {t} :
               /\ preference'[u] = preference[u] /\ items'[u] = items[u] /\ query'[u] = query[u]
               /\ wanted'[u] = wanted[u] /\ selected'[u] = selected[u],
           \A c \in cs : Known(c.by),
           status[t] = "restoring" => \E c \in cs : c.slot = "context",
           (\E c \in cs : c.at = "waiting") => \E c \in calls[t] : c.at = "waiting",
           OwnOK(t)', AskedOK(t)'
    PROVE  IInv'
  <1>1. /\ calls' \in [Tabs -> SUBSET Call] /\ calls'[t] = cs
        /\ \A u \in Tabs \ {t} : calls'[u] = calls[u]
    BY DEF IInv, TypeOK
  <1>2. TypeOK'
    BY <1>1 DEF IInv, TypeOK
  <1>3. \A u \in Tabs, j \in Kinds : Holding(u, j)' <=> Holding(u, j)
    BY DEF Holding
  <1>4. LockOK' /\ CookiesOK' /\ NoFalseAlarm' /\ OwnersStay
    BY <1>3, StillHolding
  <1>5. \A u \in Tabs \ {t} : SameTab(u)
    BY <1>1 DEF SameTab
  <1>6. TabOK(t)'
    <2>1. TabOK(t)
      BY DEF IInv
    <2>2. StagesOK(t)' /\ KnownOK(t)'
      BY <1>1, <2>1 DEF TabOK, StagesOK, KnownOK, Known
    <2>3. ~Awaits(t)'
      BY DEF Awaits, IsCurrent
    <2>4. StatusOK(t)'
      BY <2>1, <2>3 DEF TabOK, StatusOK, Over
    <2>5. WaitOK(t)'
      BY <1>1, <2>1 DEF TabOK, WaitOK, Over
    <2>. QED  BY <2>1, <2>2, <2>4, <2>5 DEF TabOK
  <1>. QED  BY <1>2, <1>4, <1>5, <1>6, OneTab

\* A request that outdates others of its slots.
LEMMA RequestOK ==
    ASSUME IInv, NEW t \in Tabs, cast' = cast, NEW slot \in {"list", "detail"} \cup Actions,
           NEW arg \in Args, NEW outdates,
           Request(t, slot, arg, outdates),
           items' \in [Tabs -> SUBSET (Users \X Things)],
           query' \in [Tabs -> Things \cup {None}], wanted' \in [Tabs -> Transactions \cup {None}],
           selected' \in [Tabs -> (Users \X Transactions) \cup {None}],
           \A u \in Tabs \ {t} :
               /\ items'[u] = items[u] /\ query'[u] = query[u]
               /\ wanted'[u] = wanted[u] /\ selected'[u] = selected[u],
           items'[t] \subseteq items[t], selected'[t] \in {selected[t], None},
           slot = "list" => arg \in Things /\ arg = query'[t],
           slot = "detail" =>
               /\ arg \in Transactions /\ arg = wanted'[t] /\ selected'[t] = None
               /\ "detail" \in outdates,
           slot \in OnSelected => arg = selected'[t] /\ arg # None,
           slot \in Actions => Actions \subseteq outdates,
           selected'[t] = selected[t] \/ Actions \subseteq outdates,
           items'[t] # {} => query'[t] = query[t],
           selected'[t] # None => wanted'[t] = wanted[t],
           query'[t] = query[t] \/ "list" \in outdates,
           wanted'[t] = wanted[t] \/ "detail" \in outdates
    PROVE  IInv'
  <1>. DEFINE new == [NewCall(slot, token[t], arg) EXCEPT !.good = live[t]]
              cs == {c \in calls[t] : ~OneOf(c, outdates)} \cup {new}
  <1>1. /\ status[t] = "authenticated" /\ token[t] # None /\ calls' = [calls EXCEPT ![t] = cs]
        /\ UNCHANGED <<jar, owner, newest, ended, alarmed, broken, orphans, lock, mail>>
        /\ UNCHANGED <<status, token, live, swapped, task, preference, budget>>
    <2>1. calls' = [calls EXCEPT ![t] =
                {c \in calls[t] : ~OneOf(c, outdates)}
                    \cup {[NewCall(slot, token[t], arg) EXCEPT !.good = live[t]]}]
      BY DEF Request, IInv, TypeOK
    <2>. QED  BY <2>1 DEF Request, netVars, serverVars, tabVars
  <1>2. TabOK(t) /\ calls[t] \subseteq Call /\ token[t] \in Sessions \cup {None}
    BY TabTypes DEF IInv
  <1>3. /\ new \in Call /\ new.slot = slot /\ new.at = "sent" /\ new.by = token[t]
        /\ new.arg = arg
    <2>1. live[t] \in BOOLEAN
      BY DEF IInv, TypeOK
    <2>. QED  BY <1>1, <1>2, <2>1 DEF NewCall, Call, Slots
  <1>. HIDE DEF new
  <1>4. cs \in SUBSET Call /\ calls'[t] = cs
    BY <1>1, <1>2, <1>3 DEF IInv, TypeOK
  <1>5. \A c \in cs : c = new \/ (c \in calls[t] /\ c.slot \notin outdates)
    BY DEF OneOf
  <1>. HIDE DEF cs
  <1>6. ~Awaits(t)
    BY <1>1, <1>2 DEF TabOK, StatusOK
  <1>7. \A c \in cs : Known(c.by)
    BY <1>2, <1>3, <1>5 DEF TabOK, KnownOK
  <1>8. (\E c \in cs : c.at = "waiting") => \E c \in calls[t] : c.at = "waiting"
    BY <1>3, <1>5
  <1>9. OwnOK(t)'
    <2>1. \A c \in cs : ~swapped[t] => owner[c.by] = owner[token[t]]
      BY <1>2, <1>3, <1>5 DEF TabOK, OwnOK
    <2>. QED  BY <1>1, <1>2, <1>4, <2>1 DEF TabOK, OwnOK
  <1>10. AskedOK(t)'
    <2>1. ASSUME NEW c \in cs
          PROVE  ArgOK(t, c)'
      <3>1. CASE c = new
        BY <1>3, <3>1 DEF ArgOK, OnSelected, Actions
      <3>2. CASE c \in calls[t] /\ c.slot \notin outdates
        <4>1. ArgOK(t, c)
          BY <1>2, <3>2 DEF TabOK, AskedOK
        <4>. QED  BY <3>2, <4>1 DEF ArgOK, OnSelected, Actions
      <3>. QED  BY <1>5, <3>1, <3>2
    <2>2. Single(cs, {"detail"}) /\ Single(cs, Actions)
      <3>1. Single(calls[t], {"detail"}) /\ Single(calls[t], Actions)
        BY <1>2 DEF TabOK, AskedOK
      <3>. QED  BY <1>3, <1>5, <3>1 DEF Single, Actions
    <2>3. /\ \A x \in items'[t] : x[2] = query'[t]
          /\ selected'[t] # None =>
                wanted'[t] \in Transactions /\ Succeeds(selected'[t][2], wanted'[t])
      BY <1>2 DEF TabOK, AskedOK
    <2>. QED  BY <1>4, <2>1, <2>2, <2>3 DEF AskedOK
  <1>11. preference' \in [Tabs -> Owners] /\ budget' \in 0..cast'.budget
    BY <1>1 DEF IInv, TypeOK
  <1>. QED
    BY <1>1, <1>4, <1>6, <1>7, <1>8, <1>9, <1>10, <1>11, PageOK

LEMMA PageStepOK ==
    ASSUME IInv, NEW t \in Tabs, cast' = cast,
           \/ \E x \in Things : Load(t, x)
           \/ \E x \in Transactions : LoadDetail(t, x)
           \/ LoadMore(t) \/ Create(t) \/ Correct(t) \/ Delete(t)
    PROVE  IInv'
  <1>. USE DEF Args
  <1>1. /\ items \in [Tabs -> SUBSET (Users \X Things)]
        /\ query \in [Tabs -> Things \cup {None}]
        /\ wanted \in [Tabs -> Transactions \cup {None}]
        /\ selected \in [Tabs -> (Users \X Transactions) \cup {None}]
    BY DEF IInv, TypeOK
  <1>2. AskedOK(t)
    BY DEF IInv, TabOK
  <1>3. ASSUME NEW x \in Things, Load(t, x) PROVE IInv'
    <2>1. /\ items' = [items EXCEPT ![t] = {}] /\ query' = [query EXCEPT ![t] = x]
          /\ selected' = selected /\ wanted' = wanted
          /\ Request(t, "list", x, {"list"} \cup Actions)
      BY <1>3 DEF Load
    <2>2. items'[t] = {} /\ query'[t] = x
      BY <1>1, <2>1
    <2>. QED  BY <1>1, <2>1, <2>2, RequestOK DEF Actions, OnSelected
  <1>4. ASSUME NEW x \in Transactions, LoadDetail(t, x) PROVE IInv'
    <2>1. /\ selected' = [selected EXCEPT ![t] = None] /\ wanted' = [wanted EXCEPT ![t] = x]
          /\ items' = items /\ query' = query
          /\ Request(t, "detail", x, {"detail"} \cup Actions)
      BY <1>4 DEF LoadDetail
    <2>2. selected'[t] = None /\ wanted'[t] = x
      BY <1>1, <2>1
    <2>. QED  BY <1>1, <2>1, <2>2, RequestOK DEF Actions, OnSelected
  \* The next page is of the filter the first one is of.
  <1>5. ASSUME LoadMore(t) PROVE IInv'
    <2>. DEFINE x == query[t]
    <2>1. /\ items[t] # {} /\ Request(t, "list", x, {"list"})
          /\ UNCHANGED <<items, query, selected, wanted>>
      BY <1>5 DEF LoadMore
    <2>2. x \in Things
      <3>1. PICK y \in items[t] : y \in Users \X Things
        BY <1>1, <2>1
      <3>2. y[2] = x
        BY <1>2, <3>1 DEF AskedOK
      <3>. QED  BY <3>1, <3>2
    <2>3. x = query'[t]
      BY <2>1
    <2>. HIDE DEF x
    <2>. QED  BY <1>1, <2>1, <2>2, <2>3, RequestOK DEF Actions, OnSelected
  \* An action is of what the tab shows.
  <1>6. ASSUME NEW slot \in Actions, NEW arg \in Args, Act(t, slot, arg),
               slot \in OnSelected => arg = selected[t] /\ arg # None
        PROVE  IInv'
    <2>1. Request(t, slot, arg, Actions) /\ UNCHANGED <<items, query, selected, wanted>>
      BY <1>6 DEF Act
    <2>2. slot \notin {"list", "detail"}
      BY DEF Actions
    <2>. QED  BY <1>1, <1>6, <2>1, <2>2, RequestOK
  <1>7. ASSUME Create(t) PROVE IInv'
    BY <1>6, <1>7 DEF Create, Actions, OnSelected
  <1>8. ASSUME Correct(t) \/ Delete(t) PROVE IInv'
    <2>1. selected[t] # None /\ selected[t] \in Args
      BY <1>1, <1>8 DEF Correct, Delete
    <2>. QED  BY <1>6, <1>8, <2>1 DEF Correct, Delete, Actions, OnSelected
  <1>. QED  BY <1>3, <1>4, <1>5, <1>7, <1>8

\* An answer about the page.
LEMMA PageAnswerOK ==
    ASSUME IInv, NEW t \in Tabs, NEW c \in calls[t], c.slot # "context", Answer(t, c),
           cast' = cast
    PROVE  IInv'
  <1>. DEFINE user == owner[c.by]
              cs == calls[t] \ {c}
  <1>1. TabOK(t) /\ calls[t] \subseteq Call
    BY TabTypes DEF IInv
  <1>2. /\ ~Awaits(t) /\ status[t] \in {"restoring", "authenticated"} /\ c \in Call
        /\ user \in Users /\ (~swapped[t] => token[t] # None /\ user = owner[token[t]])
    BY CallingOK
  <1>3. /\ calls' = [calls EXCEPT ![t] = cs]
        /\ UNCHANGED <<jar, owner, newest, ended, alarmed, broken, orphans, lock, mail>>
        /\ UNCHANGED <<status, token, live, swapped, task, preference, query, wanted, budget>>
        /\ items' = IF c.slot = "list" THEN [items EXCEPT ![t] = @ \cup {<<user, c.arg>>}]
                                       ELSE items
        /\ selected' = [selected EXCEPT ![t] = DetailAfter(t, c)]
    BY DEF Answer, Apply, netVars, serverVars, IInv, TypeOK
  <1>4. ArgOK(t, c) /\ AskedOK(t)
    BY <1>1 DEF TabOK, AskedOK
  <1>5. /\ items \in [Tabs -> SUBSET (Users \X Things)]
        /\ selected \in [Tabs -> (Users \X Transactions) \cup {None}]
        /\ query \in [Tabs -> Things \cup {None}]
        /\ wanted \in [Tabs -> Transactions \cup {None}]
        /\ preference \in [Tabs -> Owners] /\ budget \in 0..cast.budget
    BY DEF IInv, TypeOK
  <1>6. /\ items' \in [Tabs -> SUBSET (Users \X Things)]
        /\ \A x \in items'[t] : x \in items[t] \/ (x = <<user, query[t]>>)
        /\ \A u \in Tabs \ {t} : items'[u] = items[u]
    BY <1>2, <1>3, <1>4, <1>5 DEF ArgOK
  \* The detail asked for, the replacement of the one shown, nothing, or what was.
  <1>7. \/ /\ c.slot = "detail" /\ selected[t] = None
           /\ selected'[t] = <<user, wanted[t]>> /\ wanted[t] \in Transactions
        \/ /\ c.slot = "correct" /\ selected[t] \in Users \X Transactions
           /\ selected'[t] = <<selected[t][1], Replacement(selected[t][2])>>
        \/ c.slot = "delete" /\ selected'[t] = None /\ selected[t] # None
        \/ c.slot \notin {"detail"} \cup OnSelected /\ selected'[t] = selected[t]
    BY <1>3, <1>4, <1>5 DEF ArgOK, DetailAfter, OnSelected
  <1>14. selected'[t] \in (Users \X Transactions) \cup {None}
    BY <1>2, <1>5, <1>7 DEF Replacement, Transactions
  <1>15. /\ selected' \in [Tabs -> (Users \X Transactions) \cup {None}]
         /\ \A u \in Tabs \ {t} : selected'[u] = selected[u]
    BY <1>3, <1>5, <1>14
  <1>8. calls'[t] = cs /\ cs \in SUBSET Call
    BY <1>1, <1>3 DEF IInv, TypeOK
  <1>9. OwnOK(t)'
    <2>1. selected'[t] # None =>
              \/ selected'[t][1] = user
              \/ selected[t] # None /\ selected'[t][1] = selected[t][1]
      BY <1>5, <1>7, BrowserAssumption
    <2>. QED  BY <1>1, <1>2, <1>3, <1>6, <1>8, <2>1 DEF TabOK, OwnOK
  <1>10. AskedOK(t)'
    \* No call is left that is of a detail that has gone.
    <2>1. ASSUME NEW d \in cs
          PROVE  ArgOK(t, d)'
      <3>1. ArgOK(t, d) /\ d # c
        BY <1>4 DEF AskedOK
      <3>2. CASE c.slot \notin {"detail"} \cup OnSelected
        <4>1. selected'[t] = selected[t]
          BY <1>7, <3>2 DEF OnSelected
        <4>. QED  BY <1>3, <3>1, <4>1 DEF ArgOK
      <3>3. CASE c.slot = "detail"
        <4>1. d.slot \notin {"detail"} \cup OnSelected
          BY <1>4, <3>1, <3>3 DEF AskedOK, Single, ArgOK
        <4>. QED  BY <1>3, <3>1, <4>1 DEF ArgOK
      <3>4. CASE c.slot \in OnSelected
        <4>1. d.slot \notin {"detail"} \cup OnSelected
          BY <1>4, <3>1, <3>4 DEF AskedOK, Single, ArgOK, Actions, OnSelected
        <4>. QED  BY <1>3, <3>1, <4>1 DEF ArgOK
      <3>. QED  BY <3>2, <3>3, <3>4
    <2>2. Single(cs, {"detail"}) /\ Single(cs, Actions)
      BY <1>4 DEF AskedOK, Single
    <2>3. selected'[t] # None =>
              wanted[t] \in Transactions /\ Succeeds(selected'[t][2], wanted[t])
      <3>1. CASE c.slot = "detail"
        BY <1>7, <3>1 DEF Succeeds, Transactions, OnSelected
      <3>2. CASE c.slot = "correct"
        <4>1. /\ selected'[t] = <<selected[t][1], Replacement(selected[t][2])>>
              /\ selected[t] \in Users \X Transactions
          BY <1>7, <3>2 DEF OnSelected
        <4>2. wanted[t] \in Transactions /\ Succeeds(selected[t][2], wanted[t])
          BY <1>4, <4>1, BrowserAssumption DEF AskedOK
        <4>3. selected'[t][2] = <<selected[t][2][1], selected[t][2][2] + 1>>
          BY <4>1 DEF Replacement
        <4>. QED  BY <4>1, <4>2, <4>3 DEF Succeeds, Transactions
      <3>3. CASE c.slot \notin {"detail", "correct"}
        <4>1. selected'[t] = None \/ selected'[t] = selected[t]
          BY <1>7, <3>3
        <4>2. selected[t] # None =>
                  wanted[t] \in Transactions /\ Succeeds(selected[t][2], wanted[t])
          BY <1>4 DEF AskedOK
        <4>. QED  BY <4>1, <4>2
      <3>. QED  BY <3>1, <3>2, <3>3
    <2>4. query' = query /\ wanted' = wanted
      BY <1>3
    <2>5. \A x \in items'[t] : x[2] = query'[t]
      <3>1. \A x \in items[t] : x[2] = query[t]
        BY <1>4 DEF AskedOK
      <3>. QED  BY <1>6, <2>4, <3>1
    <2>. HIDE DEF cs
    <2>. QED  BY <1>8, <2>1, <2>2, <2>3, <2>4, <2>5 DEF AskedOK
  <1>11. /\ \A d \in cs : Known(d.by)
         /\ status[t] = "restoring" => \E d \in cs : d.slot = "context"
         /\ (\E d \in cs : d.at = "waiting") => \E d \in calls[t] : d.at = "waiting"
    BY <1>1, <1>2 DEF TabOK, KnownOK, WaitOK
  <1>. HIDE DEF user, cs
  <1>12. /\ preference' \in [Tabs -> Owners] /\ budget' \in 0..cast'.budget
         /\ query' \in [Tabs -> Things \cup {None}]
         /\ wanted' \in [Tabs -> Transactions \cup {None}]
         /\ \A u \in Tabs \ {t} :
               /\ preference'[u] = preference[u] /\ items'[u] = items[u] /\ query'[u] = query[u]
               /\ wanted'[u] = wanted[u] /\ selected'[u] = selected[u]
    BY <1>3, <1>5, <1>6, <1>15
  <1>. QED
    BY <1>2, <1>3, <1>6, <1>15, <1>8, <1>9, <1>10, <1>11, <1>12, PageOK

\* A call that is refused for good or breaks off.
LEMMA CallFailsOK ==
    ASSUME IInv, NEW t \in Tabs, NEW c \in calls[t], CallFails(t, c), cast' = cast
    PROVE  IInv'
  <1>1. budget' = budget \/ (budget > 0 /\ budget' = budget - 1)
    BY DEF CallFails
  <1>2. UNCHANGED <<jar, owner, newest, ended, alarmed, mail>>
    BY DEF CallFails
  <1>3. CASE c.slot = "context"
    <2>1. Clear(t, "anonymous", Cleared(t)) /\ mail' \subseteq Tabs
      BY <1>3 DEF CallFails, IInv, TypeOK
    <2>. QED  BY <1>1, <1>2, <2>1, ClearedOK, ClearOK, BudgetOK
  <1>4. CASE c.slot # "context"
    <2>. DEFINE cs == calls[t] \ {c}
    <2>1. /\ calls' = [calls EXCEPT ![t] = cs]
          /\ UNCHANGED <<broken, orphans, lock, status, token, live, swapped, task,
                         preference, items, query, selected, wanted>>
      BY <1>4 DEF CallFails, tabVars, IInv, TypeOK
    <2>2. TabOK(t) /\ calls[t] \subseteq Call
      BY TabTypes DEF IInv
    <2>3. calls'[t] = cs /\ cs \in SUBSET Call
      BY <2>1, <2>2 DEF IInv, TypeOK
    <2>4. ~Awaits(t) /\ status[t] \in {"restoring", "authenticated"}
      BY CallingOK
    <2>5. OwnOK(t)' /\ AskedOK(t)'
      BY <1>2, <2>1, <2>2, <2>3 DEF TabOK, OwnOK, AskedOK, ArgOK, Single
    <2>6. /\ \A d \in cs : Known(d.by)
          /\ status[t] = "restoring" => \E d \in cs : d.slot = "context"
          /\ (\E d \in cs : d.at = "waiting") => \E d \in calls[t] : d.at = "waiting"
      BY <1>4, <2>2, <2>4 DEF TabOK, KnownOK, WaitOK
    <2>. HIDE DEF cs
    <2>7. /\ preference' \in [Tabs -> Owners] /\ budget' \in 0..cast'.budget
          /\ items' \in [Tabs -> SUBSET (Users \X Things)]
          /\ selected' \in [Tabs -> (Users \X Transactions) \cup {None}]
          /\ query' \in [Tabs -> Things \cup {None}]
          /\ wanted' \in [Tabs -> Transactions \cup {None}]
      BY <1>1, <2>1, BudgetOK DEF IInv, TypeOK
    <2>. QED  BY <1>2, <2>1, <2>3, <2>4, <2>5, <2>6, <2>7, PageOK
  <1>. QED  BY <1>3, <1>4

\* The user is known, and the tab comes up.
LEMMA ContextAnswerOK ==
    ASSUME IInv, NEW t \in Tabs, NEW c \in calls[t], c.slot = "context", Answer(t, c),
           cast' = cast
    PROVE  IInv'
  <1>. DEFINE user == owner[c.by]
              cs == calls[t] \ {c}
  <1>1. TabOK(t) /\ calls[t] \subseteq Call
    BY TabTypes DEF IInv
  <1>2. /\ ~Awaits(t) /\ user \in Users
        /\ (~swapped[t] => token[t] # None /\ user = owner[token[t]])
    BY CallingOK
  <1>3. /\ calls' = [calls EXCEPT ![t] = cs]
        /\ UNCHANGED <<jar, owner, newest, ended, alarmed, broken, orphans, lock, mail>>
        /\ UNCHANGED <<token, live, swapped, items, query, wanted, budget>>
        /\ preference' = [preference EXCEPT ![t] = user]
        /\ selected' = [selected EXCEPT ![t] = DetailAfter(t, c)]
        /\ status' = [status EXCEPT ![t] = "authenticated"]
        /\ task' = [task EXCEPT ![t]["restore"] = Rest, ![t]["login"] = Rest]
    BY DEF Answer, Apply, netVars, serverVars, IInv, TypeOK
  <1>4. Rest \in Task /\ Rest.at = "none" /\ Rest.current /\ Rest.got = None
    BY DEF Rest, Task, Stages, Cookies
  <1>5. /\ task' \in [Tabs -> [Kinds -> Task]]
        /\ task'[t]["restore"] = Rest /\ task'[t]["login"] = Rest
        /\ task'[t]["share"] = task[t]["share"] /\ task'[t]["logout"] = task[t]["logout"]
        /\ \A u \in Tabs \ {t} : task'[u] = task[u]
    <2>1. task \in [Tabs -> [Kinds -> Task]]
      BY DEF IInv, TypeOK
    <2>. QED  BY <1>3, <1>4, <2>1 DEF Kinds
  <1>6. /\ calls' \in [Tabs -> SUBSET Call] /\ calls'[t] = cs
        /\ \A u \in Tabs \ {t} : calls'[u] = calls[u]
    BY <1>1, <1>3 DEF IInv, TypeOK
  <1>7. selected' = selected
    <2>1. selected' = [selected EXCEPT ![t] = selected[t]]
      BY <1>3 DEF DetailAfter
    <2>. QED  BY <2>1 DEF IInv, TypeOK
  <1>8. /\ preference' \in [Tabs -> Owners] /\ preference'[t] = user
        /\ status' \in [Tabs -> {"idle", "restoring", "authenticated", "anonymous"}]
        /\ status'[t] = "authenticated"
        /\ \A u \in Tabs \ {t} : preference'[u] = preference[u] /\ status'[u] = status[u]
    BY <1>2, <1>3 DEF IInv, TypeOK, Owners
  <1>9. TypeOK'
    BY <1>3, <1>5, <1>6, <1>7, <1>8 DEF IInv, TypeOK
  \* Neither the restore nor the login was at work.
  <1>10. ASSUME NEW u \in Tabs, NEW j \in Kinds
         PROVE  /\ Holding(u, j)' <=> Holding(u, j)
                /\ Holding(u, j) => task'[u][j].with = task[u][j].with
    <2>1. CASE u # t \/ j \notin {"restore", "login"}
      <3>1. task'[u][j] = task[u][j]
        BY <1>5, <2>1 DEF Kinds
      <3>. QED  BY <3>1 DEF Holding
    <2>2. CASE u = t /\ j \in {"restore", "login"}
      BY <1>2, <1>4, <1>5, <2>2 DEF Holding, Awaits
    <2>. QED  BY <2>1, <2>2
  <1>11. LockOK' /\ CookiesOK' /\ NoFalseAlarm' /\ OwnersStay
    BY <1>3, <1>10, StillHolding
  <1>12. \A u \in Tabs \ {t} : SameTab(u)
    BY <1>3, <1>5, <1>6, <1>7, <1>8 DEF SameTab
  <1>13. TabOK(t)'
    <2>1. StagesOK(t)'
      BY <1>1, <1>4, <1>5 DEF TabOK, StagesOK, Kinds
    <2>2. KnownOK(t)'
      BY <1>1, <1>3, <1>4, <1>5, <1>6 DEF TabOK, KnownOK, Known, Kinds
    <2>3. ~Awaits(t)' /\ Over(task'[t]["restore"])
      BY <1>4, <1>5 DEF Awaits, IsCurrent, Over
    <2>4. StatusOK(t)'
      BY <1>4, <1>5, <1>8, <2>3 DEF StatusOK
    <2>5. OwnOK(t)'
      BY <1>1, <1>2, <1>3, <1>6, <1>7, <1>8 DEF TabOK, OwnOK
    <2>6. AskedOK(t)'
      BY <1>1, <1>3, <1>6, <1>7 DEF TabOK, AskedOK, ArgOK, Single
    <2>7. WaitOK(t)'
      BY <1>1, <1>5, <1>6, <1>8 DEF TabOK, WaitOK
    <2>. QED  BY <2>1, <2>2, <2>4, <2>5, <2>6, <2>7 DEF TabOK
  <1>. QED  BY <1>9, <1>11, <1>12, <1>13, OneTab

\* A call waits for the refresh that all share.
LEMMA UnauthorizedOK ==
    ASSUME IInv, NEW t \in Tabs, NEW c \in calls[t], Unauthorized(t, c), cast' = cast
    PROVE  IInv'
  <1>. DEFINE d == [c EXCEPT !.at = "waiting", !.retried = TRUE]
              cs == (calls[t] \ {c}) \cup {d}
              r == Sharing(t)
              old == task[t]["share"]
  <1>1. TabOK(t) /\ calls[t] \subseteq Call
    BY TabTypes DEF IInv
  <1>2. /\ ~Awaits(t) /\ status[t] \in {"restoring", "authenticated"} /\ c \in Call
    BY CallingOK
  <1>3. /\ calls' = [calls EXCEPT ![t] = cs] /\ Alter(t, "share", r)
        /\ UNCHANGED <<jar, owner, newest, ended, alarmed, broken, orphans, lock, mail>>
        /\ UNCHANGED <<status, token, live, swapped, preference, items, query, selected,
                       wanted, budget>>
    BY DEF Unauthorized, netVars, serverVars, IInv, TypeOK
  <1>4. /\ d \in Call /\ d.slot = c.slot /\ d.by = c.by /\ d.arg = c.arg /\ d.at = "waiting"
    BY <1>2 DEF Call
  <1>. HIDE DEF d
  <1>5. /\ calls' \in [Tabs -> SUBSET Call] /\ calls'[t] = cs
        /\ \A u \in Tabs \ {t} : calls'[u] = calls[u]
    BY <1>1, <1>3, <1>4 DEF IInv, TypeOK
  <1>6. old \in Task /\ old.at \in {"none", "queue", "sent", "answered"} /\ "share" \in Kinds
    <2>1. "share" \in Kinds
      BY DEF Kinds
    <2>. QED  BY <1>1, <2>1, TabTypes DEF TabOK, StagesOK
  <1>7. \/ r = old /\ old.at # "none" /\ old.current
        \/ r = To("queue") /\ Over(old)
    BY DEF Sharing, Over
  <1>8. To("queue") \in Task /\ To("queue").at = "queue" /\ To("queue").got = None
        /\ To("queue").current
    BY DEF To, Rest, Task, Stages, Cookies
  <1>. HIDE DEF r
  <1>9. r \in Task /\ ~Over(r) /\ r.at \in {"queue", "sent", "answered"} /\ r.current
        /\ r.got \in {None, old.got}
    BY <1>6, <1>7, <1>8 DEF Over
  <1>10. Over(old) => old.at \in {"none", "answered"}
    BY <1>1, <1>6 DEF TabOK, StagesOK, Over
  <1>11. /\ task' \in [Tabs -> [Kinds -> Task]]
         /\ task'[t]["share"] = r
         /\ \A j \in Kinds \ {"share"} : task'[t][j] = task[t][j]
         /\ \A u \in Tabs \ {t} : task'[u] = task[u]
    BY <1>3, <1>6, <1>9, AlterOK
  <1>12. ASSUME NEW u \in Tabs, NEW j \in Kinds
         PROVE  /\ Holding(u, j)' <=> Holding(u, j)
                /\ Holding(u, j) => task'[u][j].with = task[u][j].with
    <2>1. CASE u = t /\ j = "share"
      BY <1>7, <1>8, <1>10, <1>11, <2>1 DEF Holding
    <2>2. CASE ~(u = t /\ j = "share")
      <3>1. task'[u][j] = task[u][j]
        BY <1>11, <2>2
      <3>. QED  BY <3>1 DEF Holding
    <2>. QED  BY <2>1, <2>2
  <1>13. TypeOK'
    BY <1>3, <1>5, <1>11 DEF IInv, TypeOK
  <1>14. LockOK' /\ CookiesOK' /\ NoFalseAlarm' /\ OwnersStay
    BY <1>3, <1>12, StillHolding
  <1>15. \A u \in Tabs \ {t} : SameTab(u)
    BY <1>3, <1>5, <1>11 DEF SameTab
  <1>16. TabOK(t)'
    <2>1. {"restore", "login", "share", "logout"} = Kinds
      BY DEF Kinds
    <2>2. StagesOK(t)'
      BY <1>1, <1>9, <1>11, <2>1 DEF TabOK, StagesOK
    <2>3. KnownOK(t)'
      <3>1. \A j \in Kinds : Known(task[t][j].got)
        BY <1>1 DEF TabOK, KnownOK
      <3>2. \A e \in cs : e = d \/ e \in calls[t]
        OBVIOUS
      <3>3. Known(token[t]) /\ \A e \in calls[t] : Known(e.by)
        BY <1>1 DEF TabOK, KnownOK
      <3>. QED  BY <1>3, <1>4, <1>5, <1>6, <1>9, <1>11, <3>1, <3>2, <3>3 DEF KnownOK, Known
    <2>4. /\ task'[t]["restore"] = task[t]["restore"] /\ task'[t]["login"] = task[t]["login"]
          /\ task'[t]["logout"] = task[t]["logout"]
      BY <1>11, <2>1
    <2>5. ~Awaits(t)'
      BY <1>2, <2>4 DEF Awaits
    <2>6. StatusOK(t)'
      BY <1>1, <1>2, <1>3, <2>4, <2>5 DEF TabOK, StatusOK
    <2>7. OwnOK(t)' /\ AskedOK(t)'
      <3>1. \A e \in cs : e = d \/ e \in calls[t]
        OBVIOUS
      <3>2. OwnOK(t)'
        BY <1>1, <1>3, <1>4, <1>5, <3>1 DEF TabOK, OwnOK
      <3>3. AskedOK(t)'
        <4>1. \A e \in cs : ArgOK(t, e)'
          BY <1>1, <1>3, <1>4, <3>1 DEF TabOK, AskedOK, ArgOK
        <4>2. Single(cs, {"detail"}) /\ Single(cs, Actions)
          BY <1>1, <1>4 DEF TabOK, AskedOK, Single
        <4>. QED  BY <1>1, <1>3, <1>5, <4>1, <4>2 DEF TabOK, AskedOK
      <3>. QED  BY <3>2, <3>3
    <2>8. WaitOK(t)'
      <3>1. status[t] = "restoring" => \E e \in cs : e.slot = "context"
        BY <1>1, <1>2, <1>4 DEF TabOK, WaitOK
      <3>. QED  BY <1>3, <1>5, <1>9, <1>11, <3>1 DEF WaitOK
    <2>. QED  BY <2>2, <2>3, <2>6, <2>7, <2>8 DEF TabOK
  <1>. QED  BY <1>13, <1>14, <1>15, <1>16, OneTab

\* The refresh that calls wait for settles: they are sent again, or the tab
\* has no user any more.
LEMMA SettleShareOK ==
    ASSUME IInv, NEW t \in Tabs, SettleShare(t), cast' = cast
    PROVE  IInv'
  <1>. DEFINE got == task[t]["share"].got
  <1>1. /\ got \in Sessions \cup {None} /\ (got # None => owner[got] # None)
        /\ UNCHANGED <<jar, owner, newest, ended, alarmed, budget>>
        /\ IsCurrent(task[t]["share"]) /\ TabOK(t) /\ calls[t] \subseteq Call
    BY TabTypes DEF SettleShare, IInv, TabOK, KnownOK, Known, Kinds
  <1>2. CASE got = None
    <2>. DEFINE tasks == [Cleared(t) EXCEPT !["share"] = Rest]
    <2>1. Clear(t, "anonymous", tasks) /\ mail' \subseteq Tabs
      BY <1>1, <1>2 DEF SettleShare, Broadcast, IInv, TypeOK
    <2>2. /\ tasks \in [Kinds -> Task] /\ tasks["share"] = Rest /\ tasks["login"] = Rest
          /\ tasks["restore"] = Superseded(task[t]["restore"])
          /\ tasks["logout"] = task[t]["logout"]
      BY ClearedOK, StartsOK
    <2>. HIDE DEF tasks
    <2>. QED  BY <1>1, <2>1, <2>2, ClearOK, BudgetOK
  <1>3. CASE got # None
    <2>. DEFINE again(c) == IF c.at = "waiting" THEN Resent(c, got) ELSE c
                cs == {again(c) : c \in calls[t]}
    <2>1. /\ token' = [token EXCEPT ![t] = got] /\ live' = [live EXCEPT ![t] = TRUE]
          /\ swapped' = [swapped EXCEPT ![t] = @ \/ Swaps(t, got)]
          /\ calls' = [calls EXCEPT ![t] = cs]
          /\ Alter(t, "share", Rest)
          /\ UNCHANGED <<broken, orphans, lock, mail, status, preference, items, query,
                         selected, wanted>>
      BY <1>3 DEF SettleShare, IInv, TypeOK
    <2>2. got \in Sessions /\ owner[got] # None
      BY <1>1, <1>3
    <2>. HIDE DEF got
    <2>3. ASSUME NEW c \in calls[t]
          PROVE  /\ again(c) \in Call /\ again(c).at = "sent" /\ again(c).slot = c.slot
                 /\ again(c).arg = c.arg /\ again(c).by \in {c.by, got}
      <3>1. c \in Call
        BY <1>1
      <3>. QED  BY <2>2, <3>1 DEF Resent, Call
    <2>. HIDE DEF again
    <2>4. /\ cs \in SUBSET Call
          /\ \A e \in cs : e.at = "sent"
          /\ \A e \in cs : \E c \in calls[t] :
                 e.slot = c.slot /\ e.arg = c.arg /\ e.by \in {c.by, got}
          /\ \A c \in calls[t] : \E e \in cs : e.slot = c.slot
      BY <2>3
    <2>14. ASSUME NEW slots, Single(calls[t], slots)
           PROVE  Single(cs, slots)
      BY <2>3, <2>14 DEF Single
    <2>. HIDE DEF cs
    <2>5. /\ calls' \in [Tabs -> SUBSET Call] /\ calls'[t] = cs
          /\ \A u \in Tabs \ {t} : calls'[u] = calls[u]
      BY <2>1, <2>4 DEF IInv, TypeOK
    <2>6. Rest \in Task /\ Rest.at = "none" /\ Rest.current /\ Rest.got = None
          /\ "share" \in Kinds
      BY DEF Rest, Task, Stages, Cookies, Kinds
    <2>7. /\ task' \in [Tabs -> [Kinds -> Task]]
          /\ task'[t]["share"] = Rest
          /\ \A j \in Kinds \ {"share"} : task'[t][j] = task[t][j]
          /\ \A u \in Tabs \ {t} : task'[u] = task[u]
      BY <2>1, <2>6, AlterOK
    <2>8. /\ token'[t] = got /\ swapped'[t] = (swapped[t] \/ Swaps(t, got))
          /\ token' \in [Tabs -> Sessions \cup {None}]
          /\ live' \in [Tabs -> BOOLEAN] /\ swapped' \in [Tabs -> BOOLEAN]
          /\ \A u \in Tabs \ {t} : token'[u] = token[u] /\ swapped'[u] = swapped[u]
      BY <2>1, <2>2 DEF IInv, TypeOK, Swaps
    <2>9. ASSUME NEW u \in Tabs, NEW j \in Kinds
          PROVE  /\ Holding(u, j)' <=> Holding(u, j)
                 /\ Holding(u, j) => task'[u][j].with = task[u][j].with
      <3>1. CASE u = t /\ j = "share"
        BY <1>1, <2>6, <2>7, <3>1 DEF Holding, IsCurrent
      <3>2. CASE ~(u = t /\ j = "share")
        <4>1. task'[u][j] = task[u][j]
          BY <2>7, <3>2
        <4>. QED  BY <4>1 DEF Holding
      <3>. QED  BY <3>1, <3>2
    <2>10. TypeOK'
      BY <1>1, <2>1, <2>5, <2>7, <2>8 DEF IInv, TypeOK
    <2>11. LockOK' /\ CookiesOK' /\ NoFalseAlarm' /\ OwnersStay
      BY <1>1, <2>1, <2>9, StillHolding
    <2>12. \A u \in Tabs \ {t} : SameTab(u)
      BY <2>1, <2>5, <2>7, <2>8 DEF SameTab
    <2>13. TabOK(t)'
      <3>1. {"restore", "login", "share", "logout"} = Kinds
        BY DEF Kinds
      <3>2. StagesOK(t)'
        BY <1>1, <2>6, <2>7, <3>1 DEF TabOK, StagesOK
      <3>3. KnownOK(t)'
        <4>1. \A e \in cs : Known(e.by)
          BY <1>1, <2>2, <2>4 DEF TabOK, KnownOK, Known
        <4>2. \A j \in Kinds : Known(task[t][j].got)
          BY <1>1 DEF TabOK, KnownOK
        <4>3. \A j \in Kinds : task'[t][j].got # None => owner[task'[t][j].got] # None
          BY <2>6, <2>7, <4>2 DEF Known
        <4>. QED  BY <1>1, <2>2, <2>5, <2>8, <4>1, <4>3 DEF KnownOK, Known
      <3>4. /\ task'[t]["restore"] = task[t]["restore"] /\ task'[t]["login"] = task[t]["login"]
            /\ task'[t]["logout"] = task[t]["logout"]
        BY <2>7, <3>1
      \* Its refresh is at work, so the tab does not wait for a user.
      <3>5. ~Over(task[t]["share"])
        BY <1>1 DEF IsCurrent, Over
      <3>6. ~Awaits(t) /\ status[t] \notin {"idle", "anonymous"}
        BY <1>1, <3>5 DEF TabOK, StatusOK
      <3>7. ~Awaits(t)'
        BY <3>4, <3>6 DEF Awaits
      <3>8. StatusOK(t)'
        BY <1>1, <2>1, <3>4, <3>6, <3>7 DEF TabOK, StatusOK
      <3>9. OwnOK(t)'
        <4>1. OwnOK(t)
          BY <1>1 DEF TabOK
        <4>2. got # None
          BY <1>3
        <4>3. SUFFICES ASSUME ~swapped'[t]
                       PROVE  /\ ~swapped[t] /\ token[t] # None /\ owner[token[t]] = owner[got]
          <5>1. ASSUME ~swapped[t], owner[token[t]] = owner[got]
                PROVE  \A e \in cs : owner[e.by] = owner[got]
            BY <2>4, <4>1, <5>1 DEF OwnOK
          <5>. QED  BY <1>1, <2>1, <2>5, <2>8, <4>1, <4>2, <5>1 DEF OwnOK
        <4>. QED  BY <2>8, <4>3 DEF Swaps
      <3>10. AskedOK(t)'
        <4>1. \A e \in cs : ArgOK(t, e)'
          BY <1>1, <2>1, <2>4 DEF TabOK, AskedOK, ArgOK
        <4>2. Single(cs, {"detail"}) /\ Single(cs, Actions)
          BY <1>1, <2>14 DEF TabOK, AskedOK
        <4>. QED  BY <1>1, <2>1, <2>5, <4>1, <4>2 DEF TabOK, AskedOK
      <3>11. WaitOK(t)'
        <4>1. status[t] = "restoring" => \E e \in cs : e.slot = "context"
          BY <1>1, <2>4, <3>6 DEF TabOK, WaitOK
        <4>2. ~\E e \in cs : e.at = "waiting"
          BY <2>4
        <4>. QED  BY <2>1, <2>5, <4>1, <4>2 DEF WaitOK
      <3>. QED  BY <3>2, <3>3, <3>8, <3>9, <3>10, <3>11 DEF TabOK
    <2>. QED  BY <2>10, <2>11, <2>12, <2>13, OneTab
  <1>. QED  BY <1>2, <1>3

\* A page is loaded anew.
LEMMA ReloadOK ==
    ASSUME IInv, NEW t \in Tabs, Reload(t), cast' = cast
    PROVE  IInv'
  <1>. DEFINE kinds == {"restore", "share", "logout"}
  <1>1. /\ UNCHANGED <<jar, owner, newest, ended, alarmed>>
        /\ budget > 0 /\ budget' = budget - 1 /\ mail' = mail \ {t}
        /\ orphans' = orphans \cup Underway(t, kinds)
        /\ broken' = broken \cup {c[1] : c \in Underway(t, kinds)}
        /\ lock' = IF lock \in LockOf(t) THEN None ELSE lock
    BY DEF Reload
  <1>2. Rest \in Task /\ Rest.at = "none" /\ Rest.current /\ Rest.got = None
    BY DEF Rest, Task, Stages, Cookies
  <1>3. /\ status'[t] = "idle" /\ token'[t] = None /\ swapped'[t] = FALSE
        /\ calls'[t] = {} /\ preference'[t] = None /\ items'[t] = {} /\ query'[t] = None
        /\ selected'[t] = None /\ wanted'[t] = None
        /\ \A k \in Kinds : task'[t][k] = Rest
        /\ \A u \in Tabs \ {t} : SameTab(u)
    BY DEF Reload, SameTab, IInv, TypeOK
  <1>4. TypeOK'
    <2>1. task' \in [Tabs -> [Kinds -> Task]]
      BY <1>2 DEF Reload, IInv, TypeOK
    <2>2. /\ status' \in [Tabs -> {"idle", "restoring", "authenticated", "anonymous"}]
          /\ token' \in [Tabs -> Sessions \cup {None}]
          /\ live' \in [Tabs -> BOOLEAN] /\ swapped' \in [Tabs -> BOOLEAN]
      BY DEF Reload, IInv, TypeOK
    <2>3. /\ calls' \in [Tabs -> SUBSET Call]
          /\ preference' \in [Tabs -> Owners]
          /\ items' \in [Tabs -> SUBSET (Users \X Things)]
      BY DEF Reload, IInv, TypeOK, Owners
    <2>4. /\ query' \in [Tabs -> Things \cup {None}]
          /\ wanted' \in [Tabs -> Transactions \cup {None}]
          /\ selected' \in [Tabs -> (Users \X Transactions) \cup {None}]
      BY DEF Reload, IInv, TypeOK
    <2>5. lock' \in (Tabs \X Kinds) \cup {None} /\ mail' \subseteq Tabs
      BY <1>1 DEF IInv, TypeOK
    <2>6. orphans' \subseteq Cookies \ {None} /\ broken' \subseteq Sessions
      BY <1>1, BreakOff
    <2>7. /\ jar \in Cookies /\ (jar # None => jar[2] \in 1..newest[jar[1]])
          /\ owner \in [Sessions -> Owners] /\ newest \in [Sessions -> Nat]
          /\ ended \subseteq Sessions /\ alarmed \subseteq ended
      BY DEF IInv, TypeOK
    <2>8. cast' \in Casts /\ budget' \in 0..cast'.budget
      BY <1>1, BudgetOK
    <2>. QED  BY <1>1, <2>1, <2>2, <2>3, <2>4, <2>5, <2>6, <2>7, <2>8 DEF TypeOK
  <1>5. \A k \in Kinds : ~Holding(t, k)'
    BY <1>2, <1>3 DEF Holding
  <1>6. \A u \in Tabs \ {t}, k \in Kinds : Holding(u, k)' <=> Holding(u, k)
    BY <1>3 DEF Holding, SameTab
  <1>7. LockOK'
    <2>1. ASSUME NEW u \in Tabs, NEW k \in Kinds
          PROVE  Holding(u, k)' <=> lock' = <<u, k>>
      <3>1. <<u, k>> # None /\ (Holding(u, k) <=> lock = <<u, k>>)
        BY BrowserAssumption DEF Kinds, IInv, LockOK
      <3>2. CASE u = t
        <4>1. lock' # <<u, k>>
          BY <1>1, <3>1, <3>2 DEF LockOf
        <4>. QED  BY <1>5, <3>2, <4>1
      <3>3. CASE u # t
        <4>1. <<u, k>> \notin LockOf(t)
          BY <3>3 DEF LockOf
        <4>. QED  BY <1>1, <1>6, <3>1, <3>3, <4>1
      <3>. QED  BY <3>2, <3>3
    <2>. QED  BY <2>1 DEF LockOK
  <1>8. CookiesOK' /\ NoFalseAlarm'
    <2>1. /\ NoFalseAlarm' /\ broken \subseteq broken'
          /\ \A c \in orphans' : owner'[c[1]] # None /\ c[2] <= newest'[c[1]] /\ c[1] \in broken'
      BY <1>1, BreakOff
    <2>2. CookieOK(jar)'
      BY <1>1, <2>1 DEF IInv, CookiesOK, CookieOK
    <2>3. ASSUME NEW u \in Tabs, NEW k \in Kinds, Holding(u, k)'
          PROVE  CookieOK(task[u][k].with)'
      <3>1. u # t
        BY <1>5, <2>3
      <3>2. CookieOK(task[u][k].with) /\ task'[u][k].with = task[u][k].with
        BY <1>3, <1>6, <2>3, <3>1 DEF SameTab, IInv, CookiesOK
      <3>. QED  BY <1>1, <2>1, <3>2 DEF CookieOK
    <2>. QED  BY <2>1, <2>2, <2>3 DEF CookiesOK
  <1>9. TabOK(t)'
    <2>1. \A k \in {"restore", "login", "share", "logout"} : task'[t][k] = Rest
      BY <1>3 DEF Kinds
    <2>2. ~Awaits(t)'
      BY <1>2, <2>1 DEF Awaits, IsCurrent
    <2>3. StagesOK(t)' /\ KnownOK(t)'
      BY <1>2, <1>3, <2>1 DEF StagesOK, KnownOK, Known
    <2>4. StatusOK(t)'
      BY <1>2, <1>3, <2>1, <2>2 DEF StatusOK, Blank, Over
    <2>5. OwnOK(t)' /\ AskedOK(t)' /\ WaitOK(t)'
      BY <1>3 DEF OwnOK, AskedOK, Single, WaitOK
    <2>. QED  BY <2>3, <2>4, <2>5 DEF TabOK
  <1>10. OwnersStay
    BY <1>1 DEF OwnersStay
  <1>. QED  BY <1>3, <1>4, <1>7, <1>8, <1>9, <1>10, OneTab

-----------------------------------------------------------------------------
LEMMA NextOK ==
    ASSUME IInv, [Next]_vars
    PROVE  IInv'
  <1>1. CASE UNCHANGED vars
    <2>1. /\ UNCHANGED <<jar, owner, newest, ended, alarmed, broken, orphans, lock, mail>>
          /\ UNCHANGED <<status, token, live, swapped, task, calls, preference, items, query,
                         selected, wanted, budget, cast>>
      BY <1>1 DEF vars, netVars, serverVars, tabVars, pageVars
    <2>2. TypeOK'
      BY <2>1 DEF IInv, TypeOK
    <2>3. \A u \in Tabs, j \in Kinds : Holding(u, j)' <=> Holding(u, j)
      BY <2>1 DEF Holding
    <2>4. \A u \in Tabs : SameTab(u)
      BY <2>1 DEF SameTab
    <2>. QED  BY <2>1, <2>2, <2>3, <2>4, StillHolding, NoTab
  <1>2. CASE Next
    <2>1. cast' = cast /\ cast.tabs \subseteq Tabs /\ cast.pages \subseteq Tabs
          /\ cast.things \subseteq Things /\ cast.corrections \in Nat
      BY <1>2, BrowserAssumption DEF Next, IInv, TypeOK
    <2>2. ASSUME NEW t \in cast.tabs, TaskStep(t)
          PROVE  IInv'
      BY <2>1, <2>2, SettleRestoreOK, SettleShareOK, LoginFailsOK, RefreshArrivesOK,
         SettleStaleOK, LogoutArrivesOK, LogoutRefreshedOK, EndLogoutOK
      DEF TaskStep
    <2>3. ASSUME NEW t \in cast.tabs, CallStep(t)
          PROVE  IInv'
      BY <2>1, <2>3, PageAnswerOK, ContextAnswerOK, UnauthorizedOK, CallFailsOK DEF CallStep
    <2>4. ASSUME NEW t \in cast.tabs, UserStep(t)
          PROVE  IInv'
      BY <2>1, <2>4, StartRestoreOK, StartLoginOK, StartLogoutOK, LoginArrivesOK DEF UserStep
    <2>5. ASSUME NEW t \in cast.pages, PageStep(t)
          PROVE  IInv'
      <3>1. \/ \E x \in Things : Load(t, x)
            \/ \E x \in Transactions : LoadDetail(t, x)
            \/ LoadMore(t) \/ Create(t) \/ Correct(t) \/ Delete(t)
        <4>1. \A x \in cast.things, n \in 0..cast.corrections : <<x, n>> \in Transactions
          BY <2>1 DEF Transactions
        <4>. QED  BY <2>1, <2>5, <4>1 DEF PageStep
      <3>. QED  BY <2>1, <3>1, PageStepOK
    <2>6. ASSUME Environment
          PROVE  IInv'
      BY <2>1, <2>6, OrphanArrivesOK, OrphanDiesOK, HearOK, LapseOK, ReloadOK, LogoutBreaksOK,
         RefreshBreaksOK
      DEF Environment
    <2>. QED  BY <1>2, <2>1, <2>2, <2>3, <2>4, <2>5, <2>6, TakeLockOK DEF Next
  <1>. QED  BY <1>1, <1>2

LEMMA Inductive == Spec => []IInv
  BY InitOK, NextOK, PTL DEF Spec

-----------------------------------------------------------------------------
(* What follows.                                                           *)

\* However many tabs and calls refresh at the same time, the server has no
\* reason to think a refresh token stolen unless an exchange was cut off:
\* refreshes run under the lock, and with the cookie of that moment
\* (serializeRefresh, refreshOnce, web_refresh).
THEOREM TabsAreNoThief == Spec => []NoFalseAlarm
  <1>1. IInv => NoFalseAlarm
    BY DEF IInv
  <1>. QED  BY <1>1, Inductive, PTL

\* A tab shows its own user's data and nothing without one, whatever answers
\* arrive late (the generations of session.ts, http.ts and the stores).
THEOREM ScreensAreOwn == Spec => []OwnScreen
  <1>1. IInv => OwnScreen
    <2>. SUFFICES ASSUME IInv PROVE OwnData /\ QuietWithoutUser
      BY DEF IInv, OwnScreen
    <2>1. ASSUME NEW t \in Tabs, ~swapped[t]
          PROVE  Shown(t) \subseteq IF token[t] = None THEN {} ELSE {owner[token[t]]}
      <3>1. OwnOK(t)
        BY DEF IInv, TabOK
      <3>. QED  BY <2>1, <3>1 DEF OwnOK, Shown
    <2>2. ASSUME NEW t \in Tabs, status[t] \in {"idle", "anonymous"},
                 task[t]["logout"].at \notin {"resent", "answered"}
          PROVE  token[t] = None /\ Shown(t) = {}
      <3>1. StatusOK(t)
        BY DEF IInv, TabOK
      <3>. QED  BY <2>2, <3>1 DEF StatusOK, Blank, Shown
    <2>. QED  BY <2>1, <2>2 DEF OwnData, QuietWithoutUser
  <1>. QED  BY <1>1, Inductive, PTL

\* The list is of the filter last asked for, the detail is the transaction last
\* asked for or what corrections have made of it since, in whatever order the
\* answers come, and a correction or deletion finds the transaction it was made
\* on still shown (transactions.ts).
THEOREM PagesAreAsAsked == Spec => []AsAsked
  <1>1. IInv => AsAsked
    BY DEF IInv, TabOK, AskedOK, ArgOK, AsAsked
  <1>. QED  BY <1>1, Inductive, PTL

\* Nobody waits for something that is not under way: not on the restoring
\* screen, not for a refresh, not for the lock (session.ts, http.ts,
\* refresh-coordinator.ts).
THEOREM WaitsAreForSomething == Spec => []WaitsEnd
  <1>1. IInv => WaitsEnd
    <2>. SUFFICES ASSUME IInv PROVE WaitsEnd
      OBVIOUS
    <2>1. lock # None => task[lock[1]][lock[2]].at \in {"sent", "refresh", "resent"}
      <3>1. SUFFICES ASSUME NEW t \in Tabs, NEW k \in Kinds, lock = <<t, k>>
                     PROVE  task[t][k].at \in {"sent", "refresh", "resent"}
        BY DEF IInv, TypeOK
      <3>. QED  BY <3>1 DEF IInv, LockOK, Holding
    <2>2. ASSUME NEW t \in Tabs
          PROVE  /\ \A k \in {"restore", "share"} : task[t][k].at = "sent" => lock = <<t, k>>
                 /\ status[t] = "restoring" =>
                        \/ task[t]["restore"].at \in {"queue", "sent"}
                        \/ task[t]["login"].at = "sent"
                        \/ IsCurrent(task[t]["restore"])
                        \/ \E c \in calls[t] : c.slot = "context"
                 /\ (\E c \in calls[t] : c.at = "waiting") =>
                        \/ task[t]["share"].at \in {"queue", "sent"}
                        \/ IsCurrent(task[t]["share"])
      <3>1. StagesOK(t) /\ WaitOK(t)
        BY DEF IInv, TabOK
      <3>2. \A k \in {"restore", "share"} : task[t][k].at = "sent" => lock = <<t, k>>
        BY DEF IInv, LockOK, Holding, Kinds
      <3>3. ~Over(task[t]["share"]) =>
                task[t]["share"].at \in {"queue", "sent"} \/ IsCurrent(task[t]["share"])
        BY <3>1 DEF StagesOK, Over, IsCurrent
      <3>. QED  BY <3>1, <3>2, <3>3 DEF WaitOK, Awaits
    <2>. QED  BY <2>1, <2>2 DEF WaitsEnd
  <1>. QED  BY <1>1, Inductive, PTL

=============================================================================
