----------------------------- MODULE MCBrowser -----------------------------
(* Constants for TLC. *)
EXTENDS Browser, TLC

CONSTANTS t1, t2, s1, s2, u1, u2, x, y

TwoTabs == {t1, t2}
TwoSessions == {s1, s2}
TwoUsers == {u1, u2}
TwoThings == {x, y}

\* Two tabs; two tabs, one of them with a list; and one tab with a busy page.
TabsAndPage == {
    [tabs |-> TwoTabs, pages |-> {}, calls |-> 0, requests |-> {}, things |-> {},
     corrections |-> 0, budget |-> 2],
    [tabs |-> TwoTabs, pages |-> {t1}, calls |-> 1, requests |-> {"load"}, things |-> {x},
     corrections |-> 0, budget |-> 1],
    [tabs |-> {t1}, pages |-> {t1}, calls |-> 2, requests |-> Requests, things |-> TwoThings,
     corrections |-> 1, budget |-> 1]}

\* Exchanges that are cut off are for the casts without a second tab to tell.
Scene == cast.tabs = TwoTabs /\ cast.pages # {} => broken = {}

\* Users and sessions are interchangeable.
Alike == Permutations(Users) \cup Permutations(Sessions)

=============================================================================
