---------------------------- MODULE CatalogProofs ----------------------------
(***************************************************************************)
(* The tree of categories, its identities and its locks, for any number of *)
(* transactions, boards, names, templates and rows.                        *)
(***************************************************************************)
EXTENDS Catalog, WellFoundedInduction, TLAPS

\* The ways a transaction goes: which stages belong to which purpose, whether
\* it has a row, and whether it has something to put there.
StagesFit(t) ==
    /\ t.op = "none" => t = Idle
    /\ t.op = "create" => t.at = "identity"
    /\ t.op = "insert" => t.at \in {"save", "index", "commit"}
    /\ t.op = "restore" => t.at \in {"parent", "save", "commit"}
    /\ t.op = "rename" => t.at \in {"save", "index", "commit"}
    /\ t.op = "delete" => t.at \in {"remove", "commit"}
    /\ t.op = "file" => t.at = "commit"
    /\ t.op = "tag" => t.at \in {"resolve", "share", "commit"}
    /\ t.op # "none" => t.at # "idle"
    /\ t.put # None <=> \/ t.op \in {"create", "insert", "restore", "rename"}
                        \/ t.op = "delete" /\ t.at = "commit"

\* What can be asked for: a tag, or a category under one that is locked and is
\* of the parent template, when a template is activated.
AsksFit(r, held) ==
    /\ ~r.deleted
    /\ r.board = "tag" => r.parent = Root /\ r.template = None
    /\ r.template # None =>
        /\ r.board = Templates[r.template].board /\ r.name = Templates[r.template].name
        /\ r.parent = Root <=> Templates[r.template].parent = None
    /\ r.parent # Root =>
        /\ r.parent \in Present /\ r.parent \in held
        /\ r.template # None => rows[r.parent].template = Templates[r.template].parent

\* Row i is the template that r is about, under the same parent.
Activates(i, r) ==
    rows[i].template = r.template /\ rows[i].parent = r.parent /\ rows[i].board = r.board

\* What it puts is what it locked, changed in the one way it is for; a new row
\* takes a number that no row has.
PutFits(t) ==
    /\ t.op \in {"restore", "rename", "delete", "file"} => t.id \in Present /\ t.id \in t.held
    /\ t.op = "insert" =>
        /\ t.id \in Ids \ Present
        /\ t.put.template # None /\ t.put.parent # Root => \A i \in Present : ~Activates(i, t.put)
    /\ t.op \in {"create", "insert"} => AsksFit(t.put, t.held)
    /\ t.op = "restore" => rows[t.id].deleted /\ t.put = [rows[t.id] EXCEPT !.deleted = FALSE]
    /\ t.op = "rename" => Active(t.id) /\ t.put = [rows[t.id] EXCEPT !.name = t.put.name]
    /\ t.op = "delete" =>
        /\ Active(t.id)
        /\ t.at = "commit" => /\ t.put = [rows[t.id] EXCEPT !.deleted = TRUE]
                              /\ \A i \in Ids : Active(i) => rows[i].parent # t.id
    /\ t.op = "file" => Active(t.id) /\ rows[t.id].board = t.type /\ t.type \in Boards

\* A tag is top-level, and the parent of a category that was checked is locked
\* and in use until the commit.
ParentFits(t) ==
    t.put # None =>
        /\ scope = "tags" => t.put.parent = Root /\ t.put.board = "tag"
        /\ t.at \in {"index", "commit"} /\ t.op # "delete" /\ t.put.parent # Root =>
            /\ t.put.parent \in t.held
            /\ Active(t.put.parent)
            /\ rows[t.put.parent].board = t.put.board
            /\ ReachesRoot(t.put.parent)

\* The key of a row about to be committed is nobody else's.
KeyFits(t) ==
    t.at = "commit" /\ t.put # None =>
        \A i \in Present \ {t.id} : Key(rows[i]) # Key(t.put)

\* Shared tags are in use; they are all that is wanted when the tags are written.
TagsFit(t) ==
    /\ \A g \in t.shared : Active(g)
    /\ t.op = "tag" => scope = "tags" /\ t.held = {TheTransaction}
    /\ t.op = "tag" /\ t.at = "commit" => t.wanted = t.shared

Fits(t) == StagesFit(t) /\ PutFits(t) /\ ParentFits(t) /\ KeyFits(t) /\ TagsFit(t)

\* Two transactions hold no lock against each other, do not insert under one
\* number, and do not commit one key.
Apart(t, u) ==
    /\ t.held \cap u.held = {}
    /\ t.held \cap u.shared = {}
    /\ t.shared \cap u.held = {}
    /\ t.op = "insert" \/ u.op = "insert" => t.id # u.id
    /\ t.at = "commit" /\ u.at = "commit" /\ t.put # None /\ u.put # None =>
          Key(t.put) # Key(u.put)

Typed ==
    /\ scope \in {"categories", "tags"}
    /\ rows \in [Ids -> Row \cup {None}]
    /\ filed \in Ids \cup {None}
    /\ tagged \subseteq Ids
    /\ work \in [Writers -> Task]

\* Tags make no tree.
TagsFlat == scope = "tags" => \A i \in Present : rows[i].parent = Root /\ rows[i].board = "tag"

\* The parents of a row, up to the root, are rows, and not more than MaxDepth
\* with the row itself.
Ancestry(i, n, up) ==
    /\ up \in [0..n -> Ids \cup {Root}]
    /\ up[0] = i /\ up[n] = Root
    /\ \A k \in 0..(n - 1) : up[k] \in Present /\ up[k + 1] = rows[up[k]].parent

Shallow == \A i \in Present :
    \E n \in 0..MaxDepth : \E up \in [0..n -> Ids \cup {Root}] : Ancestry(i, n, up)

IInv ==
    /\ Typed
    /\ TagsFlat
    /\ TreeSound
    /\ Shallow
    /\ \A w \in Writers : Fits(work[w])
    /\ \A v, w \in Writers : v # w => Apart(work[v], work[w])


-----------------------------------------------------------------------------
(* What does not touch the rows.                                           *)

LEMMA ApartSymmetric ==
  ASSUME NEW t, NEW u, Apart(t, u)
  PROVE  Apart(u, t)
  BY DEF Apart

LEMMA IdleFits ==
  /\ Idle \in Task
  /\ Fits(Idle)
  /\ \A t \in Task : Apart(t, Idle) <=> (t.op = "insert" => t.id # None)
<1>1. Idle \in Task
  BY DEF Idle, Task
<1>2. Fits(Idle)
  BY DEF Idle, Fits, StagesFit, PutFits, ParentFits, KeyFits, TagsFit
<1>3. \A t \in Task : Apart(t, Idle) <=> (t.op = "insert" => t.id # None)
  BY DEF Idle, Apart, Task
<1>4. QED  BY <1>1, <1>2, <1>3

\* The walk to the root and the ancestors of a row are about the rows alone.
LEMMA RowsStay ==
  ASSUME UNCHANGED rows
  PROVE  /\ Present' = Present
         /\ \A i : Active(i)' <=> Active(i)
         /\ \A p : ReachesRoot(p)' <=> ReachesRoot(p)
         /\ \A i, n, up : Ancestry(i, n, up)' <=> Ancestry(i, n, up)
<1>1. Present' = Present
  BY DEF Present
<1>2. \A i : Active(i)' <=> Active(i)
  BY <1>1 DEF Active
<1>3. \A p : ReachesRoot(p)' <=> ReachesRoot(p)
  BY <1>2 DEF ReachesRoot
<1>4. \A i, n, up : Ancestry(i, n, up)' <=> Ancestry(i, n, up)
  BY <1>1 DEF Ancestry
<1>5. QED  BY <1>1, <1>2, <1>3, <1>4

\* What registration installs.
LEMMA RegisteredRows ==
  ASSUME NEW home \in [Defaults -> Ids],
         \A t, u \in Defaults : home[t] = home[u] => t = u,
         rows = Registered(home)
  PROVE  /\ rows \in [Ids -> Row \cup {None}]
         /\ Present = {home[t] : t \in Defaults}
         /\ \A t \in Defaults : rows[home[t]] = Default(t, home)
<1>1. ASSUME NEW t \in Defaults
      PROVE  home[t] \in Ids /\ rows[home[t]] = Default(t, home)
  <2>1. (CHOOSE u \in Defaults : home[u] = home[t]) = t
    OBVIOUS
  <2>2. QED  BY <2>1 DEF Registered
<1>2. ASSUME NEW t \in Defaults
      PROVE  Default(t, home) \in Row
  <2>1. t \in TemplateIds /\ Templates[t].board \in Boards /\ Templates[t].name \in Names
    BY TemplatesAssumption DEF Defaults
  <2>2. Templates[t].parent # None => Templates[t].parent \in Defaults
    BY TemplatesAssumption DEF Defaults
  <2>3. QED  BY <2>1, <2>2 DEF Default, Row
<1>3. ASSUME NEW i \in Ids, ~\E t \in Defaults : home[t] = i
      PROVE  rows[i] = None
  BY <1>3 DEF Registered
<1>4. ASSUME NEW i \in Ids
      PROVE  rows[i] \in Row \cup {None}
  BY <1>1, <1>2, <1>3
<1>5. rows \in [Ids -> Row \cup {None}]
  BY <1>4 DEF Registered
<1>6. Present = {home[t] : t \in Defaults}
  BY <1>1, <1>2, <1>3, CatalogAssumption DEF Present
<1>7. QED  BY <1>1, <1>5, <1>6

LEMMA RegisteredTree ==
  ASSUME NEW home \in [Defaults -> Ids],
         \A t, u \in Defaults : home[t] = home[u] => t = u,
         rows = Registered(home)
  PROVE  TreeSound /\ Shallow
<1>1. ASSUME NEW t \in Defaults
      PROVE  /\ home[t] \in Present /\ home[t] \in Ids /\ t \in Shipped /\ t \in TemplateIds
             /\ rows[home[t]].board = Templates[t].board
             /\ rows[home[t]].name = Templates[t].name
             /\ ~rows[home[t]].deleted
             /\ Templates[t].parent = None => rows[home[t]].parent = Root
             /\ Templates[t].parent # None =>
                  /\ Templates[t].parent \in Defaults
                  /\ Templates[Templates[t].parent].parent = None
                  /\ rows[home[t]].parent = home[Templates[t].parent]
  <2>1. /\ home[t] \in Ids /\ t \in Shipped /\ t \in TemplateIds
        /\ Templates[t].parent # None =>
             /\ Templates[t].parent \in Defaults
             /\ Templates[Templates[t].parent].parent = None
    BY TemplatesAssumption DEF Defaults
  <2>2. home[t] \in Present /\ rows[home[t]] = Default(t, home)
    BY RegisteredRows
  <2>3. QED  BY <2>1, <2>2 DEF Default
<1>2. \A i \in Present : \E t \in Defaults : i = home[t]
  BY RegisteredRows
<1>3. ASSUME NEW t \in Defaults, rows[home[t]].parent # Root
      PROVE  /\ rows[home[t]].parent \in Present
             /\ rows[rows[home[t]].parent].board = rows[home[t]].board
             /\ Active(rows[home[t]].parent)
  BY <1>1, <1>3, TemplatesAssumption DEF Active
<1>4. ASSUME NEW t \in Defaults, NEW u \in Defaults, Key(rows[home[t]]) = Key(rows[home[u]])
      PROVE  t = u
  <2>1. /\ Templates[t].board = Templates[u].board /\ Templates[t].name = Templates[u].name
        /\ rows[home[t]].parent = rows[home[u]].parent
    BY <1>1, <1>4 DEF Key
  <2>2. Templates[t].parent = Templates[u].parent
    BY <1>1, <2>1 DEF Ids, Root
  <2>3. Templates[t] = Templates[u]
    BY <1>1, <2>1, <2>2, TemplatesAssumption
  <2>4. QED  BY <1>1, <2>3, TemplatesAssumption
<1>5. TreeSound
  BY <1>2, <1>3, <1>4 DEF TreeSound
<1>6. ASSUME NEW t \in Defaults
      PROVE  \E n \in 0..MaxDepth : \E up \in [0..n -> Ids \cup {Root}] : Ancestry(home[t], n, up)
  <2>1. CASE Templates[t].parent = None
    <3> DEFINE up == [k \in 0..1 |-> IF k = 0 THEN home[t] ELSE Root]
    <3>1. up \in [0..1 -> Ids \cup {Root}]
      BY <1>1
    <3>2. ASSUME NEW k \in 0..0
          PROVE  up[k] \in Present /\ up[k + 1] = rows[up[k]].parent
      BY <1>1, <2>1
    <3>3. Ancestry(home[t], 1, up)
      BY <3>1, <3>2 DEF Ancestry
    <3>4. 1 \in 0..MaxDepth
      BY CatalogAssumption
    <3>5. QED  BY <3>1, <3>3, <3>4
  <2>2. CASE Templates[t].parent # None
    <3> DEFINE p == home[Templates[t].parent]
               up == [k \in 0..2 |-> IF k = 0 THEN home[t] ELSE IF k = 1 THEN p ELSE Root]
    <3>1. /\ p \in Present /\ p \in Ids /\ rows[p].parent = Root
          /\ rows[home[t]].parent = p /\ home[t] \in Present
      BY <1>1, <2>2
    <3>2. up \in [0..2 -> Ids \cup {Root}]
      BY <1>1, <3>1
    <3>3. ASSUME NEW k \in 0..1
          PROVE  up[k] \in Present /\ up[k + 1] = rows[up[k]].parent
      <4>1. k = 0 \/ k = 1
        OBVIOUS
      <4>2. QED  BY <3>1, <4>1
    <3>4. Ancestry(home[t], 2, up)
      <4>1. \A k \in 0..(2 - 1) : up[k] \in Present /\ up[k + 1] = rows[up[k]].parent
        BY <3>3
      <4>2. up[0] = home[t] /\ up[2] = Root
        OBVIOUS
      <4>3. QED  BY <3>2, <4>1, <4>2 DEF Ancestry
    <3>5. 2 \in 0..MaxDepth
      BY CatalogAssumption
    <3>6. QED  BY <3>2, <3>4, <3>5
  <2>3. QED  BY <2>1, <2>2
<1>7. QED  BY <1>2, <1>5, <1>6 DEF Shallow

LEMMA InitOK == Init => IInv
<1> SUFFICES ASSUME Init
             PROVE  IInv
  OBVIOUS
<1>1. \A w \in Writers : work[w] = Idle
  BY DEF Init
<1>2. rows \in [Ids -> Row \cup {None}] /\ TagsFlat /\ TreeSound /\ Shallow
  <2>1. CASE scope = "tags"
    <3>1. rows = [i \in Ids |-> None]
      BY <2>1 DEF Init
    <3>2. Present = {}
      BY <3>1 DEF Present
    <3>3. QED  BY <3>1, <3>2 DEF TagsFlat, TreeSound, Shallow
  <2>2. CASE scope = "categories"
    <3>1. PICK home \in [Defaults -> Ids] :
            /\ \A t, u \in Defaults : home[t] = home[u] => t = u
            /\ rows = Registered(home)
      BY <2>2 DEF Init
    <3>2. QED  BY <2>2, <3>1, RegisteredRows, RegisteredTree DEF TagsFlat
  <2>3. QED  BY <2>1, <2>2 DEF Init
<1>3. Typed
  BY <1>2, IdleFits DEF Init, Typed
<1>4. Apart(Idle, Idle)
  BY IdleFits DEF Idle
<1>5. QED  BY <1>1, <1>2, <1>3, <1>4, IdleFits DEF IInv

\* One transaction goes on, and the rows stay.
LEMMA GoesOn ==
  ASSUME IInv, NEW w \in Writers, NEW t \in Task, Fits(t),
         \A v \in Writers \ {w} : Apart(work[v], t),
         work' = [work EXCEPT ![w] = t], UNCHANGED <<scope, rows>>,
         filed' \in Ids \cup {None}, tagged' \subseteq Ids
  PROVE  IInv'
<1>1. Typed'
  BY DEF IInv, Typed
<1>2. TagsFlat' /\ TreeSound' /\ Shallow'
  <2>1. TagsFlat' /\ TreeSound'
    BY RowsStay DEF IInv, TagsFlat, TreeSound, Key
  <2>2. Shallow'
    BY RowsStay DEF IInv, Shallow
  <2>3. QED  BY <2>1, <2>2
<1>3. \A v \in Writers : work'[v] = IF v = w THEN t ELSE work[v]
  BY DEF IInv, Typed
<1>4. ASSUME NEW v \in Writers
      PROVE  Fits(work[v])'
  <2>1. Fits(work'[v])
    BY <1>3 DEF IInv
  <2>2. QED
    BY <2>1, RowsStay
    DEF Fits, StagesFit, PutFits, AsksFit, Activates, ParentFits, KeyFits, TagsFit, Key, Idle
<1>5. ASSUME NEW u \in Writers, NEW v \in Writers, u # v
      PROVE  Apart(work[u], work[v])'
  <2>1. Apart(work'[u], work'[v])
    BY <1>3, <1>5, ApartSymmetric DEF IInv
  <2>2. QED  BY <2>1 DEF Apart, Key
<1>6. QED  BY <1>1, <1>2, <1>4, <1>5 DEF IInv

\* A transaction ends without a row: it rolls back, or it wrote of something else.
LEMMA Ends ==
  ASSUME IInv, NEW w \in Writers, work' = [work EXCEPT ![w] = Idle],
         UNCHANGED <<scope, rows>>, filed' \in Ids \cup {None}, tagged' \subseteq Ids
  PROVE  IInv'
<1>1. ASSUME NEW v \in Writers \ {w}
      PROVE  Apart(work[v], Idle)
  <2>1. work[v] \in Task /\ (work[v].op = "insert" => work[v].id \in Ids)
    BY DEF IInv, Typed, Fits, PutFits
  <2>2. QED  BY <2>1, IdleFits, CatalogAssumption
<1>2. QED  BY <1>1, IdleFits, GoesOn

-----------------------------------------------------------------------------
(* Transactions begin.                                                     *)

\* What every transaction says of row i when row i can be locked.
LEMMA LockApart ==
  ASSUME IInv, NEW w \in Writers, NEW S, \A i \in S : Free(w, i),
         NEW t \in Task, t.held \subseteq work[w].held \cup S,
         t.shared \subseteq work[w].shared,
         t.op # "insert", t.at # "commit" \/ t.put = None,
         t.id \in Present \cup {None},
         NEW v \in Writers \ {w}
  PROVE  Apart(work[v], t)
<1>1. Apart(work[v], work[w])
  BY DEF IInv
<1>2. work[v].held \cap S = {} /\ work[v].shared \cap S = {}
  BY DEF Free
<1>3. work[v].op = "insert" => work[v].id \in Ids \ Present
  BY DEF IInv, Fits, PutFits
<1>4. QED  BY <1>1, <1>2, <1>3, CatalogAssumption DEF Apart

\* A create finds out what it creates.
LEMMA IdentifyOK ==
  ASSUME IInv, NEW w \in Writers, NEW r \in Row, NEW held,
         held = work[w].held, AsksFit(r, held),
         scope = "tags" => r.parent = Root /\ r.board = "tag",
         Identify(w, r, held)
  PROVE  IInv'
<1>0. /\ work[w] \in Task /\ held \in SUBSET (Ids \cup {TheTransaction})
      /\ Typed /\ rows \in [Ids -> Row \cup {None}]
  BY DEF IInv, Typed, Task
<1>1. ASSUME NEW i \in Unused, Matches(r) = {},
             Step(w, [Idle EXCEPT !.op = "insert", !.at = "save", !.id = i,
                                  !.put = r, !.held = held])
      PROVE  IInv'
  <2> DEFINE t == [Idle EXCEPT !.op = "insert", !.at = "save", !.id = i,
                                  !.put = r, !.held = held]
  <2>1. i \in Ids \ Present /\ \A v \in Writers : work[v].id # i
    BY DEF Unused
  <2>2. t \in Task
    BY <1>0, <2>1 DEF Idle, Task
  <2>3. Fits(t)
    <3>1. r.template # None => \A j \in Present : ~Activates(j, r)
      BY <1>1 DEF Matches, Activates
    <3>2. r # None
      BY CatalogAssumption
    <3>3. QED
      BY <2>1, <3>1, <3>2 DEF Idle, Fits, StagesFit, PutFits, ParentFits, KeyFits, TagsFit
  <2>4. ASSUME NEW v \in Writers \ {w}
        PROVE  Apart(work[v], t)
    <3>1. Apart(work[v], work[w])
      BY DEF IInv
    <3>2. QED  BY <1>0, <2>1, <3>1 DEF Apart, Idle
  <2>5. QED  BY <1>1, <2>2, <2>3, <2>4, GoesOn DEF Step, IInv, Typed
<1>2. ASSUME NEW j \in Matches(r), rows[j].deleted, \A k \in Matches(r) : Free(w, k),
             Step(w, [Idle EXCEPT !.op = "restore", !.at = "save", !.id = j,
                    !.held = held \cup Matches(r), !.put = [rows[j] EXCEPT !.deleted = FALSE]])
      PROVE  IInv'
  <2> DEFINE u == [Idle EXCEPT !.op = "restore", !.at = "save", !.id = j,
                    !.held = held \cup Matches(r), !.put = [rows[j] EXCEPT !.deleted = FALSE]]
  <2>1. /\ j \in Present /\ j \in Ids /\ rows[j] \in Row
        /\ Matches(r) \subseteq Ids
    BY <1>0, <1>2 DEF Matches, Present
  <2>2. u \in Task
    <3>1. [rows[j] EXCEPT !.deleted = FALSE] \in Row
      BY <2>1 DEF Row
    <3>2. QED  BY <1>0, <2>1, <3>1 DEF Idle, Task
  <2>3. u.put # None /\ u.put.parent = rows[j].parent /\ u.put.board = rows[j].board
    BY <2>1, CatalogAssumption DEF Idle, Row
  <2>4. scope = "tags" => u.put.parent = Root /\ u.put.board = "tag"
    BY <2>1, <2>3 DEF IInv, TagsFlat
  <2>5. Fits(u)
    <3>1. /\ u.op = "restore" /\ u.at = "save" /\ u.id = j /\ u.shared = {}
          /\ u.put = [rows[j] EXCEPT !.deleted = FALSE] /\ j \in u.held
      BY <1>2 DEF Idle
    <3>2. StagesFit(u) /\ PutFits(u)
      BY <1>2, <2>1, <2>3, <3>1 DEF StagesFit, PutFits
    <3>3. ParentFits(u) /\ KeyFits(u) /\ TagsFit(u)
      BY <2>3, <2>4, <3>1 DEF ParentFits, KeyFits, TagsFit
    <3>4. QED  BY <3>2, <3>3 DEF Fits
  <2>6. ASSUME NEW v \in Writers \ {w}
        PROVE  Apart(work[v], u)
    <3>1. /\ u.held = work[w].held \cup Matches(r) /\ u.shared = {} /\ u.op = "restore"
          /\ u.at = "save" /\ u.id = j
      BY DEF Idle
    <3>2. \A i \in Matches(r) : Free(w, i)
      BY <1>2
    <3>3. QED  BY <2>1, <2>2, <3>1, <3>2, LockApart
  <2>7. QED  BY <1>2, <2>2, <2>5, <2>6, GoesOn DEF Step, IInv, Typed
<1>3. QED  BY <1>1, <1>2 DEF Identify

LEMMA CreateOK ==
  ASSUME IInv, NEW w \in Writers,
         \/ \E n \in Names : CreateTag(w, n)
         \/ FindIdentity(w)
  PROVE  IInv'
<1>1. CASE \E n \in Names : CreateTag(w, n)
  <2>1. PICK n \in Names : CreateTag(w, n)
    BY <1>1
  <2>2. /\ Tag(n) \in Row /\ Tag(n).parent = Root /\ Tag(n).board = "tag"
        /\ AsksFit(Tag(n), {}) /\ work[w].held = {}
    BY <2>1 DEF Tag, Row, CreateTag, Idle, AsksFit
  <2>3. QED  BY <2>1, <2>2, IdentifyOK DEF CreateTag
<1>2. CASE FindIdentity(w)
  <2>1. work[w] \in Task /\ Fits(work[w])
    BY DEF IInv, Typed
  <2>2. work[w].op = "create"
    BY <1>2, <2>1 DEF FindIdentity, Fits, StagesFit, Task, Idle
  <2>3. work[w].put # None
    BY <2>1, <2>2 DEF Fits, StagesFit
  <2>4. /\ work[w].put \in Row /\ AsksFit(work[w].put, work[w].held)
        /\ scope = "tags" => work[w].put.parent = Root /\ work[w].put.board = "tag"
    BY <2>1, <2>2, <2>3 DEF Task, Fits, PutFits, ParentFits
  <2>5. QED  BY <1>2, <2>4, IdentifyOK DEF FindIdentity
<1>3. QED  BY <1>1, <1>2

LEMMA CreateCategoryOK ==
  ASSUME IInv, NEW w \in Writers, NEW r \in Row, ~r.deleted, r.board \in Boards,
         CreateCategory(w, r)
  PROVE  IInv'
<1>1. CASE r.parent = Root
  <2>1. Identify(w, r, {}) /\ work[w].held = {} /\ scope = "categories"
    BY <1>1 DEF CreateCategory, Idle
  <2>2. AsksFit(r, {})
    BY <1>1, CatalogAssumption DEF CreateCategory, AsksFit
  <2>3. QED  BY <2>1, <2>2, IdentifyOK
<1>2. CASE r.parent # Root
  <2> DEFINE t == [Idle EXCEPT !.op = "create", !.at = "identity", !.put = r,
                               !.held = {r.parent}]
  <2>1. Active(r.parent) /\ Free(w, r.parent) /\ Step(w, t) /\ scope = "categories"
    BY <1>2 DEF CreateCategory
  <2>2. t \in Task
    BY <2>1 DEF Idle, Task, Active, Present
  <2>3. Fits(t)
    <3>1. AsksFit(r, {r.parent})
      BY <1>2, <2>1, CatalogAssumption DEF CreateCategory, AsksFit, Active
    <3>2. r # None
      BY CatalogAssumption
    <3>3. QED
      BY <2>1, <3>1, <3>2 DEF Idle, Fits, StagesFit, PutFits, ParentFits, KeyFits, TagsFit
  <2>4. ASSUME NEW v \in Writers \ {w}
        PROVE  Apart(work[v], t)
    <3>1. /\ t.held \subseteq work[w].held \cup {r.parent}
          /\ t.shared \subseteq work[w].shared
          /\ t.op # "insert" /\ t.at # "commit" /\ t.id = None
      BY DEF Idle
    <3>2. \A i \in {r.parent} : Free(w, i)
      BY <2>1
    <3>3. QED  BY <2>2, <3>1, <3>2, LockApart
  <2>5. QED  BY <2>1, <2>2, <2>3, <2>4, GoesOn DEF Step, IInv, Typed
<1>3. QED  BY <1>1, <1>2

\* A transaction that begins with the lock of row i.
LEMMA BeginsOK ==
  ASSUME IInv, NEW w \in Writers, NEW i \in Present, Free(w, i),
         NEW t \in Task, Fits(t), Step(w, t),
         t.held = {i}, t.shared = {}, t.id = i, t.op # "insert",
         t.at # "commit" \/ t.put = None
  PROVE  IInv'
<1>1. ASSUME NEW v \in Writers \ {w}
      PROVE  Apart(work[v], t)
  BY LockApart
<1>2. QED  BY <1>1, GoesOn DEF Step, IInv, Typed

LEMMA LockedOK ==
  ASSUME IInv, NEW w \in Writers, NEW i \in Ids,
         \/ DeleteCategory(w, i) \/ RestoreCategory(w, i)
         \/ DeleteTag(w, i) \/ RestoreTag(w, i)
         \/ \E n \in Names : UpdateCategory(w, i, n) \/ UpdateTag(w, i, n)
         \/ \E b \in Boards : File(w, i, b)
  PROVE  IInv'
<1>1. /\ i \in Present /\ Free(w, i)
      /\ rows[i] \in Row /\ rows[i] # None
  BY CatalogAssumption
  DEF DeleteCategory, RestoreCategory, DeleteTag, RestoreTag, UpdateCategory, UpdateTag, File,
      Locks, IInv, Typed, Present
<1>2. scope = "tags" => rows[i].parent = Root /\ rows[i].board = "tag"
  BY <1>1 DEF IInv, TagsFlat
<1>3. CASE DeleteCategory(w, i) \/ DeleteTag(w, i)
  <2> DEFINE t == [Idle EXCEPT !.op = "delete", !.at = "remove", !.id = i, !.held = {i}]
  <2>1. t \in Task
    BY <1>1 DEF Idle, Task
  <2>2. Active(i) /\ Step(w, t)
    BY <1>3 DEF DeleteCategory, DeleteTag
  <2>3. Fits(t)
    BY <1>1, <2>2 DEF Idle, Fits, StagesFit, PutFits, ParentFits, KeyFits, TagsFit
  <2>4. QED  BY <1>1, <2>1, <2>2, <2>3, BeginsOK DEF Idle
<1>4. CASE RestoreCategory(w, i) \/ RestoreTag(w, i)
  <2> DEFINE put == [rows[i] EXCEPT !.deleted = FALSE]
             t(at) == [Idle EXCEPT !.op = "restore", !.at = at, !.id = i, !.held = {i}, !.put = put]
  <2>1. PICK at \in {"save", "parent"} : Step(w, t(at))
    <3>1. CASE RestoreTag(w, i)
      BY <3>1 DEF RestoreTag
    <3>2. CASE RestoreCategory(w, i)
      BY <3>2 DEF RestoreCategory, Idle
    <3>3. QED  BY <1>4, <3>1, <3>2
  <2>2. /\ put \in Row /\ put.parent = rows[i].parent /\ put.board = rows[i].board
        /\ rows[i].deleted
    BY <1>1, <1>4 DEF Row, RestoreCategory, RestoreTag
  <2>3. t(at) \in Task
    BY <1>1, <2>2 DEF Idle, Task
  <2>4. Fits(t(at))
    BY <1>1, <1>2, <2>2, CatalogAssumption
    DEF Idle, Fits, StagesFit, PutFits, ParentFits, KeyFits, TagsFit
  <2>5. QED  BY <1>1, <2>1, <2>3, <2>4, BeginsOK DEF Idle
<1>5. ASSUME NEW n \in Names, UpdateCategory(w, i, n) \/ UpdateTag(w, i, n)
      PROVE  IInv'
  <2> DEFINE put == [rows[i] EXCEPT !.name = n]
             t == [Idle EXCEPT !.op = "rename", !.at = "save", !.id = i, !.held = {i}, !.put = put]
  <2>1. Active(i) /\ Step(w, t)
    BY <1>5 DEF UpdateCategory, UpdateTag
  <2>2. put \in Row /\ put.parent = rows[i].parent /\ put.board = rows[i].board /\ put.name = n
    BY <1>1 DEF Row
  <2>3. t \in Task
    BY <1>1, <2>2 DEF Idle, Task
  <2>4. Fits(t)
    BY <1>1, <1>2, <2>1, <2>2, CatalogAssumption
    DEF Idle, Fits, StagesFit, PutFits, ParentFits, KeyFits, TagsFit
  <2>5. QED  BY <1>1, <2>1, <2>3, <2>4, BeginsOK DEF Idle
<1>6. ASSUME NEW b \in Boards, File(w, i, b)
      PROVE  IInv'
  <2> DEFINE t == [Idle EXCEPT !.op = "file", !.at = "commit", !.id = i, !.type = b,
                               !.held = {i}]
  <2>1. Active(i) /\ rows[i].board = b /\ Step(w, t)
    BY <1>6 DEF File
  <2>2. t \in Task
    BY <1>1 DEF Idle, Task
  <2>3. Fits(t)
    BY <1>1, <2>1 DEF Idle, Fits, StagesFit, PutFits, ParentFits, KeyFits, TagsFit
  <2>4. QED  BY <1>1, <2>1, <2>2, <2>3, BeginsOK DEF Idle
<1>7. QED  BY <1>3, <1>4, <1>5, <1>6

-----------------------------------------------------------------------------
(* Transactions go on.                                                     *)

\* What the invariant says of one transaction.
LEMMA Mine ==
  ASSUME IInv, NEW w \in Writers
  PROVE  /\ Typed /\ work[w] \in Task
         /\ StagesFit(work[w]) /\ PutFits(work[w]) /\ ParentFits(work[w])
         /\ KeyFits(work[w]) /\ TagsFit(work[w])
         /\ \A v \in Writers \ {w} : Apart(work[v], work[w])
  BY DEF IInv, Typed, Fits

\* Two transactions never work on one row.
LEMMA RowsApart ==
  ASSUME IInv, NEW v \in Writers, NEW w \in Writers, v # w,
         work[v].op \in {"insert", "restore", "rename", "delete", "file"},
         work[w].op \in {"insert", "restore", "rename", "delete", "file"}
  PROVE  work[v].id # work[w].id
<1>1. Apart(work[v], work[w]) /\ PutFits(work[v]) /\ PutFits(work[w])
  BY Mine
<1>2. QED  BY <1>1 DEF Apart, PutFits

\* A row that keeps its key keeps it for itself.
LEMMA KeyKept ==
  ASSUME IInv, NEW w \in Writers, work[w].op \in {"restore", "delete"},
         NEW put \in Row, Key(put) = Key(rows[work[w].id])
  PROVE  /\ \A i \in Present \ {work[w].id} : Key(rows[i]) # Key(put)
         /\ \A v \in Writers \ {w} :
              work[v].at = "commit" /\ work[v].put # None => Key(work[v].put) # Key(put)
<1>1. work[w].id \in Present
  BY Mine DEF PutFits
<1>2. \A i \in Present \ {work[w].id} : Key(rows[i]) # Key(put)
  BY <1>1 DEF IInv, TreeSound
<1>3. ASSUME NEW v \in Writers \ {w}, work[v].at = "commit", work[v].put # None
      PROVE  Key(work[v].put) # Key(put)
  <2>1. work[v].op \in {"insert", "restore", "rename", "delete"}
    BY <1>3, Mine DEF StagesFit, Task
  <2>2. work[v].id # work[w].id
    BY <2>1, RowsApart
  <2>3. KeyFits(work[v])
    BY Mine
  <2>4. QED  BY <1>1, <1>3, <2>2, <2>3 DEF KeyFits
<1>4. QED  BY <1>2, <1>3

LEMMA LockParentOK ==
  ASSUME IInv, NEW w \in Writers, LockParent(w)
  PROVE  IInv'
<1> DEFINE p == work[w].put.parent
           t == [work[w] EXCEPT !.at = "save", !.held = @ \cup {p}]
<1>1. /\ work[w].at = "parent" /\ Active(p) /\ Free(w, p)
      /\ Step(w, t)
  BY DEF LockParent
<1>2. work[w].op = "restore"
  BY <1>1, Mine DEF StagesFit, Task, Idle
<1>3. t \in Task
  BY <1>1, Mine DEF Task, Active, Present
<1>4. Fits(t)
  BY <1>2, <1>3, Mine DEF Fits, Task, StagesFit, PutFits, ParentFits, KeyFits, TagsFit
<1>5. ASSUME NEW v \in Writers \ {w}
      PROVE  Apart(work[v], t)
  <2>1. /\ t.held \subseteq work[w].held \cup {p}
        /\ t.shared \subseteq work[w].shared
        /\ t.op # "insert" /\ t.at # "commit"
        /\ t.id \in Present
    BY <1>2, Mine DEF Task, PutFits
  <2>2. \A i \in {p} : Free(w, i)
    BY <1>1
  <2>3. QED  BY <1>3, <2>1, <2>2, LockApart
<1>6. QED  BY <1>1, <1>3, <1>4, <1>5, GoesOn, Mine DEF Step, Typed

LEMMA TagsOK ==
  ASSUME IInv, NEW w \in Writers,
         (\E wanted \in SUBSET Ids : ReplaceTags(w, wanted)) \/ Resolve(w) \/ Share(w)
  PROVE  IInv'
<1>1. ASSUME NEW wanted \in SUBSET Ids, ReplaceTags(w, wanted)
      PROVE  IInv'
  <2> DEFINE t == [Idle EXCEPT !.op = "tag", !.at = "resolve", !.wanted = wanted,
                               !.held = {TheTransaction}]
  <2>1. Step(w, t) /\ Free(w, TheTransaction) /\ scope = "tags"
    BY <1>1 DEF ReplaceTags
  <2>2. t \in Task
    BY DEF Idle, Task
  <2>3. Fits(t)
    BY <2>1 DEF Idle, Fits, StagesFit, PutFits, ParentFits, KeyFits, TagsFit
  <2>4. ASSUME NEW v \in Writers \ {w}
        PROVE  Apart(work[v], t)
    <3>1. /\ t.held \subseteq work[w].held \cup {TheTransaction}
          /\ t.shared \subseteq work[w].shared
          /\ t.op # "insert" /\ t.at # "commit" /\ t.id = None
      BY DEF Idle
    <3>2. \A i \in {TheTransaction} : Free(w, i)
      BY <2>1
    <3>3. QED  BY <2>2, <3>1, <3>2, LockApart
  <2>5. QED  BY <2>1, <2>2, <2>3, <2>4, GoesOn, Mine DEF Step, Typed
<1>2. ASSUME NEW t \in Task, Step(w, t), work[w].at \in {"resolve", "share"},
             \/ t = [work[w] EXCEPT !.at = "share"]
             \/ t = [work[w] EXCEPT !.at = "commit"] /\ work[w].wanted = work[w].shared
             \/ \E g \in Ids : /\ Active(g) /\ Sharable(w, g) /\ work[w].at = "share"
                               /\ t = [work[w] EXCEPT !.shared = @ \cup {g}]
      PROVE  IInv'
  <2>1. work[w].op = "tag" /\ work[w].put = None
    BY <1>2, Mine DEF StagesFit, Task, Idle
  <2>2. /\ t.op = "tag" /\ t.put = None /\ t.held = work[w].held
        /\ t.id = work[w].id /\ t.at \in {"share", "commit"}
        /\ t.at = "commit" => t.wanted = t.shared
        /\ \A g \in t.shared : g \in work[w].shared \/ (Active(g) /\ Sharable(w, g))
    BY <1>2, <2>1, Mine DEF Task
  <2>3. Fits(t)
    BY <2>1, <2>2, Mine DEF Fits, StagesFit, PutFits, ParentFits, KeyFits, TagsFit, Idle
  <2>4. ASSUME NEW v \in Writers \ {w}
        PROVE  Apart(work[v], t)
    BY <2>1, <2>2, Mine DEF Apart, Sharable
  <2>5. QED  BY <1>2, <2>3, <2>4, GoesOn, Mine DEF Step, Typed
<1>3. CASE Resolve(w)
  <2>1. [work[w] EXCEPT !.at = "share"] \in Task
    BY Mine DEF Task
  <2>2. QED  BY <1>2, <1>3, <2>1 DEF Resolve
<1>4. CASE Share(w)
  <2>1. [work[w] EXCEPT !.at = "commit"] \in Task
    BY Mine DEF Task
  <2>2. \A g \in Ids : [work[w] EXCEPT !.shared = @ \cup {g}] \in Task
    BY Mine DEF Task
  <2>3. work[w].wanted \subseteq Ids
    BY Mine DEF Task
  <2>4. QED  BY <1>2, <1>4, <2>1, <2>2, <2>3 DEF Share
<1>5. QED  BY <1>1, <1>3, <1>4

LEMMA SaveTagOK ==
  ASSUME IInv, NEW w \in Writers, SaveTag(w)
  PROVE  IInv'
<1> DEFINE t == [work[w] EXCEPT !.at = Written(w)]
<1>1. scope = "tags" /\ work[w].at = "save" /\ Step(w, t)
  BY DEF SaveTag
<1>2. /\ work[w].op \in {"insert", "restore", "rename"} /\ work[w].put # None
      /\ work[w].put \in Row /\ work[w].put.parent = Root
  BY <1>1, Mine DEF StagesFit, ParentFits, Task, Idle
<1>3. t \in Task /\ Written(w) = IF work[w].op = "restore" THEN "commit" ELSE "index"
  BY Mine DEF Task, Written
<1>4. work[w].op = "restore" => Key(work[w].put) = Key(rows[work[w].id])
  BY <1>2, Mine DEF PutFits, Key, Typed, Present, Row
<1>5. Fits(t)
  BY <1>2, <1>3, <1>4, KeyKept, Mine
  DEF Fits, Task, StagesFit, PutFits, ParentFits, KeyFits, TagsFit, Idle
<1>6. ASSUME NEW v \in Writers \ {w}
      PROVE  Apart(work[v], t)
  <2>1. /\ t.held = work[w].held /\ t.shared = work[w].shared /\ t.op = work[w].op
        /\ t.id = work[w].id /\ t.put = work[w].put
        /\ t.at = "commit" => work[w].op = "restore"
    BY <1>3, Mine DEF Task
  <2>2. QED  BY <1>2, <1>4, <2>1, KeyKept, Mine DEF Apart
<1>7. QED  BY <1>1, <1>3, <1>5, <1>6, GoesOn, Mine DEF Step, Typed

LEMMA SaveCategoryOK ==
  ASSUME IInv, NEW w \in Writers, SaveCategory(w)
  PROVE  IInv'
<1> DEFINE p == work[w].put.parent
           t == [work[w] EXCEPT !.at = Written(w), !.held = @ \cup ({p} \ {Root})]
<1>1. /\ scope = "categories" /\ work[w].at = "save" /\ Step(w, t)
      /\ p # Root => /\ Active(p) /\ Free(w, p)
                     /\ rows[p].board = work[w].put.board
                     /\ ReachesRoot(p)
  BY DEF SaveCategory
<1>2. /\ work[w].op \in {"insert", "restore", "rename"} /\ work[w].put # None
      /\ work[w].put \in Row
  BY <1>1, Mine DEF StagesFit, Task, Idle
<1>3. t \in Task /\ Written(w) = IF work[w].op = "restore" THEN "commit" ELSE "index"
  <2>1. p \in Ids \cup {Root}
    BY <1>2 DEF Row
  <2>2. QED  BY <2>1, Mine DEF Task, Written
<1>4. work[w].op = "restore" => Key(work[w].put) = Key(rows[work[w].id])
  BY <1>2, Mine DEF PutFits, Key, Typed, Present, Row
<1>5. /\ t.held = work[w].held \cup ({p} \ {Root}) /\ t.shared = work[w].shared
      /\ t.op = work[w].op /\ t.id = work[w].id /\ t.put = work[w].put
      /\ t.wanted = work[w].wanted
      /\ t.at = IF work[w].op = "restore" THEN "commit" ELSE "index"
  BY <1>3, Mine DEF Task
<1>6. Fits(t)
  <2>1. StagesFit(t) /\ PutFits(t) /\ TagsFit(t)
    BY <1>2, <1>5, Mine DEF StagesFit, PutFits, AsksFit, TagsFit, Idle
  <2>2. ParentFits(t)
    BY <1>1, <1>2, <1>5, Mine DEF ParentFits
  <2>3. KeyFits(t)
    BY <1>2, <1>4, <1>5, KeyKept DEF KeyFits
  <2>4. QED  BY <2>1, <2>2, <2>3 DEF Fits
<1>7. ASSUME NEW v \in Writers \ {w}
      PROVE  Apart(work[v], t)
  <2>1. p # Root => p \notin work[v].held \cup work[v].shared
    BY <1>1 DEF Free
  <2>2. QED  BY <1>2, <1>4, <1>5, <2>1, KeyKept, Mine DEF Apart
<1>8. QED  BY <1>1, <1>3, <1>6, <1>7, GoesOn, Mine DEF Step, Typed

\* The unique index lets a key in that nobody has or is about to have.
LEMMA EnterOK ==
  ASSUME IInv, NEW w \in Writers, Enter(w)
  PROVE  IInv'
<1> DEFINE t == [work[w] EXCEPT !.at = "commit"]
<1>1. /\ work[w].at = "index" /\ Owners(w) = {} /\ Step(w, t)
      /\ \A i \in Present \ {work[w].id} : Key(rows[i]) # Key(work[w].put)
  BY DEF Enter
<1>2. t \in Task
  BY Mine DEF Task
<1>3. /\ t.held = work[w].held /\ t.shared = work[w].shared /\ t.op = work[w].op
      /\ t.id = work[w].id /\ t.put = work[w].put /\ t.at = "commit"
      /\ t.wanted = work[w].wanted
  BY Mine DEF Task
<1>4. work[w].op \in {"insert", "rename"}
  BY <1>1, Mine DEF StagesFit, Task, Idle
<1>5. Fits(t)
  BY <1>1, <1>3, <1>4, Mine DEF Fits, StagesFit, PutFits, ParentFits, KeyFits, TagsFit
<1>6. ASSUME NEW v \in Writers \ {w}
      PROVE  Apart(work[v], t)
  <2>1. work[v].at = "commit" /\ work[v].put # None => Key(work[v].put) # Key(work[w].put)
    BY <1>1 DEF Owners
  <2>2. QED  BY <1>3, <2>1, Mine DEF Apart
<1>7. QED  BY <1>1, <1>2, <1>5, <1>6, GoesOn, Mine DEF Step, Typed

\* A category without children in use, or a tag, is about to be deleted.
LEMMA SoftDeleteOK ==
  ASSUME IInv, NEW w \in Writers, SoftDelete(w) \/ SoftDeleteTag(w)
  PROVE  IInv'
<1> DEFINE put == [rows[work[w].id] EXCEPT !.deleted = TRUE]
           t == [work[w] EXCEPT !.at = "commit", !.put = put]
<1>1. work[w].at = "remove" /\ Step(w, t)
  BY DEF SoftDelete, SoftDeleteTag
<1>2. work[w].op = "delete"
  BY <1>1, Mine DEF StagesFit, Task, Idle
<1>3. Active(work[w].id) /\ work[w].id \in Ids /\ rows[work[w].id] \in Row
  BY <1>2, Mine DEF PutFits, Active, Present, Typed
<1>4. /\ put \in Row /\ put # None /\ put.parent = rows[work[w].id].parent
      /\ Key(put) = Key(rows[work[w].id])
  BY <1>3, CatalogAssumption DEF Row, Key
<1>5. t \in Task
  BY <1>4, Mine DEF Task
<1>6. /\ t.held = work[w].held /\ t.shared = work[w].shared /\ t.op = "delete"
      /\ t.id = work[w].id /\ t.put = put /\ t.at = "commit"
      /\ t.wanted = work[w].wanted
  BY <1>2, Mine DEF Task
<1>7. \A i \in Ids : Active(i) => rows[i].parent # work[w].id
  <2>1. CASE SoftDelete(w)
    BY <2>1 DEF SoftDelete
  <2>2. CASE SoftDeleteTag(w)
    BY <1>3, <2>2, CatalogAssumption DEF SoftDeleteTag, IInv, TagsFlat, Active, Ids, Root
  <2>3. QED  BY <2>1, <2>2
<1>8. Fits(t)
  <2>1. StagesFit(t) /\ TagsFit(t)
    BY <1>2, <1>4, <1>6, Mine DEF StagesFit, TagsFit
  <2>2. PutFits(t)
    BY <1>2, <1>6, <1>7, Mine DEF PutFits
  <2>3. ParentFits(t)
    <3>1. put.board = rows[work[w].id].board
      BY <1>3 DEF Row
    <3>2. QED  BY <1>3, <1>4, <1>6, <3>1 DEF ParentFits, IInv, TagsFlat, Active
  <2>4. KeyFits(t)
    BY <1>2, <1>4, <1>6, KeyKept DEF KeyFits
  <2>5. QED  BY <2>1, <2>2, <2>3, <2>4 DEF Fits
<1>9. ASSUME NEW v \in Writers \ {w}
      PROVE  Apart(work[v], t)
  BY <1>2, <1>4, <1>6, KeyKept, Mine DEF Apart
<1>10. QED  BY <1>1, <1>5, <1>8, <1>9, GoesOn, Mine DEF Step, Typed

-----------------------------------------------------------------------------
(* The commit of a row.                                                    *)

\* What a commit does to the rows.
LEMMA RowCommitted ==
  ASSUME IInv, NEW w \in Writers, CommitRow(w)
  PROVE  /\ work[w].op \in {"insert", "restore", "rename", "delete"}
         /\ work[w].id \in Ids /\ work[w].put \in Row /\ work[w].put # None
         /\ \A i \in Ids : rows'[i] = IF i = work[w].id THEN work[w].put ELSE rows[i]
         /\ Present' = Present \cup {work[w].id}
         /\ \A i : Active(i)' <=> IF i = work[w].id THEN ~work[w].put.deleted ELSE Active(i)
         /\ work[w].put.deleted <=> work[w].op = "delete"
         /\ work[w].op # "insert" =>
               /\ work[w].id \in Present /\ work[w].id \in work[w].held
               /\ work[w].put.board = rows[work[w].id].board
               /\ work[w].put.parent = rows[work[w].id].parent
               /\ work[w].put.template = rows[work[w].id].template
         /\ work[w].op = "insert" => work[w].id \notin Present
<1>1. work[w].at = "commit" /\ work[w].put # None /\ rows' = [rows EXCEPT ![work[w].id] = work[w].put]
  BY DEF CommitRow
<1>2. /\ work[w].op \in {"insert", "restore", "rename", "delete"}
      /\ work[w].put \in Row
  BY <1>1, Mine DEF StagesFit, Task, Idle
<1>3. PutFits(work[w]) /\ rows \in [Ids -> Row \cup {None}]
  BY Mine DEF Typed
<1>4. work[w].id \in Ids
  BY <1>2, <1>3 DEF PutFits, Present
<1>5. \A i \in Ids : rows'[i] = IF i = work[w].id THEN work[w].put ELSE rows[i]
  BY <1>1, <1>3
<1>6. Present' = Present \cup {work[w].id}
  BY <1>1, <1>4, <1>5 DEF Present
<1>7. \A i : Active(i)' <=> IF i = work[w].id THEN ~work[w].put.deleted ELSE Active(i)
  BY <1>4, <1>5, <1>6 DEF Active, Present
<1>8. work[w].op # "insert" =>
        /\ work[w].id \in Present /\ work[w].id \in work[w].held
        /\ rows[work[w].id] \in Row
  BY <1>2, <1>3 DEF PutFits, Present
<1>9. /\ work[w].put.deleted <=> work[w].op = "delete"
      /\ work[w].op # "insert" =>
            /\ work[w].put.board = rows[work[w].id].board
            /\ work[w].put.parent = rows[work[w].id].parent
            /\ work[w].put.template = rows[work[w].id].template
  BY <1>1, <1>2, <1>3, <1>8 DEF PutFits, AsksFit, Row, Active
<1>10. work[w].op = "insert" => work[w].id \notin Present
  BY <1>3 DEF PutFits
<1>11. QED  BY <1>1, <1>2, <1>4, <1>5, <1>6, <1>7, <1>8, <1>9, <1>10

LEMMA TreeCommitted ==
  ASSUME IInv, NEW w \in Writers, CommitRow(w)
  PROVE  TreeSound' /\ TagsFlat'
<1> DEFINE k == work[w].id
           put == work[w].put
<1>0. /\ work[w].at = "commit" /\ scope' = scope /\ scope \in {"categories", "tags"}
      /\ TreeSound /\ TagsFlat
      /\ StagesFit(work[w]) /\ PutFits(work[w]) /\ ParentFits(work[w]) /\ KeyFits(work[w])
      /\ put.parent \in Ids \cup {Root} /\ Present \subseteq Ids
  BY Mine, RowCommitted DEF CommitRow, IInv, Typed, Row, Present
<1>1. TagsFlat'
  BY <1>0, RowCommitted DEF TagsFlat, ParentFits, Present
<1>2. ASSUME put.parent # Root
      PROVE  /\ put.parent \in Present
             /\ rows[put.parent].board = put.board
             /\ ~put.deleted => Active(put.parent)
  <2>1. CASE work[w].op = "delete"
    BY <1>0, <1>2, <2>1, RowCommitted DEF TreeSound
  <2>2. CASE work[w].op # "delete"
    BY <1>0, <1>2, <2>2, RowCommitted DEF ParentFits, Active
  <2>3. QED  BY <2>1, <2>2
<1>3. ASSUME NEW i \in Present \ {k}, rows[i].parent # Root
      PROVE  /\ rows[i].parent \in Present'
             /\ rows'[rows[i].parent].board = rows[i].board
             /\ Active(i) => Active(rows[i].parent)'
  <2>1. /\ rows[i].parent \in Present
        /\ rows[rows[i].parent].board = rows[i].board
        /\ Active(i) => Active(rows[i].parent)
    BY <1>0, <1>3 DEF TreeSound
  <2>2. CASE rows[i].parent # k
    BY <1>0, <2>1, <2>2, RowCommitted
  <2>3. CASE rows[i].parent = k
    <3>1. work[w].op # "insert" /\ put.board = rows[k].board
      BY <2>1, <2>3, RowCommitted
    <3>2. Active(i) => ~put.deleted
      BY <1>0, <2>3, RowCommitted DEF PutFits
    <3>3. QED  BY <1>0, <2>1, <2>3, <3>1, <3>2, RowCommitted
  <2>4. QED  BY <2>2, <2>3
<1>4. ASSUME NEW i \in Present', rows'[i].parent # Root
      PROVE  /\ rows'[i].parent \in Present'
             /\ rows'[rows'[i].parent].board = rows'[i].board
             /\ Active(i)' => Active(rows[i].parent)'
  <2>1. CASE i = k
    BY <1>0, <1>2, <1>4, <2>1, RowCommitted
  <2>2. CASE i # k
    BY <1>0, <1>3, <1>4, <2>2, RowCommitted
  <2>3. QED  BY <2>1, <2>2
<1>5. ASSUME NEW i \in Present', NEW j \in Present', i # j
      PROVE  Key(rows'[i]) # Key(rows'[j])
  <2>1. \A n \in Present \ {k} : Key(rows[n]) # Key(put)
    BY <1>0, RowCommitted DEF KeyFits
  <2>2. \A m \in Present, n \in Present : m # n => Key(rows[m]) # Key(rows[n])
    BY <1>0 DEF TreeSound
  <2>3. QED  BY <1>0, <1>5, <2>1, <2>2, RowCommitted
<1>6. \A i \in Present' : rows'[i].parent # Root =>
             /\ rows'[i].parent \in Present'
             /\ rows'[rows'[i].parent].board = rows'[i].board
             /\ Active(i)' => Active(rows[i].parent)'
  BY <1>4
<1>7. \A i \in Present' : \A j \in Present' \ {i} : Key(rows'[i]) # Key(rows'[j])
  BY <1>5
<1>8. TreeSound'
  BY <1>6, <1>7 DEF TreeSound, Key, Active
<1>9. QED  BY <1>1, <1>8

\* A new row has one ancestor more than its parent, and the others keep theirs.
LEMMA ShallowCommitted ==
  ASSUME IInv, NEW w \in Writers, CommitRow(w)
  PROVE  Shallow'
<1> PICK k, put : k = work[w].id /\ put = work[w].put
  OBVIOUS
<1>0. /\ work[w].at = "commit" /\ put # None /\ k \in Ids /\ put \in Row
      /\ ParentFits(work[w]) /\ Present \subseteq Ids /\ MaxDepth \in Nat /\ MaxDepth >= 2
  BY Mine, RowCommitted, CatalogAssumption DEF CommitRow, Present
<1>1. ASSUME NEW i \in Present
      PROVE  i \in Present' /\ rows'[i].parent = rows[i].parent
  <2>1. CASE i = k
    <3>1. work[w].op # "insert" /\ rows'[k] = put
      BY <1>0, <2>1, RowCommitted
    <3>2. put.parent = rows[k].parent /\ k \in Present'
      BY <3>1, RowCommitted
    <3>3. QED  BY <2>1, <3>1, <3>2
  <2>2. CASE i # k
    BY <1>0, <2>2, RowCommitted
  <2>3. QED  BY <2>1, <2>2
<1>2. ASSUME NEW i \in Present
      PROVE  (\E n \in 0..MaxDepth : \E up \in [0..n -> Ids \cup {Root}] : Ancestry(i, n, up))'
  <2>1. PICK n \in 0..MaxDepth : \E up \in [0..n -> Ids \cup {Root}] : Ancestry(i, n, up)
    BY DEF IInv, Shallow
  <2>5. PICK up \in [0..n -> Ids \cup {Root}] : Ancestry(i, n, up)
    BY <2>1
  <2>2. Ancestry(i, n, up)'
    BY <1>1, <2>5 DEF Ancestry
  <2>3. QED  BY <2>2
<1>3. ASSUME k \notin Present
      PROVE  (\E n \in 0..MaxDepth : \E up \in [0..n -> Ids \cup {Root}] : Ancestry(k, n, up))'
  <2>1. k \in Present' /\ rows'[k] = put /\ work[w].op = "insert"
    BY <1>0, <1>3, RowCommitted
  <2>2. CASE put.parent = Root
    <3> DEFINE up == [j \in 0..1 |-> IF j = 0 THEN k ELSE Root]
    <3>1. up \in [0..1 -> Ids \cup {Root}] /\ up[0] = k /\ up[1] = Root
      BY <1>0
    <3>2. \A j \in 0..(1 - 1) : up[j] \in Present' /\ up[j + 1] = rows'[up[j]].parent
      BY <2>1, <2>2
    <3>3. Ancestry(k, 1, up)'
      BY <3>1, <3>2 DEF Ancestry
    <3>4. 1 \in 0..MaxDepth
      BY <1>0
    <3>5. QED  BY <3>1, <3>3, <3>4
  <2>3. CASE put.parent # Root
    <3>1. ReachesRoot(put.parent)
      BY <1>0, <2>1, <2>3 DEF ParentFits
    <3>7. PICK n \in 0..(MaxDepth - 1) : \E up \in [0..n -> Ids \cup {Root}] :
            /\ up[0] = put.parent /\ up[n] = Root
            /\ \A j \in 0..(n - 1) : Active(up[j]) /\ up[j + 1] = rows[up[j]].parent
      BY <3>1 DEF ReachesRoot
    <3>2. PICK up \in [0..n -> Ids \cup {Root}] :
            /\ up[0] = put.parent /\ up[n] = Root
            /\ \A j \in 0..(n - 1) : Active(up[j]) /\ up[j + 1] = rows[up[j]].parent
      BY <3>7
    <3> DEFINE m == n + 1
               down == [j \in 0..m |-> IF j = 0 THEN k ELSE up[j - 1]]
    <3>3. m \in 0..MaxDepth /\ down \in [0..m -> Ids \cup {Root}]
          /\ down[0] = k /\ down[m] = Root
      BY <1>0, <3>2
    <3>4. ASSUME NEW j \in 0..(m - 1)
          PROVE  down[j] \in Present' /\ down[j + 1] = rows'[down[j]].parent
      <4>1. CASE j = 0
        <5>1. down[j] = k /\ down[j + 1] = up[0]
          BY <4>1, <3>2
        <5>2. QED  BY <2>1, <3>2, <5>1
      <4>2. CASE j # 0
        <5>1. /\ j - 1 \in 0..(n - 1) /\ down[j] = up[j - 1]
              /\ down[j + 1] = up[j] /\ (j - 1) + 1 = j
          BY <4>2, <3>2
        <5>2. up[j - 1] \in Present /\ up[j] = rows[up[j - 1]].parent
          BY <3>2, <5>1 DEF Active
        <5>3. QED  BY <1>1, <5>1, <5>2
      <4>3. QED  BY <4>1, <4>2
    <3>5. Ancestry(k, m, down)'
      BY <3>3, <3>4 DEF Ancestry
    <3>6. QED  BY <3>3, <3>5
  <2>4. QED  BY <2>2, <2>3
<1>4. Present' = Present \cup {k}
  BY RowCommitted
<1>5. QED  BY <1>2, <1>3, <1>4 DEF Shallow

\* The parent that a transaction locked stays where its walk found it.
LEMMA WalkKept ==
  ASSUME IInv, NEW w \in Writers, CommitRow(w), NEW p \in Ids, ReachesRoot(p),
         p # work[w].id \/ work[w].op # "delete"
  PROVE  ReachesRoot(p)'
<1>0. PICK n \in 0..(MaxDepth - 1) : \E up \in [0..n -> Ids \cup {Root}] :
        /\ up[0] = p /\ up[n] = Root
        /\ \A j \in 0..(n - 1) : Active(up[j]) /\ up[j + 1] = rows[up[j]].parent
  BY DEF ReachesRoot
<1>1. PICK up \in [0..n -> Ids \cup {Root}] :
        /\ up[0] = p /\ up[n] = Root
        /\ \A j \in 0..(n - 1) : Active(up[j]) /\ up[j + 1] = rows[up[j]].parent
  BY <1>0
<1>2. ASSUME NEW j \in 0..(n - 1)
      PROVE  Active(up[j])' /\ up[j + 1] = rows'[up[j]].parent
  <2>1. /\ Active(up[j]) /\ up[j] \in Present /\ up[j] \in Ids
        /\ up[j + 1] = rows[up[j]].parent
    BY <1>1 DEF Active, Present
  <2>2. up[j] = work[w].id => work[w].op # "delete"
    <3>1. CASE j = 0
      BY <1>1, <3>1
    <3>2. CASE j # 0
      <4>1. j - 1 \in 0..(n - 1) /\ (j - 1) + 1 = j
        BY <1>1, <3>2
      <4>2. Active(up[j - 1]) /\ rows[up[j - 1]].parent = up[j] /\ up[j - 1] \in Ids
        BY <1>1, <4>1 DEF Active, Present
      <4>3. work[w].op = "delete" => \A i \in Ids : Active(i) => rows[i].parent # work[w].id
        BY Mine DEF CommitRow, PutFits
      <4>4. QED  BY <4>2, <4>3
    <3>3. QED  BY <3>1, <3>2
  <2>3. QED  BY <2>1, <2>2, RowCommitted
<1>3. QED  BY <1>1, <1>2 DEF ReachesRoot

\* Another transaction's row, parent, tags and key are none of the committed row.
LEMMA OthersFit ==
  ASSUME IInv, NEW w \in Writers, CommitRow(w), NEW v \in Writers \ {w}
  PROVE  Fits(work[v])'
<1> DEFINE k == work[w].id
           put == work[w].put
           t == work[v]
<1>0. /\ work'[v] = t /\ scope' = scope /\ work[w].at = "commit"
      /\ t \in Task /\ Present \subseteq Ids
      /\ Apart(t, work[w])
      /\ put.parent \in Ids \cup {Root}
  BY Mine, RowCommitted DEF CommitRow, Typed, Row, Present
<1>1. \A i \in Present : i \in t.held \cup t.shared => i # k
  BY <1>0, RowCommitted DEF Apart
<1>2. t.op \in {"insert", "restore", "rename", "delete", "file"} => t.id # k
  BY RowsApart, RowCommitted
<1>3. StagesFit(work[v])'
  BY <1>0, Mine DEF StagesFit, Idle
<1>4. PutFits(work[v])'
  <2>1. PutFits(t)
    BY Mine
  <2>2. t.op \in {"restore", "rename", "delete", "file"} =>
          t.id \in Present' /\ rows'[t.id] = rows[t.id] /\ (Active(t.id) => Active(t.id)')
    BY <1>0, <1>2, <2>1, RowCommitted DEF PutFits
  <2>3. t.op = "insert" => t.id \in Ids \ Present'
    BY <1>2, <2>1, RowCommitted DEF PutFits
  <2>4. ASSUME t.op = "delete", t.at = "commit", NEW i \in Ids, Active(i)'
        PROVE  rows'[i].parent # t.id
    <3>1. t.id \in Ids /\ t.id \in t.held
      BY <1>0, <2>1, <2>4 DEF PutFits
    <3>2. CASE i # k
      BY <2>1, <2>4, <3>2, RowCommitted DEF PutFits
    <3>3. CASE i = k
      <4>1. put.parent = Root \/ put.parent \in work[w].held
        BY <1>0, <2>4, <3>3, Mine, RowCommitted DEF ParentFits, Typed
      <4>2. put.parent # t.id
        BY <1>0, <3>1, <4>1, CatalogAssumption DEF Apart, Ids, Root
      <4>3. QED  BY <3>3, <4>2, RowCommitted
    <3>4. QED  BY <3>2, <3>3
  <2>5. t.op \in {"create", "insert"} /\ t.put.parent # Root =>
          t.put.parent \in Present' /\ rows'[t.put.parent] = rows[t.put.parent]
    <3>1. t.op \in {"create", "insert"} /\ t.put.parent # Root =>
            t.put.parent \in Present /\ t.put.parent \in t.held
      BY <2>1 DEF PutFits, AsksFit
    <3>2. QED  BY <1>0, <1>1, <3>1, RowCommitted
  <2>6. ASSUME t.op = "insert", t.put.template # None, t.put.parent # Root, NEW i \in Present'
        PROVE  ~/\ rows'[i].template = t.put.template
                /\ rows'[i].parent = t.put.parent
                /\ rows'[i].board = t.put.board
    <3> SUFFICES ASSUME rows'[i].template = t.put.template, rows'[i].parent = t.put.parent,
                        rows'[i].board = t.put.board
                 PROVE  FALSE
      OBVIOUS
    <3>1. \A j \in Present : ~Activates(j, t.put)
      BY <2>1, <2>6 DEF PutFits
    <3>2. i = k
      <4>1. CASE i \in Present /\ i # k
        <5>1. rows'[i] = rows[i]
          BY <1>0, <4>1, RowCommitted
        <5>2. QED  BY <3>1, <4>1, <5>1 DEF Activates
      <4>2. QED  BY <2>6, <4>1, RowCommitted
    <3>3. put.template = t.put.template /\ put.parent = t.put.parent /\ put.board = t.put.board
      BY <3>2, RowCommitted
    <3>4. work[w].op = "insert"
      <4>1. k \notin Present
        <5>1. SUFFICES ASSUME k \in Present
                       PROVE  FALSE
          OBVIOUS
        <5>2. Activates(k, t.put)
          BY <3>3, <5>1, RowCommitted DEF Activates
        <5>3. QED  BY <3>1, <5>1, <5>2
      <4>2. QED  BY <4>1, RowCommitted
    <3>5. put.parent \in work[w].held /\ put.parent \in t.held
      BY <2>1, <2>6, <3>3, <3>4, Mine DEF PutFits, AsksFit
    <3>6. QED  BY <1>0, <3>5 DEF Apart
  <2>7. PutFits(work[v])'
    <3>1. t.op \in {"create", "insert"} => AsksFit(t.put, t.held)
      BY <2>1 DEF PutFits
    <3>2. t.op \in {"create", "insert"} => AsksFit(work[v].put, work[v].held)'
      BY <1>0, <2>5, <3>1 DEF AsksFit
    <3>3. t.op = "insert" /\ t.put.template # None /\ t.put.parent # Root =>
            \A i \in Present' : ~Activates(i, work[v].put)'
      BY <1>0, <2>6 DEF Activates
    <3>4. QED
      BY <1>0, <2>1, <2>2, <2>3, <2>4, <3>2, <3>3 DEF PutFits
  <2>8. QED  BY <2>7
<1>5. ParentFits(work[v])'
  <2>1. ParentFits(t)
    BY Mine
  <2>2. ASSUME t.put # None, t.at \in {"index", "commit"}, t.op # "delete",
               t.put.parent # Root
        PROVE  /\ t.put.parent \in t.held
               /\ Active(t.put.parent)'
               /\ rows'[t.put.parent].board = t.put.board
               /\ ReachesRoot(t.put.parent)'
    <3>1. /\ t.put.parent \in t.held /\ Active(t.put.parent)
          /\ rows[t.put.parent].board = t.put.board
          /\ t.put.parent \in Present /\ ReachesRoot(t.put.parent)
      BY <2>1, <2>2 DEF ParentFits, Active
    <3>2. t.put.parent # k
      BY <1>1, <3>1
    <3>3. ReachesRoot(t.put.parent)'
      BY <1>0, <3>1, <3>2, WalkKept
    <3>4. QED  BY <1>0, <3>1, <3>2, <3>3, RowCommitted
  <2>3. QED  BY <1>0, <2>1, <2>2 DEF ParentFits
<1>6. KeyFits(work[v])'
  <2>1. KeyFits(t)
    BY Mine
  <2>2. ASSUME t.at = "commit", t.put # None, NEW i \in Present', i # t.id
        PROVE  Key(rows'[i]) # Key(t.put)
    <3>1. CASE i = k
      BY <1>0, <2>2, <3>1, RowCommitted DEF Apart
    <3>2. CASE i # k
      BY <1>0, <2>1, <2>2, <3>2, RowCommitted DEF KeyFits
    <3>3. QED  BY <3>1, <3>2
  <2>3. QED  BY <1>0, <2>2 DEF KeyFits, Key
<1>7. TagsFit(work[v])'
  <2>1. TagsFit(t)
    BY Mine
  <2>2. \A g \in t.shared : Active(g)'
    BY <1>0, <1>1, <2>1, RowCommitted DEF TagsFit, Active
  <2>3. QED  BY <1>0, <2>1, <2>2 DEF TagsFit
<1>8. QED  BY <1>3, <1>4, <1>5, <1>6, <1>7 DEF Fits

LEMMA CommitRowOK ==
  ASSUME IInv, NEW w \in Writers, CommitRow(w)
  PROVE  IInv'
<1>1. /\ work' = [work EXCEPT ![w] = Idle] /\ UNCHANGED <<scope, filed, tagged>>
      /\ rows' = [rows EXCEPT ![work[w].id] = work[w].put]
      /\ Typed
  BY Mine DEF CommitRow
<1>2. Typed'
  BY <1>1, IdleFits, RowCommitted DEF Typed
<1>3. \A v \in Writers : work'[v] = IF v = w THEN Idle ELSE work[v]
  BY <1>1 DEF Typed
<1>4. ASSUME NEW v \in Writers
      PROVE  Fits(work[v])'
  <2>1. CASE v = w
    BY <1>3, <2>1 DEF Idle, Fits, StagesFit, PutFits, ParentFits, KeyFits, TagsFit
  <2>2. QED  BY <2>1, OthersFit
<1>5. ASSUME NEW v \in Writers
      PROVE  Apart(work[v], Idle)
  <2>1. work[v] \in Task /\ (work[v].op = "insert" => work[v].id \in Ids)
    BY Mine DEF PutFits
  <2>2. QED  BY <2>1, IdleFits, CatalogAssumption
<1>6. ASSUME NEW u \in Writers, NEW v \in Writers, u # v
      PROVE  Apart(work[u], work[v])'
  <2>1. Apart(work'[u], work'[v])
    BY <1>3, <1>5, <1>6, ApartSymmetric DEF IInv
  <2>2. QED  BY <2>1 DEF Apart, Key
<1>7. QED  BY <1>2, <1>4, <1>6, TreeCommitted, ShallowCommitted DEF IInv

-----------------------------------------------------------------------------
(* The invariant, and what follows from it.                                *)

LEMMA EndsOK ==
  ASSUME IInv, NEW w \in Writers, Fail(w) \/ CommitFiling(w) \/ CommitTags(w)
  PROVE  IInv'
<1>1. CASE Fail(w)
  BY <1>1, Ends, Mine DEF Fail, Typed
<1>2. CASE CommitFiling(w)
  <2>1. work[w].id \in Ids
    BY <1>2, Mine DEF CommitFiling, PutFits, Present
  <2>2. QED  BY <1>2, <2>1, Ends, Mine DEF CommitFiling, Typed
<1>3. CASE CommitTags(w)
  BY <1>3, Ends, Mine DEF CommitTags, Typed, Task
<1>4. QED  BY <1>1, <1>2, <1>3

LEMMA StepOK ==
  ASSUME IInv, [Next]_vars
  PROVE  IInv'
<1>1. ASSUME NEW w \in Writers, NEW b \in Boards, NEW n \in Names,
             NEW t \in TemplateIds \cup {None},
             NEW p \in {i \in Ids : Active(i)} \cup {Root},
             CreateCategory(w, [Tag(n) EXCEPT !.board = b, !.parent = p, !.template = t])
      PROVE  IInv'
  <2> DEFINE r == [Tag(n) EXCEPT !.board = b, !.parent = p, !.template = t]
  <2>1. r \in Row /\ ~r.deleted /\ r.board = b
    BY DEF Tag, Row
  <2>2. QED  BY <1>1, <2>1, CreateCategoryOK
<1>2. CASE UNCHANGED vars
  <2>1. UNCHANGED <<scope, rows, filed, tagged, work>>
    BY <1>2 DEF vars
  <2>2. Typed' /\ TagsFlat' /\ TreeSound'
    BY <2>1, RowsStay DEF IInv, Typed, TagsFlat, TreeSound, Key
  <2>6. Shallow'
    BY <2>1, RowsStay DEF IInv, Shallow
  <2>3. ASSUME NEW w \in Writers
        PROVE  Fits(work[w])'
    <3>1. Fits(work[w])
      BY DEF IInv
    <3>2. QED
      BY <2>1, <3>1, RowsStay
      DEF Fits, StagesFit, PutFits, AsksFit, Activates, ParentFits, KeyFits, TagsFit, Key, Idle
  <2>4. ASSUME NEW v \in Writers, NEW w \in Writers, v # w
        PROVE  Apart(work[v], work[w])'
    BY <2>1, <2>4 DEF IInv, Apart, Key
  <2>5. QED  BY <2>2, <2>3, <2>4, <2>6 DEF IInv
<1>3. QED
  BY <1>1, <1>2, CreateOK, LockedOK, LockParentOK, TagsOK, SaveTagOK, SaveCategoryOK,
     EnterOK, SoftDeleteOK, CommitRowOK, EndsOK
  DEF Next

LEMMA Invariance == Spec => []IInv
  BY InitOK, StepOK, PTL DEF Spec

\* The tables, the tags of a transaction and the locks keep their types, and no
\* two transactions hold one exclusive lock.
THEOREM TypeCorrect == Spec => []TypeOK
<1>1. IInv => TypeOK
  <2> SUFFICES ASSUME IInv
               PROVE  TypeOK
    OBVIOUS
  <2>1. ASSUME NEW w \in Writers
        PROVE  /\ work[w] = Idle \/ work[w].at # "idle"
               /\ \A v \in Writers \ {w} : work[w].held \cap work[v].held = {}
    BY Mine DEF StagesFit, Apart
  <2>2. QED  BY <2>1 DEF IInv, Typed, TypeOK
<1>2. QED  BY <1>1, Invariance, PTL

\* However the requests interleave, a category in use stands under categories
\* in use of its board, and no two rows have one identity.
THEOREM TreeIsSound == Spec => []TreeSound
<1>1. IInv => TreeSound
  BY DEF IInv
<1>2. QED  BY <1>1, Invariance, PTL

\* Until it commits, a transaction changes no row, and nothing that others say.
LEMMA OnlyCommitsShow ==
  ASSUME Next \/ UNCHANGED vars, ~UNCHANGED <<rows, filed, tagged>>
  PROVE  \E w \in Writers : CommitRow(w) \/ CommitFiling(w) \/ CommitTags(w)
<1>1. ASSUME NEW w \in Writers, NEW r, NEW held,
             Identify(w, r, held) \/ CreateCategory(w, r)
      PROVE  UNCHANGED <<rows, filed, tagged>>
  BY <1>1 DEF Identify, CreateCategory, Step
<1>2. ASSUME NEW w \in Writers, NEW i \in Ids,
             \/ DeleteCategory(w, i) \/ RestoreCategory(w, i)
             \/ DeleteTag(w, i) \/ RestoreTag(w, i)
             \/ \E n \in Names : UpdateCategory(w, i, n) \/ UpdateTag(w, i, n)
             \/ \E b \in Boards : File(w, i, b)
      PROVE  UNCHANGED <<rows, filed, tagged>>
  BY <1>2
  DEF DeleteCategory, RestoreCategory, DeleteTag, RestoreTag, UpdateCategory, UpdateTag,
      File, Step
<1>3. ASSUME NEW w \in Writers,
             \/ \E n \in Names : CreateTag(w, n)
             \/ \E wanted \in SUBSET Ids : ReplaceTags(w, wanted)
             \/ FindIdentity(w) \/ LockParent(w)
             \/ SaveCategory(w) \/ SaveTag(w) \/ Enter(w)
             \/ SoftDelete(w) \/ SoftDeleteTag(w)
             \/ Resolve(w) \/ Share(w) \/ Fail(w)
      PROVE  UNCHANGED <<rows, filed, tagged>>
  BY <1>1, <1>3
  DEF CreateTag, ReplaceTags, FindIdentity, LockParent, SaveCategory, SaveTag, Enter,
      SoftDelete, SoftDeleteTag, Resolve, Share, Fail, Step
<1>4. QED  BY <1>1, <1>2, <1>3 DEF Next, vars

\* Old transactions keep their meaning: no row goes, moves or changes its board,
\* and what a transaction is filed under or tagged with is in use at its commit.
THEOREM HistoryIsKept == Spec => HistoryHolds
<1> DEFINE Holds ==
      /\ \A i \in Present : rows'[i] # None /\ rows'[i].board = rows[i].board
           /\ rows'[i].parent = rows[i].parent /\ rows'[i].template = rows[i].template
      /\ filed' # filed =>
           /\ ~rows'[filed'].deleted
           /\ \E w \in Writers : work[w].type = rows'[filed'].board /\ work'[w] = Idle
      /\ \A g \in tagged' \ tagged : ~rows'[g].deleted
<1>1. IInv /\ [Next]_vars => Holds
  <2> SUFFICES ASSUME IInv, [Next]_vars
               PROVE  Holds
    OBVIOUS
  <2>1. ASSUME NEW w \in Writers, CommitRow(w)
        PROVE  Holds
    <3>1. UNCHANGED <<filed, tagged>>
      BY <2>1 DEF CommitRow
    <3>2. \A i \in Present : i \in Ids /\ rows[i] # None
      BY DEF Present
    <3>3. QED  BY <2>1, <3>1, <3>2, RowCommitted
  <2>2. ASSUME NEW w \in Writers, CommitFiling(w)
        PROVE  Holds
    <3>1. work[w].op = "file" /\ filed' = work[w].id /\ work' = [work EXCEPT ![w] = Idle]
          /\ UNCHANGED <<rows, tagged>>
      BY <2>2 DEF CommitFiling
    <3>2. Active(work[w].id) /\ rows[work[w].id].board = work[w].type
      BY <3>1, Mine DEF PutFits
    <3>3. work'[w] = Idle
      BY <3>1, Mine DEF Typed
    <3>4. QED  BY <3>1, <3>2, <3>3 DEF Present, Active
  <2>3. ASSUME NEW w \in Writers, CommitTags(w)
        PROVE  Holds
    <3>1. /\ work[w].op = "tag" /\ work[w].at = "commit" /\ tagged' = work[w].wanted
          /\ UNCHANGED <<rows, filed>>
      BY <2>3 DEF CommitTags
    <3>2. \A g \in work[w].wanted : Active(g)
      BY <3>1, Mine DEF TagsFit
    <3>3. QED  BY <3>1, <3>2 DEF Present, Active
  <2>4. QED  BY <2>1, <2>2, <2>3, OnlyCommitsShow DEF Present
<1>2. QED  BY <1>1, Invariance, PTL DEF Spec, HistoryHolds

\* Two requests wait for each other only when they swap the names of two tags
\* or of two top-level categories.
THEOREM OnlySwaps == Spec => []OnlySwapsDeadlock
<1>1. IInv => OnlySwapsDeadlock
  <2> SUFFICES ASSUME IInv, NEW v \in Writers, NEW w \in Writers,
                      v \in WaitsFor(w), w \in WaitsFor(v)
               PROVE  /\ work[v].op = "rename" /\ work[w].op = "rename"
                      /\ work[v].put.parent = Root /\ work[w].put.parent = Root
                      /\ Key(work[v].put) = Key(rows[work[w].id])
                      /\ Key(work[w].put) = Key(rows[work[v].id])
    BY DEF OnlySwapsDeadlock
  <2>1. v # w
    BY DEF WaitsFor, Owners
  <2>2. ASSUME NEW x \in Writers, NEW y \in Writers, y \in WaitsFor(x), x \in WaitsFor(y)
        PROVE  work[x].at = "index"
    <3>1. work[x].at \in {"index", "share"} /\ work[y].at \in {"index", "share"} /\ x # y
      BY <2>2 DEF WaitsFor, Owners
    <3>2. CASE work[x].at = "share"
      <4>1. work[x].op = "tag" /\ work[x].held = {TheTransaction}
        BY <3>2, Mine DEF StagesFit, TagsFit, Task, Idle
      <4>2. work[y].wanted \subseteq Ids
        BY Mine DEF Task
      <4>3. work[y].at = "share" /\ TheTransaction \in work[y].wanted
        BY <2>2, <3>1, <3>2, <4>1 DEF WaitsFor, Owners
      <4>4. QED  BY <4>2, <4>3, CatalogAssumption DEF Ids, TheTransaction
    <3>3. QED  BY <3>1, <3>2
  <2>3. /\ work[v].at = "index" /\ work[w].at = "index"
        /\ v \in Owners(w) /\ w \in Owners(v)
    BY <2>2 DEF WaitsFor
  <2>4. /\ work[v].put # None /\ work[w].put # None
        /\ work[v].id \in Present /\ Key(rows[work[v].id]) = Key(work[w].put)
        /\ work[w].id \in Present /\ Key(rows[work[w].id]) = Key(work[v].put)
    BY <2>3 DEF Owners
  <2>5. work[v].op = "rename" /\ work[w].op = "rename"
    BY <2>3, <2>4, Mine DEF StagesFit, PutFits, Task, Idle
  <2>6. /\ rows[work[v].id] \in Row /\ rows[work[w].id] \in Row
        /\ work[v].put = [rows[work[v].id] EXCEPT !.name = work[v].put.name]
    BY <2>4, <2>5, Mine DEF Typed, Present, PutFits
  <2>7. work[v].put.parent = work[w].put.parent
    BY <2>4, <2>6 DEF Key, Row
  <2>8. work[v].put.parent = Root
    <3>1. CASE scope = "tags"
      BY <2>4, <3>1, Mine DEF ParentFits
    <3>2. ASSUME scope = "categories", work[v].put.parent # Root
          PROVE  FALSE
      <4>1. work[v].put.parent \in work[v].held /\ work[w].put.parent \in work[w].held
        BY <2>3, <2>4, <2>5, <2>7, <3>2, Mine DEF ParentFits
      <4>2. QED  BY <2>1, <2>7, <4>1, Mine DEF Apart
    <3>3. QED  BY <3>1, <3>2, Mine DEF Typed
  <2>9. QED  BY <2>4, <2>5, <2>7, <2>8
<1>2. QED  BY <1>1, Invariance, PTL

-----------------------------------------------------------------------------
(* What a list shows.                                                      *)

LEMMA LeastNumber ==
  ASSUME NEW T \in SUBSET Nat, T # {}
  PROVE  \E m \in T : \A n \in T : m <= n
<1>1. PICK R : R = OpToRel(<, Nat) /\ IsWellFoundedOn(R, Nat)
  BY NatLessThanWellFounded
<1>2. \E m \in T : \A n \in T : ~(<<n, m>> \in R)
  <2>1. T \subseteq Nat /\ T # {} /\ IsWellFoundedOn(R, Nat)
    BY <1>1
  <2>2. QED  BY ONLY <2>1, WFMin, Zenon
<1>3. \A m \in T, n \in T : n < m => <<n, m>> \in R
  BY <1>1 DEF OpToRel
<1>4. PICK m \in T : \A n \in T : ~(<<n, m>> \in R)
  BY <1>2
<1>5. \A n \in T : ~(n < m)
  BY ONLY <1>3, <1>4, Zenon
<1>6. m \in Nat /\ \A n \in T : n \in Nat
  OBVIOUS
<1>7. \A n \in T : m <= n
  BY ONLY <1>5, <1>6, SMT
<1>8. QED  BY <1>7

\* Going up from a row that a list is about, the last row before the first that
\* is not is where the list shows it from.
LEMMA ListsAreWhole ==
  ASSUME IInv
  PROVE  ListsWhole
<1> SUFFICES ASSUME NEW view \in SUBSET Present, NEW i \in view
             PROVE  i \in Listing(view)
  <2>1. \A board, status : View(board, status) \in SUBSET Present
    BY DEF View
  <2>2. \A view \in SUBSET Present : Listing(view) \subseteq view
    BY DEF Listing
  <2>3. QED  BY <2>1, <2>2 DEF ListsWhole
<1>1. PICK n \in 0..MaxDepth : \E up \in [0..n -> Ids \cup {Root}] : Ancestry(i, n, up)
  BY DEF IInv, Shallow
<1>2. PICK up \in [0..n -> Ids \cup {Root}] : Ancestry(i, n, up)
  BY <1>1
<1>3. MaxDepth \in Nat /\ n \in Nat /\ n <= MaxDepth /\ Root \notin view /\ view \subseteq Ids
  BY CatalogAssumption DEF Present, Ids, Root
<1> DEFINE Out == {k \in 0..n : up[k] \notin view}
<1>4. PICK m \in Out : \A k \in Out : m <= k
  <2>1. n \in Out
    BY <1>2, <1>3 DEF Ancestry
  <2>2. Out \in SUBSET Nat
    BY <1>3
  <2>3. \E m \in Out : \A k \in Out : m <= k
    BY <2>1, <2>2, LeastNumber
  <2>4. QED  BY <2>3
<1>5. m \in 1..n /\ \A k \in 0..(m - 1) : up[k] \in view
  BY <1>2, <1>3, <1>4 DEF Ancestry
<1> DEFINE top == [k \in 0..(m - 1) |-> up[k]]
<1>6. m - 1 \in 0..(MaxDepth - 1) /\ top \in [0..(m - 1) -> view] /\ top[0] = i
  BY <1>2, <1>3, <1>5 DEF Ancestry
<1>7. \A k \in 0..(m - 1) : up[k + 1] = rows[up[k]].parent
  BY <1>2, <1>3, <1>5 DEF Ancestry
<1>8. \A k \in 0..((m - 1) - 1) : top[k + 1] = rows[top[k]].parent
  BY <1>3, <1>5, <1>7
<1>9. top[m - 1] \in DisplayRoots(view)
  <2>1. top[m - 1] = up[m - 1] /\ up[m - 1] \in view /\ up[m] = rows[up[m - 1]].parent
    BY <1>3, <1>5, <1>7
  <2>2. QED  BY <1>4, <2>1 DEF DisplayRoots
<1>10. QED  BY <1>6, <1>8, <1>9 DEF Listing

\* However the requests interleave, the tree is a tree in use, names are unique,
\* and every list shows each row it is about.
THEOREM CatalogueIsSound == Spec => []CatalogueSound
<1>1. IInv => TreeSound /\ ListsWhole
  BY ListsAreWhole DEF IInv
<1>2. TypeOK /\ TreeSound /\ ListsWhole => CatalogueSound
  BY DEF CatalogueSound
<1>3. QED  BY <1>1, <1>2, TypeCorrect, Invariance, PTL

-----------------------------------------------------------------------------
(* The in-memory repositories.                                             *)

\* What PostgreSQL and the in-memory repositories read of the same rows.
LEMMA SameReads ==
  /\ Memory!Merged = Present
  /\ Memory!Row = Row
  /\ \A i : Memory!Found(i) <=> Active(i)
  /\ \A r, q : Memory!SameName(r, q) <=> Key(r) = Key(q)
  /\ \A p \in Ids : ReachesRoot(p) => Memory!WalkEnds(p)
<1>1. Memory!Merged = Present /\ Memory!Row = Row
  BY DEF Memory!Merged, Present, Memory!Row, Row, TemplateIds
<1>2. \A i : Memory!Found(i) <=> Active(i)
  BY <1>1 DEF Memory!Found, Active
<1>3. \A r, q : Memory!SameName(r, q) <=> Key(r) = Key(q)
  BY DEF Memory!SameName, Key
<1>4. ASSUME NEW p \in Ids, ReachesRoot(p)
      PROVE  Memory!WalkEnds(p)
  <2>1. PICK n \in 0..(MaxDepth - 1) : \E up \in [0..n -> Ids \cup {Root}] :
          /\ up[0] = p /\ up[n] = Root
          /\ \A k \in 0..(n - 1) : Active(up[k]) /\ up[k + 1] = rows[up[k]].parent
    BY <1>4 DEF ReachesRoot
  <2>2. n \in 1..(MaxDepth - 1)
    BY <2>1, CatalogAssumption DEF Ids, Root
  <2>3. QED  BY <1>2, <2>1, <2>2 DEF Memory!WalkEnds
<1>5. QED  BY <1>1, <1>2, <1>3, <1>4

LEMMA InitIsMemory == Init => Memory!Init
<1> SUFFICES ASSUME Init
             PROVE  Memory!Init
  OBVIOUS
<1>1. /\ rows \in [Ids -> Row \cup {None}]
      /\ \A i \in Present, j \in Present : i # j => Key(rows[i]) # Key(rows[j])
  BY InitOK DEF IInv, Typed, TreeSound
<1>2. ASSUME NEW i \in Present
      PROVE  /\ ~rows[i].deleted
             /\ rows[i].parent # Root =>
                  /\ rows[i].parent \in Present /\ rows[rows[i].parent].parent = Root
                  /\ rows[rows[i].parent].board = rows[i].board
  <2>1. scope = "categories"
    BY DEF Init, Present
  <2>2. PICK home \in [Defaults -> Ids] :
          /\ \A t, u \in Defaults : home[t] = home[u] => t = u
          /\ rows = Registered(home)
    BY <2>1 DEF Init
  <2>3. PICK t \in Defaults : i = home[t]
    BY <2>2, RegisteredRows
  <2>4. rows[i] = Default(t, home)
    BY <2>2, <2>3, RegisteredRows
  <2>5. CASE Templates[t].parent = None
    BY <2>4, <2>5 DEF Default
  <2>6. CASE Templates[t].parent # None
    <3> DEFINE u == Templates[t].parent
    <3>1. u \in Defaults /\ Templates[u].parent = None /\ Templates[u].board = Templates[t].board
      BY <2>6, TemplatesAssumption DEF Defaults
    <3>2. rows[home[u]] = Default(u, home) /\ home[u] \in Present
      BY <2>2, <3>1, RegisteredRows
    <3>3. QED  BY <2>4, <2>6, <3>1, <3>2 DEF Default
  <2>7. QED  BY <2>5, <2>6
<1>3. filed = None /\ tagged = {}
  BY DEF Init
<1>4. QED  BY <1>1, <1>2, <1>3, SameReads DEF Memory!Init

\* At the commit of a row, what save checks on the in-memory repositories holds.
LEMMA CommitSaves ==
  ASSUME IInv, NEW w \in Writers, CommitRow(w), work[w].op # "delete"
  PROVE  Memory!Save(work[w].id, work[w].put)
<1> DEFINE k == work[w].id
           put == work[w].put
<1>1. /\ work[w].at = "commit" /\ put # None /\ put \in Row /\ UNCHANGED <<filed, tagged>>
      /\ rows' = [rows EXCEPT ![k] = put]
  BY RowCommitted DEF CommitRow
<1>2. put.parent # Root =>
        /\ Active(put.parent) /\ rows[put.parent].board = put.board /\ ReachesRoot(put.parent)
        /\ put.parent \in Ids
  BY <1>1, Mine DEF ParentFits, Row
<1>3. \A j \in Present \ {k} : Key(rows[j]) # Key(put)
  BY <1>1, Mine DEF KeyFits
<1>4. k \in Present => rows[k].board = put.board
  BY RowCommitted
<1>5. QED  BY <1>1, <1>2, <1>3, <1>4, SameReads DEF Memory!Save

LEMMA CommitRowIsMemory ==
  ASSUME IInv, NEW w \in Writers, CommitRow(w)
  PROVE  Memory!Next
<1> DEFINE k == work[w].id
           put == work[w].put
<1>1. /\ work[w].at = "commit" /\ k \in Ids /\ put \in Row /\ PutFits(work[w])
      /\ work[w].op \in {"insert", "restore", "rename", "delete"}
      /\ rows' = [rows EXCEPT ![k] = put] /\ UNCHANGED <<filed, tagged>>
  BY Mine, RowCommitted DEF CommitRow
<1>2. CASE work[w].op = "insert"
  <2>1. put \in Memory!Requested
    BY <1>1, <1>2, SameReads DEF PutFits, AsksFit, Memory!Requested
  <2>2. put.template # None /\ put.parent # Root => ~Memory!Activated(put)
    BY <1>1, <1>2, SameReads DEF PutFits, Activates, Memory!Activated
  <2>3. put.template # None /\ put.parent # Root =>
          rows[put.parent].template = Templates[put.template].parent
    BY <1>1, <1>2 DEF PutFits, AsksFit
  <2>4. Memory!Create(k, put) /\ k \notin Memory!Merged
    BY <1>1, <1>2, <2>2, <2>3, CommitSaves, SameReads DEF Memory!Create, PutFits
  <2>5. QED  BY <1>1, <2>1, <2>4 DEF Memory!Next
<1>3. CASE work[w].op = "restore"
  <2>1. Memory!Restore(k)
    BY <1>1, <1>3, CommitSaves, SameReads DEF Memory!Restore, PutFits
  <2>2. QED  BY <1>1, <2>1 DEF Memory!Next
<1>4. CASE work[w].op = "rename"
  <2>1. Memory!Rename(k, put.name) /\ put.name \in Names
    BY <1>1, <1>4, CommitSaves, SameReads DEF Memory!Rename, PutFits, Row
  <2>2. QED  BY <1>1, <2>1 DEF Memory!Next
<1>5. CASE work[w].op = "delete"
  <2>1. Memory!SoftDelete(k)
    BY <1>1, <1>5, SameReads DEF Memory!SoftDelete, PutFits
  <2>2. QED  BY <1>1, <2>1 DEF Memory!Next
<1>6. QED  BY <1>1, <1>2, <1>3, <1>4, <1>5

LEMMA CommitNamesIsMemory ==
  ASSUME IInv, NEW w \in Writers, CommitFiling(w) \/ CommitTags(w)
  PROVE  Memory!Next
<1>1. CASE CommitFiling(w)
  <2>1. /\ work[w].op = "file" /\ filed' = work[w].id /\ UNCHANGED <<rows, tagged>>
        /\ Active(work[w].id) /\ rows[work[w].id].board = work[w].type
        /\ work[w].type \in Boards /\ work[w].id \in Ids
    BY <1>1, Mine DEF CommitFiling, PutFits, Present
  <2>2. Memory!File(work[w].id, work[w].type)
    BY <2>1, SameReads DEF Memory!File
  <2>3. QED  BY <2>1, <2>2 DEF Memory!Next
<1>2. CASE CommitTags(w)
  <2>1. /\ work[w].op = "tag" /\ work[w].at = "commit" /\ tagged' = work[w].wanted
        /\ UNCHANGED <<rows, filed>> /\ work[w].wanted \in SUBSET Ids
        /\ scope = "tags" /\ \A g \in work[w].wanted : Active(g)
    BY <1>2, Mine DEF CommitTags, TagsFit, Task
  <2>2. \A g \in work[w].wanted : rows[g].board = "tag"
    BY <2>1 DEF IInv, TagsFlat, Active
  <2>3. Memory!ReplaceTransactionTags(work[w].wanted)
    BY <2>1, <2>2, SameReads DEF Memory!ReplaceTransactionTags
  <2>4. QED  BY <2>1, <2>3 DEF Memory!Next
<1>3. QED  BY <1>1, <1>2

\* The requests that share the tables do what each would do alone: a commit is
\* one request to the in-memory repositories, and what comes before it is none.
THEOREM WorksAsInMemory == Spec => MemorySpec
<1>1. IInv /\ [Next]_vars => [Memory!Next]_Memory!vars
  <2> SUFFICES ASSUME IInv, Next \/ UNCHANGED vars, ~UNCHANGED <<rows, filed, tagged>>
               PROVE  Memory!Next
    BY DEF Memory!vars
  <2>1. PICK w \in Writers : CommitRow(w) \/ CommitFiling(w) \/ CommitTags(w)
    BY OnlyCommitsShow
  <2>2. QED  BY <2>1, CommitRowIsMemory, CommitNamesIsMemory
<1>2. QED  BY <1>1, InitIsMemory, Invariance, PTL DEF Spec, MemorySpec, Memory!Spec

=============================================================================
