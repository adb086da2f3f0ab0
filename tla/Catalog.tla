------------------------------ MODULE Catalog ------------------------------
(***************************************************************************)
(* One user's categories (a tree per board) and tags, and what transactions *)
(* say of them. Sources: resource_use_cases.cpp,                            *)
(* category_repository_impl.cpp, tag_repository_impl.cpp.                   *)
(*                                                                         *)
(* Transactions run under READ COMMITTED: a statement sees what is         *)
(* committed when it starts.  FOR UPDATE NOWAIT fails on a row that is     *)
(* locked; a unique index, FOR UPDATE and FOR SHARE wait.  A transaction's *)
(* one write takes effect at its commit; until then it is put, and other   *)
(* writers of the same key meet it in the index.  Rows are told apart by   *)
(* the number the database gave them, and are never removed.               *)
(***************************************************************************)
EXTENDS Integers

CONSTANTS
    Writers,        \* transactions running at a time
    Boards,         \* category_board
    Names,
    Templates,      \* system_category_templates: [parent, board, name]
    Shipped,        \* those of the user's language, when the user registered
    MaxDepth,       \* kMaxCategoryTreeDepth
    MaxRows,        \* bound of the rows that are ever inserted
    None

Root == 0           \* parent_id IS NULL
TheTransaction == -1
Ids == 1..MaxRows
TemplateIds == DOMAIN Templates
Row == [board : Boards \cup {"tag"}, parent : Ids \cup {Root}, name : Names,
        template : TemplateIds \cup {None}, deleted : BOOLEAN]

ASSUME CatalogAssumption ==
    /\ MaxDepth \in Nat /\ MaxDepth >= 2
    /\ MaxRows \in Nat
    /\ None \notin Names \cup TemplateIds
    /\ None \notin Ids /\ None \notin Row
    /\ "tag" \notin Boards

(* As V3 seeds them: a child is on its parent's board. *)
ASSUME TemplatesAssumption ==
    /\ Shipped \subseteq TemplateIds
    /\ \A t \in TemplateIds :
        /\ Templates[t] \in [parent : TemplateIds \cup {None}, board : Boards, name : Names]
        /\ Templates[t].parent # None =>
                Templates[Templates[t].parent].board = Templates[t].board
    /\ \A t, u \in Shipped : Templates[t] = Templates[u] => t = u

VARIABLES
    scope,          \* which of the two tables these transactions are about
    rows,           \* its rows, deleted ones included
    filed,          \* a transaction's category
    tagged,         \* and its tags
    work            \* the database transactions in progress

vars == <<scope, rows, filed, tagged, work>>

Tag(n) == [board |-> "tag", parent |-> Root, name |-> n, template |-> None, deleted |-> FALSE]

Present == {i \in Ids : rows[i] # None}
Active(i) == i \in Present /\ ~rows[i].deleted

(* What UNIQUE (user_id, board, parent_id, name) and (user_id, name) compare. *)
Key(r) == <<r.board, r.parent, r.name>>

(* A database transaction: what it is for, where it is, its row and what it *)
(* puts there, its locks, and for a transaction's tags or category, which.  *)
Task == [
    op : {"none", "create", "insert", "restore", "rename", "delete", "file", "tag"},
    at : {"idle", "identity", "parent", "save", "index", "remove", "resolve", "share", "commit"},
    id : Ids \cup {None}, put : Row \cup {None}, held : SUBSET (Ids \cup {TheTransaction}),
    shared : SUBSET Ids, wanted : SUBSET Ids, type : Boards \cup {None}]
Idle == [op |-> "none", at |-> "idle", id |-> None, put |-> None,
         held |-> {}, shared |-> {}, wanted |-> {}, type |-> None]

(* Nobody else holds a lock, or an exclusive lock, on row i. *)
Free(w, i) == \A v \in Writers \ {w} : i \notin work[v].held \cup work[v].shared
Sharable(w, i) == \A v \in Writers \ {w} : i \notin work[v].held

(* Registration installs the templates of the user's language: the roots, and *)
(* then each child under the row of its parent.                              *)
Defaults == {t \in Shipped :
    \/ Templates[t].parent = None
    \/ Templates[t].parent \in Shipped /\ Templates[Templates[t].parent].parent = None}

Default(t, home) ==
    [board |-> Templates[t].board, name |-> Templates[t].name, template |-> t, deleted |-> FALSE,
     parent |-> IF Templates[t].parent = None THEN Root ELSE home[Templates[t].parent]]

Registered(home) ==
    [i \in Ids |-> IF \E t \in Defaults : home[t] = i
                   THEN Default(CHOOSE t \in Defaults : home[t] = i, home) ELSE None]

Init ==
    /\ scope \in {"categories", "tags"}
    /\ IF scope = "tags"
       THEN rows = [i \in Ids |-> None]
       ELSE \E home \in [Defaults -> Ids] :
                /\ \A t, u \in Defaults : home[t] = home[u] => t = u
                /\ \A t \in Defaults, i \in Ids : i < home[t] => \E u \in Defaults : home[u] = i
                /\ rows = Registered(home)
    /\ filed = None
    /\ tagged = {}
    /\ work = [w \in Writers |-> Idle]

----------------------------------------------------------------------------
Step(w, task) ==
    /\ work' = [work EXCEPT ![w] = task]
    /\ UNCHANGED <<scope, rows, filed, tagged>>

(* A statement refuses or fails, or the process dies: the transaction rolls back. *)
Fail(w) ==
    /\ work[w] # Idle
    /\ work' = [work EXCEPT ![w] = Idle]
    /\ UNCHANGED <<scope, rows, filed, tagged>>

(* find_identity_for_update and find_by_name_for_update: deleted rows count. *)
Matches(r) == {i \in Present :
    /\ rows[i].board = r.board /\ rows[i].parent = r.parent
    /\ IF r.template = None THEN rows[i].name = r.name ELSE rows[i].template = r.template}

Unused == Ids \ (Present \cup {work[w].id : w \in Writers})

(* A create begins to insert what it asked for, or to restore what it finds. *)
Identify(w, r, held) ==
    \/ /\ Matches(r) = {}
       /\ \E i \in Unused :
            /\ \A j \in Unused : i <= j
            /\ Step(w, [Idle EXCEPT !.op = "insert", !.at = "save", !.id = i,
                                    !.put = r, !.held = held])
    \/ \E i \in Matches(r) :
        /\ rows[i].deleted
        /\ \A j \in Matches(r) : Free(w, j)
        /\ Step(w, [Idle EXCEPT !.op = "restore", !.at = "save", !.id = i,
                    !.held = held \cup Matches(r), !.put = [rows[i] EXCEPT !.deleted = FALSE]])

(* The parent is locked and fits: custom categories share its board, and a  *)
(* template is activated under the category of its parent template.        *)
CreateCategory(w, r) ==
    /\ scope = "categories"
    /\ work[w] = Idle
    /\ r.template # None =>
        /\ r.board = Templates[r.template].board
        /\ r.name = Templates[r.template].name
        /\ (Templates[r.template].parent = None) = (r.parent = Root)
    /\ IF r.parent = Root
       THEN Identify(w, r, {})
       ELSE /\ Active(r.parent) /\ Free(w, r.parent)
            /\ IF r.template = None
               THEN rows[r.parent].board = r.board
               ELSE rows[r.parent].template = Templates[r.template].parent
            /\ Step(w, [Idle EXCEPT !.op = "create", !.at = "identity", !.put = r,
                        !.held = {r.parent}])

FindIdentity(w) ==
    /\ work[w].at = "identity"
    /\ Identify(w, work[w].put, work[w].held)

CreateTag(w, n) ==
    /\ scope = "tags"
    /\ work[w] = Idle
    /\ Identify(w, Tag(n), {})

(* find_by_id_for_user_for_update and its variant that includes deleted rows. *)
Locks(w, i, table) == scope = table /\ work[w] = Idle /\ i \in Present /\ Free(w, i)

DeleteCategory(w, i) ==
    /\ Locks(w, i, "categories")
    /\ Active(i)
    /\ Step(w, [Idle EXCEPT !.op = "delete", !.at = "remove", !.id = i, !.held = {i}])

DeleteTag(w, i) ==
    /\ Locks(w, i, "tags")
    /\ Active(i)
    /\ Step(w, [Idle EXCEPT !.op = "delete", !.at = "remove", !.id = i, !.held = {i}])

UpdateCategory(w, i, n) ==
    /\ Locks(w, i, "categories")
    /\ Active(i)
    /\ Step(w, [Idle EXCEPT !.op = "rename", !.at = "save", !.id = i, !.held = {i},
                            !.put = [rows[i] EXCEPT !.name = n]])

UpdateTag(w, i, n) ==
    /\ Locks(w, i, "tags")
    /\ Active(i)
    /\ Step(w, [Idle EXCEPT !.op = "rename", !.at = "save", !.id = i, !.held = {i},
                            !.put = [rows[i] EXCEPT !.name = n]])

(* RestoreCategoryUseCase locks an active parent before it saves. *)
RestoreCategory(w, i) ==
    /\ Locks(w, i, "categories")
    /\ rows[i].deleted
    /\ Step(w, [Idle EXCEPT !.op = "restore", !.id = i, !.held = {i},
                            !.at = IF rows[i].parent = Root THEN "save" ELSE "parent",
                            !.put = [rows[i] EXCEPT !.deleted = FALSE]])

LockParent(w) ==
    LET p == work[w].put.parent
    IN  /\ work[w].at = "parent"
        /\ Active(p) /\ Free(w, p)
        /\ rows[p].board = work[w].put.board
        /\ Step(w, [work[w] EXCEPT !.at = "save", !.held = @ \cup {p}])

RestoreTag(w, i) ==
    /\ Locks(w, i, "tags")
    /\ rows[i].deleted
    /\ Step(w, [Idle EXCEPT !.op = "restore", !.at = "save", !.id = i, !.held = {i},
                            !.put = [rows[i] EXCEPT !.deleted = FALSE]])

----------------------------------------------------------------------------
(* The repositories' save. *)

(* The walk from a new row's parent: MaxDepth - 1 active ancestors at most. *)
ReachesRoot(p) ==
    \E n \in 0..(MaxDepth - 1) : \E up \in [0..n -> Ids \cup {Root}] :
        /\ up[0] = p /\ up[n] = Root
        /\ \A k \in 0..(n - 1) : Active(up[k]) /\ up[k + 1] = rows[up[k]].parent

(* The row is written; its index entry, when the key may be new, comes next. *)
Written(w) == IF work[w].op = "restore" THEN "commit" ELSE "index"

\* Mutation: a row's parent is read without being locked.
SaveUnderUnlocked(w) ==
    LET r == work[w].put
    IN  /\ scope = "categories"
        /\ work[w].at = "save"
        /\ r.parent # Root =>
            /\ Active(r.parent)
            /\ rows[r.parent].board = r.board
            /\ ReachesRoot(r.parent)
        /\ Step(w, [work[w] EXCEPT !.at = Written(w)])

SaveCategory(w) ==
    LET r == work[w].put
    IN  /\ scope = "categories"
        /\ work[w].at = "save"
        /\ work[w].id \in Present => rows[work[w].id].board = r.board
        /\ r.parent # Root =>
            /\ Active(r.parent) /\ Free(w, r.parent)
            /\ rows[r.parent].board = r.board
            /\ ReachesRoot(r.parent)
        /\ Step(w, [work[w] EXCEPT !.at = Written(w), !.held = @ \cup ({r.parent} \ {Root})])

SaveTag(w) ==
    /\ scope = "tags"
    /\ work[w].at = "save"
    /\ Step(w, [work[w] EXCEPT !.at = Written(w)])

(* Others whose uncommitted write owns the key or the row that still has it. *)
Owners(w) == {v \in Writers \ {w} :
    LET k == Key(work[w].put) IN
    \/ work[v].at = "commit" /\ work[v].put # None /\ Key(work[v].put) = k
    \/ work[v].at \in {"index", "commit"} /\ work[v].put # None
         /\ work[v].id \in Present /\ Key(rows[work[v].id]) = k}

(* The unique index: wait for the owners, then refuse a key that is taken. *)
Enter(w) ==
    /\ work[w].at = "index"
    /\ Owners(w) = {}
    /\ \A i \in Present \ {work[w].id} : Key(rows[i]) # Key(work[w].put)
    /\ Step(w, [work[w] EXCEPT !.at = "commit"])

\* Mutation: children are not looked for.
SoftDeleteAny(w) ==
    /\ scope = "categories"
    /\ work[w].at = "remove"
    /\ Step(w, [work[w] EXCEPT !.at = "commit",
                               !.put = [rows[work[w].id] EXCEPT !.deleted = TRUE]])

(* soft_delete: a category with active children stays. *)
SoftDelete(w) ==
    /\ scope = "categories"
    /\ work[w].at = "remove"
    /\ \A i \in Ids : Active(i) => rows[i].parent # work[w].id
    /\ Step(w, [work[w] EXCEPT !.at = "commit",
                               !.put = [rows[work[w].id] EXCEPT !.deleted = TRUE]])

SoftDeleteTag(w) ==
    /\ scope = "tags"
    /\ work[w].at = "remove"
    /\ Step(w, [work[w] EXCEPT !.at = "commit",
                               !.put = [rows[work[w].id] EXCEPT !.deleted = TRUE]])

CommitRow(w) ==
    /\ work[w].at = "commit"
    /\ work[w].put # None
    /\ rows' = [rows EXCEPT ![work[w].id] = work[w].put]
    /\ work' = [work EXCEPT ![w] = Idle]
    /\ UNCHANGED <<scope, filed, tagged>>

----------------------------------------------------------------------------
(* What transactions say. *)

(* A transaction of type b is created, or corrected, under category i. *)
File(w, i, b) ==
    /\ Locks(w, i, "categories")
    /\ Active(i)
    /\ rows[i].board = b
    /\ Step(w, [Idle EXCEPT !.op = "file", !.at = "commit", !.id = i, !.type = b, !.held = {i}])

CommitFiling(w) ==
    /\ work[w].at = "commit"
    /\ work[w].op = "file"
    /\ filed' = work[w].id
    /\ work' = [work EXCEPT ![w] = Idle]
    /\ UNCHANGED <<scope, rows, tagged>>

(* replace_transaction_tags: the transaction's row is locked first, *)
ReplaceTags(w, wanted) ==
    /\ scope = "tags"
    /\ work[w] = Idle
    /\ Free(w, TheTransaction)
    /\ Step(w, [Idle EXCEPT !.op = "tag", !.at = "resolve", !.wanted = wanted,
                            !.held = {TheTransaction}])

(* one statement finds the tags that are active, *)
Resolve(w) ==
    /\ work[w].at = "resolve"
    /\ \A g \in work[w].wanted : Active(g)
    /\ Step(w, [work[w] EXCEPT !.at = "share"])

\* Mutation: the tags are read without FOR SHARE.
ShareNothing(w) == work[w].at = "share" /\ Step(w, [work[w] EXCEPT !.at = "commit"])

(* and locks them FOR SHARE, waiting; a tag deleted meanwhile drops out. *)
Share(w) ==
    /\ work[w].at = "share"
    /\ \/ \E g \in work[w].wanted \ work[w].shared :
            /\ Active(g) /\ Sharable(w, g)
            /\ Step(w, [work[w] EXCEPT !.shared = @ \cup {g}])
       \/ work[w].wanted = work[w].shared /\ Step(w, [work[w] EXCEPT !.at = "commit"])

CommitTags(w) ==
    /\ work[w].at = "commit"
    /\ work[w].op = "tag"
    /\ tagged' = work[w].wanted
    /\ work' = [work EXCEPT ![w] = Idle]
    /\ UNCHANGED <<scope, rows, filed>>

----------------------------------------------------------------------------
Next ==
    \E w \in Writers :
        \/ \E b \in Boards, n \in Names, t \in TemplateIds \cup {None},
              p \in {i \in Ids : Active(i)} \cup {Root} :
                CreateCategory(w, [Tag(n) EXCEPT !.board = b, !.parent = p, !.template = t])
        \/ \E n \in Names : CreateTag(w, n)
        \/ \E i \in Ids :
            \/ DeleteCategory(w, i) \/ RestoreCategory(w, i)
            \/ DeleteTag(w, i) \/ RestoreTag(w, i)
            \/ \E n \in Names : UpdateCategory(w, i, n) \/ UpdateTag(w, i, n)
            \/ \E b \in Boards : File(w, i, b)
        \/ \E wanted \in SUBSET Ids : ReplaceTags(w, wanted)
        \/ FindIdentity(w) \/ LockParent(w)
        \/ SaveCategory(w) \/ SaveTag(w) \/ Enter(w)
        \/ SoftDelete(w) \/ SoftDeleteTag(w)
        \/ Resolve(w) \/ Share(w)
        \/ CommitRow(w) \/ CommitFiling(w) \/ CommitTags(w)
        \/ Fail(w)

Spec == Init /\ [][Next]_vars

----------------------------------------------------------------------------
(* ListCategoriesUseCase. *)

(* The rows of a board that a status asks for (lists of both boards are unions). *)
View(board, status) == {i \in Present :
    /\ board = rows[i].board
    /\ status = "active" => ~rows[i].deleted
    /\ status = "deleted" => rows[i].deleted}

DisplayRoots(view) == {i \in view : rows[i].parent = Root \/ rows[i].parent \notin view}

(* The nodes built, those less than MaxDepth below a display root; the listing *)
(* fails unless they are all there are.                                       *)
Listing(view) == {i \in view :
    \E n \in 0..(MaxDepth - 1) : \E up \in [0..n -> view] :
        /\ up[0] = i /\ up[n] \in DisplayRoots(view)
        /\ \A k \in 0..(n - 1) : up[k + 1] = rows[up[k]].parent}

----------------------------------------------------------------------------
TypeOK ==
    /\ scope \in {"categories", "tags"}
    /\ rows \in [Ids -> Row \cup {None}]
    /\ filed \in Ids \cup {None}
    /\ tagged \subseteq Ids
    /\ work \in [Writers -> Task]
    /\ \A w \in Writers :
        /\ work[w] = Idle \/ work[w].at # "idle"
        /\ \A v \in Writers \ {w} : work[w].held \cap work[v].held = {}

(* However creations, renames, deletions and restorations of a parent and its *)
(* children interleave (the walk to the root is not locked): a category in    *)
(* use stands under categories in use of its board, and no two rows have one  *)
(* identity, deleted ones included.                                           *)
TreeSound ==
    \A i \in Present :
        /\ rows[i].parent # Root =>
            /\ rows[i].parent \in Present
            /\ rows[rows[i].parent].board = rows[i].board
            /\ Active(i) => Active(rows[i].parent)
        /\ \A j \in Present \ {i} : Key(rows[i]) # Key(rows[j])

(* Every list a user can ask for shows each row it is about, none too deep to *)
(* be built.                                                                  *)
ListsWhole ==
    \A board \in Boards, status \in {"active", "deleted", "all"} :
        Listing(View(board, status)) = View(board, status)

CatalogueSound == TypeOK /\ TreeSound /\ ListsWhole

(* What old transactions say stays true: no row goes, moves, or changes its   *)
(* board, whatever is deleted and created again; and a transaction is only    *)
(* filed under a category of its type, and tagged with tags, in use at that   *)
(* very moment, although they may be deleted while it is being written.       *)
HistoryHolds ==
    [][ /\ \A i \in Present : rows'[i] # None /\ rows'[i].board = rows[i].board
             /\ rows'[i].parent = rows[i].parent /\ rows'[i].template = rows[i].template
        /\ filed' # filed =>
             /\ ~rows'[filed'].deleted
             /\ \E w \in Writers : work[w].type = rows'[filed'].board /\ work'[w] = Idle
        /\ \A g \in tagged' \ tagged : ~rows'[g].deleted ]_vars

(* Split at its statements and locks, and beside others, every request does    *)
(* what it would do alone on the in-memory repositories, when it commits: what *)
(* was read and checked before is still so, and no name, parent, child or tag  *)
(* came or went meanwhile.                                                     *)
Memory == INSTANCE MemoryCatalog
MemorySpec == Memory!Spec

(* Whom a statement waits for. *)
WaitsFor(w) ==
    IF work[w].at = "index" THEN Owners(w)
    ELSE {v \in Writers \ {w} : work[w].at = "share"
            /\ work[v].held \cap (work[w].wanted \ work[w].shared) # {}}

(* Locks are refused rather than awaited, so two requests wait for each other *)
(* only when they swap the names of two tags or two top-level categories; the *)
(* database then ends one of them.                                            *)
OnlySwapsDeadlock == \A v, w \in Writers :
    v \in WaitsFor(w) /\ w \in WaitsFor(v) =>
        /\ work[v].op = "rename" /\ work[w].op = "rename"
        /\ work[v].put.parent = Root /\ work[w].put.parent = Root
        /\ Key(work[v].put) = Key(rows[work[w].id])
        /\ Key(work[w].put) = Key(rows[work[v].id])

============================================================================
