---------------------------- MODULE MemoryCatalog ----------------------------
(***************************************************************************)
(* One user's categories and tags as the in-memory repositories keep them. *)
(* Their store has one mutex, so a request is one step: what it finds, what *)
(* it checks, and what it saves; nothing else happens in between.  This is *)
(* what the requests that share the tables on PostgreSQL promise as well.  *)
(* Sources: in_memory_category_repository.h, in_memory_tag_repository.h.   *)
(***************************************************************************)
EXTENDS Integers

CONSTANTS
    Boards,         \* category_board
    Names,
    Templates,      \* category_templates: [parent, board, name]
    MaxDepth,       \* kMaxCategoryTreeDepth
    Ids,            \* ids of the store
    Root,           \* no parent
    None

VARIABLES
    rows,           \* categories and tags, deleted ones included
    filed,          \* a transaction's category
    tagged          \* and its tags

vars == <<rows, filed, tagged>>

Row == [board : Boards \cup {"tag"}, parent : Ids \cup {Root}, name : Names,
        template : (DOMAIN Templates) \cup {None}, deleted : BOOLEAN]

\* merged, and lookup: find_by_id_for_user_including_deleted.
Merged == {i \in Ids : rows[i] # None}

\* find_by_id_for_user: deleted rows read as absent.
Found(i) == i \in Merged /\ ~rows[i].deleted

SameName(r, q) == r.board = q.board /\ r.parent = q.parent /\ r.name = q.name

\* A user has what registration gave: system categories, one of each name,
\* here with the children that the migrations add to some of them.
Init ==
    /\ rows \in [Ids -> Row \cup {None}]
    /\ \A i \in Merged :
        /\ ~rows[i].deleted
        /\ rows[i].parent # Root =>
            /\ rows[i].parent \in Merged /\ rows[rows[i].parent].parent = Root
            /\ rows[rows[i].parent].board = rows[i].board
        /\ \A j \in Merged \ {i} : ~SameName(rows[i], rows[j])
    /\ filed = None
    /\ tagged = {}

-----------------------------------------------------------------------------
(* save and soft_delete.                                                   *)

\* The walk from the parent ends at a root after less than MaxDepth categories
\* in use.
WalkEnds(p) ==
    \E n \in 1..(MaxDepth - 1) : \E up \in [0..n -> Ids \cup {Root}] :
        /\ up[0] = p /\ up[n] = Root
        /\ \A k \in 0..(n - 1) : Found(up[k]) /\ up[k + 1] = rows[up[k]].parent

Save(i, r) ==
    /\ r.parent # Root => /\ Found(r.parent) /\ rows[r.parent].board = r.board
                          /\ WalkEnds(r.parent)
    /\ \A j \in Merged \ {i} : ~SameName(rows[j], r)
    /\ i \in Merged => rows[i].board = r.board
    /\ rows' = [rows EXCEPT ![i] = r]
    /\ UNCHANGED <<filed, tagged>>

SoftDelete(i) ==
    /\ Found(i)
    /\ \A j \in Ids : Found(j) => rows[j].parent # i
    /\ rows' = [rows EXCEPT ![i].deleted = TRUE]
    /\ UNCHANGED <<filed, tagged>>

-----------------------------------------------------------------------------
(* The requests.                                                           *)

\* find_identity_for_update, when a template is activated.
Activated(r) == \E i \in Merged :
    rows[i].template = r.template /\ rows[i].parent = r.parent /\ rows[i].board = r.board

\* What can be asked for: a tag, a category of one's own, or what a template says.
Requested == {r \in Row :
    /\ ~r.deleted
    /\ r.board = "tag" => r.parent = Root /\ r.template = None
    /\ r.template # None =>
        /\ r.board = Templates[r.template].board /\ r.name = Templates[r.template].name
        /\ r.parent = Root <=> Templates[r.template].parent = None}

\* CreateCategoryUseCase, CreateTagUseCase.  A template is activated once under
\* its parent's category; a root template may come twice on PostgreSQL, where a
\* request can add it while two others add it and change its name.
Create(i, r) ==
    /\ Save(i, r)
    /\ r.template # None /\ r.parent # Root =>
        /\ rows[r.parent].template = Templates[r.template].parent
        /\ ~Activated(r)

\* The same, when they find the row they would create; RestoreCategoryUseCase,
\* RestoreTagUseCase.
Restore(i) ==
    /\ i \in Merged /\ rows[i].deleted
    /\ Save(i, [rows[i] EXCEPT !.deleted = FALSE])

\* UpdateCategoryUseCase, UpdateTagUseCase.
Rename(i, n) == Found(i) /\ Save(i, [rows[i] EXCEPT !.name = n])

\* A transaction of type b is created or corrected.
File(i, b) ==
    /\ Found(i) /\ rows[i].board = b
    /\ filed' = i
    /\ UNCHANGED <<rows, tagged>>

\* replace_transaction_tags.
ReplaceTransactionTags(wanted) ==
    /\ \A g \in wanted : Found(g) /\ rows[g].board = "tag"
    /\ tagged' = wanted
    /\ UNCHANGED <<rows, filed>>

Next ==
    \/ \E i \in Ids :
        \/ i \notin Merged /\ \E r \in Requested : Create(i, r)
        \/ Restore(i) \/ SoftDelete(i)
        \/ \E n \in Names : Rename(i, n)
        \/ \E b \in Boards : File(i, b)
    \/ \E wanted \in SUBSET Ids : ReplaceTransactionTags(wanted)

Spec == Init /\ [][Next]_vars

=============================================================================
