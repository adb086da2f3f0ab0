----------------------------- MODULE MCCatalog -----------------------------
(* Constants for TLC: a root template, and a child that was added later. *)
EXTENDS Catalog, TLC

CONSTANTS w1, w2, food, lunch, a, b

TwoWriters == {w1, w2}
TwoNames == {a, b}
TwoTemplates ==
    food :> [parent |-> None, board |-> "expense", name |-> a]
    @@ lunch :> [parent |-> food, board |-> "expense", name |-> b]
OnlyFood == {food}

Symmetry == Permutations(TwoWriters)

============================================================================
