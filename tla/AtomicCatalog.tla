--------------------------- MODULE AtomicCatalog ---------------------------
(***************************************************************************)
(* What the catalog promises one user: a map from category and id to a     *)
(* test case, changed by one operation at a time.                          *)
(***************************************************************************)
EXTENDS Naturals

CONSTANTS
    Category,
    Id,
    Text,               \* everything of a test case but its id and order
    Copies,             \* the ids a copy of a test case may get
    None                \* no such test case

VARIABLE cases

Set(cat, id, case) == cases' = [cases EXCEPT ![<<cat, id>>] = case]

Known(cat, id) == cases[<<cat, id>>] # None

Save(cat, id) == \E text \in Text : Set(cat, id, [text |-> text, order |-> 0])

Delete(cat, id) == Known(cat, id) /\ Set(cat, id, None)

\* A test case of that id in the target category is replaced.
Move(cat, id, target) ==
    /\ Known(cat, id)
    /\ cases' = [cases EXCEPT ![<<cat, id>>] = None, ![<<target, id>>] = cases[<<cat, id>>]]

\* A copy takes the place of no other test case.
Copy(cat, id) ==
    /\ Known(cat, id)
    /\ \E new \in Copies[id] : ~Known(cat, new) /\ Set(cat, new, cases[<<cat, id>>])

Reorder(cat, id, n) ==
    Known(cat, id) /\ Set(cat, id, [cases[<<cat, id>>] EXCEPT !.order = n])

Drop(cat) ==
    cases' = [p \in DOMAIN cases |-> IF p[1] = cat THEN None ELSE cases[p]]
=============================================================================
