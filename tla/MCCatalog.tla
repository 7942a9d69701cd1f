----------------------------- MODULE MCCatalog -----------------------------
(* Small instances of Catalog for TLC. *)
EXTENDS Catalog

CONSTANTS r, u, a, b, x, y, xc, xd, k, none, c1, c2

\* x in the root, in a and in b; y in a, in a file of another name.
MCInitial ==
    [p \in Path |-> CASE p \in {<<r, x>>, <<a, x>>, <<b, x>>} -> x
                      [] p = <<a, k>> -> y
                      [] OTHER -> none]

MCCopies == [i \in Id |-> IF i = x THEN <<xc, xd>> ELSE <<>>]

In(cat, i) == [cat |-> cat, id |-> i]

Ask(type, items, target) == [type |-> type, items |-> items, target |-> target]

MCRequests ==
    { Ask("save", <<In(a, y)>>, r), Ask("save", <<In(u, x)>>, r),
      Ask("save", <<In(a, xc)>>, r),
      Ask("delete", <<In(a, x), In(b, x)>>, r), Ask("delete", <<In(a, y), In(a, xc)>>, r),
      Ask("move", <<In(a, x), In(a, y)>>, b), Ask("move", <<In(b, y), In(u, x)>>, a),
      Ask("move", <<In(a, y)>>, r),
      Ask("duplicate", <<In(a, x)>>, r), Ask("duplicate", <<In(u, x)>>, r),
      Ask("reorder", <<In(a, x), In(a, y)>>, r),
      Ask("dropFolder", <<In(a, x)>>, r), Ask("dropFolder", <<In(u, x)>>, r),
      Ask("createFolder", <<In(b, x)>>, r), Ask("createFolder", <<In(u, x)>>, r) }
=============================================================================
