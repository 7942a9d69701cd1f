----------------------------- MODULE MCSidebar ------------------------------
(* Small instances of Sidebar for TLC: folder "fg" is inside "f". *)
EXTENDS Sidebar

MCBelow == [cat \in Cat |-> IF cat = "f" THEN {"f", "fg"} ELSE {cat}]
MCOrder == [f |-> <<"a", "b">>, fg |-> <<>>, unc |-> <<>>]
MCTargets == {"fg", None}
MCSaves == {[id |-> "b", cat |-> "f"]}
=============================================================================
