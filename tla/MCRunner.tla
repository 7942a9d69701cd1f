------------------------------ MODULE MCRunner ------------------------------
(* Small instances of Runner for TLC. *)
EXTENDS Runner

CONSTANTS x, y, v1, v2, null, p, f, g

StepOf(kind, uses, asserts, exports) ==
    [kind |-> kind, file |-> null, uses |-> uses, asserts |-> asserts,
     exports |-> [k \in DOMAIN exports |-> [as |-> exports[k], path |-> p]]]

Sub(kind, file, uses, exports) ==
    [StepOf(kind, uses, {}, exports) EXCEPT !.file = file]

Answer(v) == [q \in {p} |-> v]
Known(n, v) == [m \in {x, y} |-> IF m = n THEN v ELSE null]

MCResponses == {Answer(v1), Answer(v2), Answer(null)}
MCSubResponses ==
    [k \in {"group", "include"} |->
        IF k = "group" THEN {Answer(v1), Answer(null)} ELSE {Answer(null)}]
MCMidExports == {Known(x, null), Known(x, v2)}

\* f includes g: three frames deep.
MCBody ==
    [h \in {f, g} |->
        IF h = f THEN <<StepOf("call", x, {}, <<y>>), Sub("include", g, null, <<>>)>>
        ELSE <<StepOf("websocket", y, {}, <<y>>), StepOf("fake", null, {}, <<x>>)>>]

MCTestCases ==
    { <<StepOf("call", null, {}, <<x, y>>), Sub("group", f, x, <<y>>),
        StepOf("call", y, {<<p, v1>>}, <<>>)>>,
      <<StepOf("config", null, {<<p, v2>>}, <<x>>), Sub("include", g, x, <<>>),
        StepOf("websocket", x, {}, <<>>), StepOf("unregistered", null, {}, <<>>)>>,
      <<Sub("group", g, null, <<x>>), Sub("group", g, y, <<>>)>>,
      <<>> }
=============================================================================
