---------------------------- MODULE MCStepEditor ----------------------------
(* Small instances of StepEditor for TLC: every kind of step, with every kind of
   value a file can hold. *)
EXTENDS StepEditor

MCBlank == [type |-> "include", json |-> Absent, ops |-> <<>>, num |-> 0, meta |-> FALSE,
            service |-> "", asserts |-> <<>>]

MCScalar == {<<"val", "null">>, <<"val", "1">>, <<"val", "{}">>, <<"str", "1">>,
             <<"str", "null">>, <<"str", "t">>, <<"str", "">>}

MCOp == [type |-> "await", off |-> FALSE, json |-> Absent, match |-> "equals",
         value |-> <<"str", "">>, timeout |-> 5, exports |-> <<>>]

MCOps ==
    {[MCOp EXCEPT !.type = "send", !.json = json, !.timeout = 0] :
         json \in {Absent, "0", "{}", "v"}}
        \cup {[MCOp EXCEPT !.type = "collect", !.timeout = n, !.off = off, !.exports = e] :
                  n \in {0, 2, 3}, off \in BOOLEAN, e \in {<<>>, <<"full">>}}
        \cup {[MCOp EXCEPT !.timeout = n] : n \in {0, 2}}
        \cup {[MCOp EXCEPT !.value = x, !.exports = e] :
                  x \in MCScalar, e \in {<<>>, <<"full">>, <<"part">>}}
        \cup {[MCOp EXCEPT !.match = "contains", !.value = <<"str", t>>] : t \in {"", "t", "1"}}
        \cup {[MCOp EXCEPT !.match = "any"]}

MCDocs ==
    {[MCBlank EXCEPT !.type = type, !.json = json] :
         type \in {"grpc_unary", "http_request"}, json \in {Absent, "0", "{}", "v", "ctx"}}
        \cup {[MCBlank EXCEPT !.type = "fake_http_start", !.json = json, !.num = n] :
                  json \in {Absent, "0", "{}", "v", "ctx"}, n \in {0, 18}}
        \cup {[MCBlank EXCEPT !.type = "grpc_unary", !.json = "v", !.service = "S", !.meta = m] :
                  m \in BOOLEAN}
        \cup {[MCBlank EXCEPT !.type = "delay", !.num = n] : n \in 0..2}
        \cup {[MCBlank EXCEPT !.type = "websocket", !.ops = <<op>>] : op \in MCOps}
        \cup {[MCBlank EXCEPT !.asserts = <<[path |-> path, expect |-> x]>>] :
                  path \in {"", "p"}, x \in MCScalar}
=============================================================================
