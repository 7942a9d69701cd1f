----------------------------- MODULE StepEditor -----------------------------
(***************************************************************************)
(* One step in the builder (internal/api/web/app.js:2295-3116, 3643-3724,  *)
(* 3861-4015): the JSON of the step, the state its form edits, and what    *)
(* the form shows.  Opening parses the JSON into the state, inputs write   *)
(* into both state and page, saving reads the page once more and builds    *)
(* the JSON.                                                               *)
(*                                                                         *)
(* A JSON value is "{}", "0" (any falsy one), "v", "ctx" (with a quoted    *)
(* placeholder) or Absent, and its printed form is the value itself.  A    *)
(* text may also be "", "bare" (a placeholder without quotes) or "bad".    *)
(* A scalar is <<"str", text>> or <<"val", text>>.  Numbers count          *)
(* thousands, and an input that was cleared shows 0.                       *)
(***************************************************************************)
EXTENDS FiniteSets, Naturals, SequencesExt

CONSTANTS
    Docs,               \* the steps in the files at the start
    Types,              \* the types the user may switch to
    Texts,              \* what is typed into a JSON editor
    Scalars,            \* what is typed into an expectation
    Numbers,            \* what is typed as a number
    Services,           \* what a gRPC server may list
    MaxRows, MaxEdits,
    Absent

ASSUME EditorAssumption ==
    /\ {MaxRows, MaxEdits} \cup Numbers \subseteq Nat /\ Absent \notin Texts
    /\ "" \notin Services

VARIABLES
    doc,                \* the saved step
    s,                  \* the state of the step
    dom,                \* what the form shows: [ops, text, num, asserts]
    connects,           \* reflection requests in flight
    connectBtn,
    typed,              \* history: the service was typed in proxy mode
    edits

vars == <<doc, s, dom, connects, connectBtn, typed, edits>>

-----------------------------------------------------------------------------
\* parseJSONWithCtxPlaceholders: the bare placeholders are quoted.
Parse(text) == IF text = "" THEN "{}" ELSE IF text = "bare" THEN "ctx" ELSE text

\* tryJSON, which knows no bare placeholders.
TryJSON(text) == IF text \in {"", "bare", "bad"} THEN "{}" ELSE text

\* value ? JSON.stringify(value) : default.
Shown(value, default) == IF value \in {Absent, "0"} THEN default ELSE value

\* parseScalar.
ParseScalar(text) == <<IF text \in {"1", "null"} THEN "val" ELSE "str", text>>

\* String(x ?? ''), also of an object.
ShowScalar(x) ==
    CASE x = <<"val", "null">> -> ""
      [] x = <<"val", "{}">> -> "[object Object]"
      [] OTHER -> x[2]

OrDefault(n, default) == IF n = 0 THEN default ELSE n

\* The timeout of an operation that names none; a send has no timeout.
Timeout(type) == [send |-> 0, await |-> 5, collect |-> 3][type]


\* An operation of a websocket step; only an await keeps its exports.
LoadOp(op) ==
    [type |-> op.type, off |-> op.off, payload |-> Shown(op.json, "{}"),
     mt |-> op.match, eq |-> IF op.match = "any" THEN "" ELSE ShowScalar(op.value),
     timeout |-> OrDefault(op.timeout, Timeout(op.type)),
     exports |-> IF op.type = "await" THEN op.exports ELSE <<>>]

\* stepFromJSON.
StepFromJSON(d) ==
    LET only(type, value, default) == IF d.type = type THEN value ELSE default
    IN  [type |-> d.type,
         payload |-> only("grpc_unary", Shown(d.json, "{}"), "{}"),
         body |-> only("http_request", Shown(d.json, ""), ""),
         routes |-> only("fake_http_start", Shown(d.json, "{}"), "{}"),
         ops |-> only("websocket", [i \in DOMAIN d.ops |-> LoadOp(d.ops[i])], <<>>),
         duration |-> only("delay", OrDefault(d.num, 1), 1),
         port |-> only("fake_http_start", OrDefault(d.num, 18), 18),
         proxy |-> only("grpc_unary", d.meta, FALSE), meta |-> d.meta,
         services |-> {d.service} \ {""}, service |-> d.service,
         asserts |-> [i \in DOMAIN d.asserts |->
                         [d.asserts[i] EXCEPT !.expect = ShowScalar(@)]]]

BuildOp(op) ==
    LET await == op.type = "await"
    IN  [type |-> op.type, off |-> op.off,
         json |-> IF op.type = "send" THEN Parse(op.payload) ELSE Absent,
         match |-> IF await THEN op.mt ELSE "equals",
         value |-> CASE ~await \/ op.mt = "any" -> <<"str", "">>
                     [] op.mt = "contains" -> <<"str", op.eq>>
                     [] OTHER -> ParseScalar(op.eq),
         timeout |-> OrDefault(op.timeout, Timeout(op.type)),
         exports |-> IF await THEN SelectSeq(op.exports, LAMBDA e : e = "full") ELSE <<>>]

\* The text of the JSON editor of the step's form.
TextOf(st) ==
    CASE st.type = "grpc_unary" -> st.payload
      [] st.type = "http_request" -> st.body
      [] st.type = "fake_http_start" -> st.routes
      [] OTHER -> ""

NumberOf(st) ==
    CASE st.type = "delay" -> st.duration
      [] st.type = "fake_http_start" -> st.port
      [] OTHER -> 0

\* collectAction and buildStepJSON.
BuildStepJSON(st) ==
    [type |-> st.type,
     json |-> CASE st.type = "grpc_unary" -> Parse(st.payload)
                [] st.type = "http_request" -> IF st.body = "" THEN Absent ELSE Parse(st.body)
                [] st.type = "fake_http_start" -> TryJSON(st.routes)
                [] OTHER -> Absent,
     ops |-> IF st.type = "websocket" THEN [i \in DOMAIN st.ops |-> BuildOp(st.ops[i])]
             ELSE <<>>,
     num |-> NumberOf(st),
     meta |-> st.type = "grpc_unary" /\ st.meta,
     service |-> IF st.type = "grpc_unary" THEN st.service ELSE "",
     asserts |-> LET kept == SelectSeq(st.asserts, LAMBDA a : a.path # "")
                 IN  [i \in DOMAIN kept |-> [kept[i] EXCEPT !.expect = ParseScalar(@)]]]

-----------------------------------------------------------------------------
\* formHTML and renderWsOps: the form of the step's type.
Form(st) ==
    [ops |-> IF st.type = "websocket" THEN st.ops ELSE <<>>, text |-> TextOf(st),
     num |-> NumberOf(st)]

\* renderAE leaves the panel of a websocket step alone.
Panel(st) == IF st.type = "websocket" THEN Absent ELSE st.asserts

\* A new form above the old panel.
Rebuilt(st) == Form(st) @@ [asserts |-> dom.asserts]

Init ==
    /\ doc \in Docs
    /\ s = StepFromJSON(doc)
    /\ dom = Form(s) @@ [asserts |-> Panel(s)]
    /\ connects = 0 /\ connectBtn = TRUE /\ typed = FALSE /\ edits = 0

Edit == edits < MaxEdits /\ edits' = edits + 1

Other == UNCHANGED <<doc, connects, connectBtn, typed>>

\* The form is rebuilt, with a new connect button.
Rebuild(st) == s' = st /\ dom' = Rebuilt(st) /\ connectBtn' = TRUE

ChangeType(t) ==
    /\ Edit
    /\ Rebuild([s EXCEPT !.type = t])
    /\ UNCHANGED <<doc, connects, typed>>

\* The JSON editor of the form.
TypeText(text) ==
    /\ Edit
    /\ s.type \in {"grpc_unary", "http_request", "fake_http_start"}
    /\ s' = CASE s.type = "grpc_unary" -> [s EXCEPT !.payload = text]
              [] s.type = "http_request" -> [s EXCEPT !.body = text]
              [] OTHER -> [s EXCEPT !.routes = text]
    /\ dom' = [dom EXCEPT !.text = text]
    /\ Other

\* The duration takes an empty input for 0, the port for its default.
TypeNumber(n) ==
    /\ Edit
    /\ s.type \in {"delay", "fake_http_start"}
    /\ s' = IF s.type = "delay" THEN [s EXCEPT !.duration = n]
            ELSE [s EXCEPT !.port = OrDefault(n, 18)]
    /\ dom' = [dom EXCEPT !.num = n]
    /\ Other

\* The assertions; a row's handlers know its index.
SetAsserts(rows) == s' = [s EXCEPT !.asserts = rows] /\ dom' = [dom EXCEPT !.asserts = rows]

AddAssert ==
    /\ Edit
    /\ dom.asserts # Absent /\ Len(s.asserts) < MaxRows
    /\ SetAsserts(Append(s.asserts, [path |-> "", expect |-> ""]))
    /\ Other

RemoveAssert(i) ==
    /\ Edit
    /\ dom.asserts # Absent /\ i \in DOMAIN s.asserts
    /\ SetAsserts(RemoveAt(s.asserts, i))
    /\ Other

TypeAssert(i, path, expect) ==
    /\ Edit
    /\ dom.asserts # Absent /\ i \in DOMAIN dom.asserts
    /\ dom' = [dom EXCEPT !.asserts[i] = [path |-> path, expect |-> expect]]
    /\ s' = [s EXCEPT !.asserts[i] = [path |-> path, expect |-> expect]]
    /\ Other

-----------------------------------------------------------------------------
\* The operations of a websocket step; every change of their order draws them.
SetOps(ops) == s' = [s EXCEPT !.ops = ops] /\ dom' = [dom EXCEPT !.ops = ops]

NewOp(type) ==
    [type |-> type, off |-> FALSE, payload |-> "{}", mt |-> "equals", eq |-> "",
     timeout |-> Timeout(type), exports |-> <<>>]

AddOp(type) ==
    /\ Edit
    /\ s.type = "websocket" /\ Len(s.ops) < MaxRows
    /\ SetOps(Append(s.ops, NewOp(type)))
    /\ Other

\* Mutant: the list is not drawn anew.
RemoveOpUndrawn(i) ==
    /\ Edit
    /\ i \in DOMAIN dom.ops /\ i \in DOMAIN s.ops
    /\ s' = [s EXCEPT !.ops = RemoveAt(@, i)]
    /\ UNCHANGED dom
    /\ Other

RemoveOp(i) ==
    /\ Edit
    /\ i \in DOMAIN dom.ops /\ i \in DOMAIN s.ops
    /\ SetOps(RemoveAt(s.ops, i))
    /\ Other

SwapOps(i) ==
    /\ Edit
    /\ {i, i + 1} \subseteq DOMAIN dom.ops
    /\ SetOps([s.ops EXCEPT ![i] = s.ops[i + 1], ![i + 1] = s.ops[i]])
    /\ Other

\* What is typed into operation i.
Inputs(op) ==
    {<<"off", ~op.off>>}
        \cup (IF op.type = "send" THEN {"payload"} \X Texts
              ELSE {"timeout"} \X Numbers)
        \cup (IF op.type = "await" /\ op.mt # "any" THEN {"eq"} \X Scalars ELSE {})
        \cup {<<"exports", [op.exports EXCEPT ![k] = "full"]>> : k \in DOMAIN op.exports}

\* A cleared timeout stands for five seconds, also that of a collect.
ReadOp(op) ==
    [op EXCEPT !.timeout = IF op.type = "send" THEN @ ELSE OrDefault(@, Timeout("await"))]

TypeOp(i, field, value) ==
    /\ Edit
    /\ i \in DOMAIN dom.ops
    /\ dom' = [dom EXCEPT !.ops[i][field] = value]
    /\ s' = [s EXCEPT !.ops[i] = ReadOp([@ EXCEPT ![field] = value])]
    /\ Other

\* The match type and the rows of an await's exports draw the list.
ChangeAwait(i) ==
    /\ Edit
    /\ i \in DOMAIN dom.ops /\ s.ops[i].type = "await"
    /\ \/ \E mt \in {"any", "contains", "equals"} : SetOps([s.ops EXCEPT ![i].mt = mt])
       \/ Len(s.ops[i].exports) < MaxRows /\ SetOps([s.ops EXCEPT ![i].exports = Append(@, "part")])
       \/ \E k \in DOMAIN s.ops[i].exports : SetOps([s.ops EXCEPT ![i].exports = RemoveAt(@, k)])
    /\ Other

-----------------------------------------------------------------------------
\* attachGrpc: via a proxy the service is typed, else chosen from a list.
ToggleProxy ==
    /\ Edit
    /\ s.type = "grpc_unary"
    /\ Rebuild([s EXCEPT !.proxy = ~@])
    /\ UNCHANGED <<doc, connects, typed>>

TypeService(name) ==
    /\ Edit
    /\ s.type = "grpc_unary" /\ s.proxy
    /\ s' = [s EXCEPT !.service = name]
    /\ typed' = TRUE
    /\ UNCHANGED <<doc, dom, connects, connectBtn>>

ChooseService(name) ==
    /\ Edit
    /\ s.type = "grpc_unary" /\ ~s.proxy
    /\ name \in s.services \cup {""}
    /\ Rebuild([s EXCEPT !.service = name])
    /\ typed' = FALSE
    /\ UNCHANGED <<doc, connects>>

Connect ==
    /\ Edit
    /\ s.type = "grpc_unary" /\ ~s.proxy /\ connectBtn
    /\ connects' = connects + 1
    /\ connectBtn' = FALSE
    /\ UNCHANGED <<doc, s, dom, typed>>

\* Mutant: the choice made from the old list is kept.
ConnectedKeeping(found) ==
    /\ connects > 0
    /\ connects' = connects - 1
    /\ Rebuild([s EXCEPT !.services = found])
    /\ typed' = FALSE
    /\ UNCHANGED <<doc, edits>>

\* An answer, whatever the form has become since; it rebuilds the form.
Connected(found) ==
    /\ connects > 0
    /\ connects' = connects - 1
    /\ Rebuild([s EXCEPT !.services = found, !.service = ""])
    /\ typed' = FALSE
    /\ UNCHANGED <<doc, edits>>

NotConnected ==
    /\ connects > 0
    /\ connects' = connects - 1
    /\ connectBtn' \in {TRUE, connectBtn}
    /\ UNCHANGED <<doc, s, dom, typed, edits>>

-----------------------------------------------------------------------------
\* syncAllFromDOM: operations by their index on the page.
Synced ==
    [s EXCEPT !.ops = [i \in DOMAIN @ |-> IF s.type = "websocket" /\ i \in DOMAIN dom.ops
                                          THEN ReadOp(dom.ops[i]) ELSE @[i]],
              !.payload = IF s.type = "grpc_unary" THEN dom.text ELSE @]

\* validateJsonEditorsForSave: an editor on the page that does not parse.
Invalid ==
    \/ dom.text = "bad"
    \/ \E i \in DOMAIN dom.ops : dom.ops[i].type = "send" /\ dom.ops[i].payload = "bad"

Save ==
    /\ Edit
    /\ s' = Synced
    /\ doc' = IF Invalid THEN doc ELSE BuildStepJSON(Synced)
    /\ UNCHANGED <<dom, connects, connectBtn, typed>>

Open ==
    /\ Edit
    /\ s' = StepFromJSON(doc)
    /\ dom' = Form(s') @@ [asserts |-> Panel(s')]
    /\ connects' = 0 /\ connectBtn' = TRUE /\ typed' = FALSE
    /\ UNCHANGED doc

Next ==
    \/ \E t \in Types : ChangeType(t)
    \/ \E text \in Texts : TypeText(text)
    \/ \E n \in Numbers : TypeNumber(n)
    \/ AddAssert
    \/ \E i \in 1..MaxRows :
          \/ RemoveAssert(i)
          \/ \E path \in {"", "p"}, expect \in Scalars : TypeAssert(i, path, expect)
          \/ RemoveOp(i) \/ SwapOps(i)
          \/ i \in DOMAIN s.ops /\ \E w \in Inputs(s.ops[i]) : TypeOp(i, w[1], w[2])
          \/ ChangeAwait(i)
    \/ \E type \in {"send", "await", "collect"} : AddOp(type)
    \/ ToggleProxy \/ Connect \/ NotConnected
    \/ \E name \in Services \cup {""} : TypeService(name) \/ ChooseService(name)
    \/ \E found \in SUBSET Services \ {{}} : Connected(found)
    \/ Save \/ Open

Spec == Init /\ [][Next]_vars

-----------------------------------------------------------------------------
\* What the form shows, read back, is what the step holds, so that saving, which
\* reads the operations by their place on the page, changes nothing else.  Only a
\* cleared timeout or port shows something else than the default it stands for
\* (app.js:2923, 2731, 2946, 2996, 3667).
FormShowsStep ==
    /\ dom.text = TextOf(s)
    /\ NumberOf(s) = IF s.type = "fake_http_start" THEN OrDefault(dom.num, 18) ELSE dom.num
    /\ s.type = "websocket" =>
          /\ Len(dom.ops) = Len(s.ops)
          /\ \A i \in DOMAIN s.ops : ReadOp(dom.ops[i]) = s.ops[i]
    /\ dom.asserts # Absent => dom.asserts = s.asserts
    /\ Synced = s

\* An input that reads back as something else: null is shown as nothing, a text
\* that looks like a value becomes one, and so does no object.
Changeable(x) == x \in {<<"val", "null">>, <<"val", "{}">>, <<"str", "1">>, <<"str", "null">>}

Lossy(op) ==
    \/ op.type = "send" /\ op.json \in {Absent, "0"}
    \/ op.type # "send" /\ op.timeout = 0
    \/ op.type = "await" /\ op.match = "equals" /\ Changeable(op.value)
    \/ op.type = "await" /\ \E i \in DOMAIN op.exports : op.exports[i] = "part"
    \/ op.type = "collect" /\ op.exports # <<>>

Faithful(d) ==
    /\ \A i \in DOMAIN d.asserts :
          d.asserts[i].path # "" /\ ~Changeable(d.asserts[i].expect)
    /\ d.type \in {"grpc_unary", "fake_http_start"} => d.json \notin {Absent, "0"}
    /\ d.type = "http_request" => d.json # "0"
    /\ d.type \in {"delay", "fake_http_start"} => d.num # 0
    /\ \A i \in DOMAIN d.ops : ~Lossy(d.ops[i])


\* The list of services has the service that will be saved, although lists arrive
\* late and forms are rebuilt meanwhile; unless it was typed in proxy mode
\* (app.js:2779, 2791).
ServiceIsListed ==
    s.type = "grpc_unary" /\ ~s.proxy /\ ~typed => s.service \in s.services \cup {""}
=============================================================================
