----------------------------- MODULE RunnerView -----------------------------
(***************************************************************************)
(* The Test Runner tab (internal/api/web/app.js:747-791, 856-900,          *)
(* 1002-1335): one selected test case, its JSON in an editor, the cards of *)
(* a run.  The code between two awaits is one action.  Answers are         *)
(* delivered in any order, and the handler looks at what is selected then. *)
(*                                                                         *)
(* A test case document is [id, cat]: what the JSON says of itself, which  *)
(* need not be where its file is.                                          *)
(***************************************************************************)
EXTENDS FiniteSets, Naturals

CONSTANTS
    Id, Cat,            \* test case ids; categories, as the tree shows them
    Unc,                \* the category shown for the root
    Initial,            \* the files at the start
    Typed,              \* documents the user may type into the editor
    Run,                \* one per run that is started
    Batches,            \* the sets of test cases a delete or move may name
    MaxClicks,          \* bound: selections, saves, deletes, moves, ...
    MaxCalls,           \* bound: requests in flight
    None                \* null, the empty category, or an invalid document

Case == [id : Id, cat : Cat]

Doc == [id : Id, cat : Cat \cup {None}]

ASSUME ViewAssumption ==
    /\ Unc \in Cat
    /\ Initial \subseteq Case
    /\ Typed \subseteq Doc \cup {None}
    /\ \A b \in Batches : b # {} /\ b \subseteq Case
    /\ None \notin Id \cup Cat \cup Run \cup Doc
    /\ {MaxClicks, MaxCalls} \subseteq Nat

VARIABLES
    files,              \* the server's catalog
    known,              \* what a tree, however old, may show
    sel,                \* currentTestCaseId and currentTestCaseCategory
    def,                \* currentTestCase
    editor,             \* [mode, text, pristine] of the JSON editor
    saveBtn,            \* "idle", "saving", or "told" while a dialog is open
    calls,              \* requests in flight
    waiters,            \* the intervals of the context menu
    opened,             \* what was last handed to the builder
    run,                \* each run: [phase, case]
    result,             \* currentRunResult
    cards,              \* the step cards: [kind, of, by]
    runBtn,             \* btnRun: "on" or "off"
    clicks,
    doubtful            \* history: changes overlapped, one failed half way or its
                        \* answer was lost, or a stale tree was clicked

page == <<sel, def, editor, cards, runBtn>>
vars == <<files, known, page, saveBtn, calls, waiters, opened, run, result, clicks,
          doubtful>>

\* "move" is of one test case, "bulk" of the selected ones.
Changing == {"save", "move", "bulk", "delete", "folder"}

Call(kind, items, target) ==
    [kind |-> kind, items |-> items, target |-> target, answer |-> "pending"]

Closed(mode) == [mode |-> mode, text |-> None, pristine |-> None]

Showing(doc) == [mode |-> "open", text |-> doc, pristine |-> doc]

Hint == [kind |-> "hint", of |-> None, by |-> None]

Init ==
    /\ files = Initial /\ known = Initial
    /\ sel = None /\ def = None /\ editor = Closed("hint")
    /\ saveBtn = "idle" /\ calls = {} /\ waiters = {} /\ opened = None
    /\ run = [r \in Run |-> [phase |-> "new", case |-> None]]
    /\ result = None /\ cards = Hint /\ runBtn = "off"
    /\ clicks = 0 /\ doubtful = FALSE

\* The user clicks; no dialog covers the page.
Click == saveBtn # "told" /\ clicks < MaxClicks /\ clicks' = clicks + 1

Send(call) ==
    /\ Cardinality(calls) < MaxCalls
    /\ calls' = calls \cup {call}
    /\ doubtful' = \/ doubtful
                   \/ call.kind = "get" /\ ~(call.items \subseteq files)
                   \/ call.kind \in Changing /\ \E c \in calls : c.kind \in Changing

-----------------------------------------------------------------------------
\* selectTestCase, from the tree or as the first half of the context menu's
\* "run" and "edit", which then poll for the definition.
Select(c, then) ==
    /\ Click
    /\ c \in known
    /\ sel' = c /\ def' = None /\ editor' = Closed("loading")
    /\ cards' = Hint /\ runBtn' = "on"
    /\ Send(Call("get", {c}, None))
    /\ waiters' = waiters \cup (IF then = "look" THEN {} ELSE {[case |-> c, then |-> then]})
    /\ UNCHANGED <<files, known, saveBtn, opened, run, result>>

\* refreshSelectedTestCase, called when the builder has saved a test case.
Refresh(c) ==
    /\ sel = c
    /\ Send(Call("get", {c}, None))
    /\ UNCHANGED page

BuilderSaved(c) ==
    /\ Click
    /\ files' = files \cup {c} /\ known' = known \cup {c}
    /\ Refresh(c) \/ (sel # c /\ UNCHANGED <<page, calls, doubtful>>)
    /\ UNCHANGED <<saveBtn, waiters, opened, run, result>>

\* Mutant: a definition is shown whatever is selected by now.
LoadedAnyway(c) ==
    /\ c.kind = "get"
    /\ IF sel = None THEN UNCHANGED <<def, editor>>
       ELSE IF c.answer = "ok"
       THEN \E k \in c.items : def' = k /\ editor' = Showing(k)
       ELSE editor' = Closed("failed") /\ UNCHANGED def
    /\ UNCHANGED <<sel, saveBtn, known, result, cards, runBtn>>

\* fetchTestCaseDefinition's answer.
Loaded(c) ==
    /\ c.kind = "get"
    /\ IF sel \notin c.items THEN UNCHANGED <<def, editor>>
       ELSE IF c.answer = "ok" THEN def' = sel /\ editor' = Showing(sel)
       ELSE editor' = Closed("failed") /\ UNCHANGED def
    /\ UNCHANGED <<sel, saveBtn, known, result, cards, runBtn>>

Type(doc) ==
    /\ Click
    /\ editor.mode = "open"
    /\ editor' = [editor EXCEPT !.text = doc]
    /\ UNCHANGED <<files, known, sel, def, saveBtn, calls, waiters, opened, run, result,
                   cards, runBtn, doubtful>>

\* saveRunnerTestCaseJson: the button shows while the text differs.  What is not
\* a test case is refused by a dialog.
Save ==
    /\ Click
    /\ saveBtn = "idle" /\ sel # None
    /\ editor.mode = "open" /\ editor.text # editor.pristine
    /\ IF editor.text = None THEN saveBtn' = "told" /\ UNCHANGED <<calls, doubtful>>
       ELSE /\ saveBtn' = "saving"
            /\ \E cat \in IF editor.text.cat # None THEN {editor.text.cat}
                          ELSE IF sel.cat # None THEN {sel.cat} ELSE Cat :
                 Send(Call("save", {[id |-> editor.text.id, cat |-> cat]}, None))
    /\ UNCHANGED <<files, known, page, waiters, opened, run, result>>

\* Its answer: the saved document becomes the selected one, whatever was selected
\* or typed since, and a dialog says so.
Saved(c) ==
    /\ c.kind = "save"
    /\ saveBtn' = "told"
    /\ IF c.answer = "ok"
       THEN \E k \in c.items : sel' = k /\ def' = k /\ editor' = Showing(k)
       ELSE UNCHANGED <<sel, def, editor>>
    /\ UNCHANGED <<known, result, cards, runBtn>>

DialogClosed ==
    /\ saveBtn = "told"
    /\ saveBtn' = "idle"
    /\ UNCHANGED <<files, known, page, calls, waiters, opened, run, result, clicks,
                   doubtful>>

-----------------------------------------------------------------------------
\* Deletes and moves, of one test case or of the selected ones, after the user
\* confirmed them; deletes of a folder other than Unc.
Ask(kind, items, target) ==
    /\ Click
    /\ items \subseteq known
    /\ Send(Call(kind, items, target))
    /\ UNCHANGED <<files, known, page, saveBtn, waiters, opened, run, result>>

\* `item` is what is selected: an empty category matches every one.
IsSelected(item) == sel # None /\ sel.id = item.id /\ sel.cat \in {None, item.cat}

\* Mutant: the cards of the last run stay.
ClearKeepingCards ==
    /\ sel' = None /\ def' = None /\ editor' = Closed("hint")
    /\ result' = None /\ runBtn' = "off"
    /\ UNCHANGED cards

ClearSelection ==
    /\ sel' = None /\ def' = None /\ editor' = Closed("hint")
    /\ result' = None /\ cards' = Hint /\ runBtn' = "off"

Deleted(c) ==
    /\ c.kind = "delete"
    /\ IF c.answer = "ok" /\ \E k \in c.items : IsSelected(k)
       THEN ClearSelection ELSE UNCHANGED <<page, result>>
    /\ UNCHANGED <<saveBtn, known>>

FolderDeleted(c) ==
    /\ c.kind = "folder"
    /\ IF c.answer = "ok" /\ sel # None /\ sel.cat = c.target
       THEN ClearSelection ELSE UNCHANGED <<page, result>>
    /\ UNCHANGED <<saveBtn, known>>

\* Mutant: a move leaves the selection as it was.
MovedAway(c) ==
    /\ c.kind \in {"move", "bulk"}
    /\ UNCHANGED <<sel, def, editor, saveBtn, known, result, cards, runBtn>>

\* The document keeps the category it was loaded with.  A bulk answer does not
\* say which of the test cases moved: all of them are taken to have.
Moved(c) ==
    /\ c.kind \in {"move", "bulk"}
    /\ IF c.answer = "ok" /\ \E k \in c.items : IsSelected(k)
       THEN sel' = [sel EXCEPT !.cat = c.target] ELSE UNCHANGED sel
    /\ UNCHANGED <<def, editor, saveBtn, known, result, cards, runBtn>>

\* An answer arrives.
Receive(c) ==
    /\ c \in calls /\ c.answer # "pending"
    /\ calls' = calls \ {c}
    /\ Loaded(c) \/ Saved(c) \/ Deleted(c) \/ FolderDeleted(c) \/ Moved(c)
    /\ UNCHANGED <<files, waiters, opened, run, clicks, doubtful>>

\* The server.
Answer(c, ok, catalog) ==
    /\ files' = catalog
    /\ known' = known \cup catalog
    /\ calls' = (calls \ {c}) \cup {[c EXCEPT !.answer = IF ok THEN "ok" ELSE "failed"]}

\* What a move leaves: the root is refused as a target.
AfterMove(c) ==
    IF c.target = None THEN files
    ELSE (files \ c.items)
            \cup {[id |-> f.id, cat |-> c.target] : f \in c.items \cap files}

\* A bulk move skips what it cannot move and answers 200 all the same.
Handle(c) ==
    LET there == c.items \cap files
        whole == there = c.items
    IN  /\ c \in calls /\ c.answer = "pending"
        /\ CASE c.kind = "get" -> Answer(c, whole, files)
             [] c.kind = "save" -> Answer(c, TRUE, files \cup c.items)
             [] c.kind = "folder" -> Answer(c, TRUE, {f \in files : f.cat # c.target})
             [] c.kind = "move" -> Answer(c, whole /\ c.target # None, AfterMove(c))
             [] c.kind = "bulk" -> Answer(c, TRUE, AfterMove(c))
             [] OTHER ->
                  \E gone \in IF whole THEN {there} ELSE SUBSET there :
                      Answer(c, whole, files \ gone)
        /\ doubtful' = (doubtful \/ (c.kind \in {"move", "bulk", "delete"} /\ ~whole))
        /\ UNCHANGED <<page, saveBtn, waiters, opened, run, result, clicks>>

\* The request failed before it changed anything.
Fail(c) ==
    /\ c \in calls /\ c.answer = "pending"
    /\ Answer(c, FALSE, files)
    /\ UNCHANGED <<page, saveBtn, waiters, opened, run, result, clicks, doubtful>>

\* The server did what was asked, but its answer does not arrive.
AnswerLost(c) ==
    /\ c \in calls /\ c.answer = "ok"
    /\ Answer(c, FALSE, files)
    /\ doubtful' = (doubtful \/ c.kind \in Changing)
    /\ UNCHANGED <<page, saveBtn, waiters, opened, run, result, clicks>>

-----------------------------------------------------------------------------
\* executeTestCase up to its fetch: what is selected is run, the cards are those
\* of the document.
Execute(r) ==
    /\ run[r].phase = "new"
    /\ IF sel = None \/ def = None THEN UNCHANGED <<run, cards, runBtn>>
       ELSE /\ run' = [run EXCEPT ![r] = [phase |-> "posted", case |-> sel]]
            /\ cards' = [kind |-> "pending", of |-> r, by |-> None]
            /\ runBtn' = "off"
    /\ UNCHANGED <<files, known, sel, def, editor, saveBtn, calls, result, doubtful>>

ClickRun(r) ==
    /\ Click
    /\ runBtn = "on"
    /\ Execute(r)
    /\ UNCHANGED <<waiters, opened>>

ClickEdit ==
    /\ Click
    /\ sel # None
    /\ opened' = IF def = None THEN opened ELSE def
    /\ UNCHANGED <<files, known, page, saveBtn, calls, waiters, run, result, doubtful>>

\* The poll finds a definition, whichever it is by then.
WaiterFires(w) ==
    /\ w \in waiters /\ def # None
    /\ waiters' = waiters \ {w}
    /\ IF w.then = "run" THEN (\E r \in Run : Execute(r)) /\ UNCHANGED opened
       ELSE opened' = def /\ UNCHANGED <<files, known, page, saveBtn, calls, run, result,
                                         doubtful>>
    /\ UNCHANGED clicks

\* Five seconds are over.
WaiterStops(w) ==
    /\ w \in waiters
    /\ waiters' = waiters \ {w}
    /\ UNCHANGED <<files, known, page, saveBtn, calls, opened, run, result, clicks,
                   doubtful>>

Phase(r, p) == run' = [run EXCEPT ![r].phase = p]

\* A progress event recolours the cards by index, whose ever they are.
Progress(r) ==
    /\ run[r].phase = "posted"
    /\ cards.kind = "pending"
    /\ cards' = [cards EXCEPT !.by = r]
    /\ UNCHANGED <<run, runBtn, result>>

\* renderRunResult; a run without steps leaves only a hint.
Complete(r) ==
    /\ run[r].phase = "posted"
    /\ Phase(r, "complete")
    /\ result' = r
    /\ cards' \in {Hint, [kind |-> "result", of |-> r, by |-> r]}
    /\ UNCHANGED runBtn


\* The server refuses the run.
Refused(r) ==
    /\ run[r].phase = "posted"
    /\ Phase(r, "ended")
    /\ cards' = Hint
    /\ runBtn' = "on"
    /\ UNCHANGED result

\* The stream is read to its end.
Done(r) ==
    /\ run[r].phase \in {"posted", "complete"}
    /\ Phase(r, "ended")
    /\ runBtn' = "on"
    /\ UNCHANGED <<cards, result>>

\* The stream breaks: the message is appended to the list's HTML, which parses
\* the cards anew, without their click handlers.
Broken(r) ==
    /\ run[r].phase \in {"posted", "complete"}
    /\ Phase(r, "ended")
    /\ cards' = [cards EXCEPT !.kind = IF @ = "result" THEN "dead" ELSE @]
    /\ runBtn' = "on"
    /\ UNCHANGED result

Stream(r) ==
    /\ Progress(r) \/ Complete(r) \/ Refused(r) \/ Done(r) \/ Broken(r)
    /\ UNCHANGED <<files, known, sel, def, editor, saveBtn, calls, waiters, opened, clicks,
                   doubtful>>

Next ==
    \/ \E c \in Case :
          \/ \E then \in {"look", "run", "edit"} : Select(c, then)
          \/ BuilderSaved(c)
    \/ \E doc \in Typed : Type(doc)
    \/ Save \/ DialogClosed
    \/ \E items \in Batches :
          \/ Ask("delete", items, None)
          \/ \E target \in (Cat \ {Unc}) \cup {None} :
                \/ Ask("bulk", items, target)
                \/ Cardinality(items) = 1 /\ Ask("move", items, target)
    \/ \E cat \in Cat \ {Unc} : Ask("folder", {}, cat)
    \/ \E c \in calls : Receive(c) \/ Handle(c) \/ Fail(c) \/ AnswerLost(c)
    \/ \E r \in Run : ClickRun(r) \/ Stream(r)
    \/ ClickEdit
    \/ \E w \in waiters : WaiterFires(w) \/ WaiterStops(w)

Spec == Init /\ [][Next]_vars

\* Requests are handled and answered, a run that was posted ends (Runner!RunEnds,
\* or the connection breaks), and a dialog is closed by the user some time.
FairSpec ==
    /\ Spec
    /\ WF_vars(\E c \in calls : Receive(c) \/ Handle(c))
    /\ \A r \in Run : WF_vars((Refused(r) \/ Done(r) \/ Broken(r)) /\ Stream(r))
    /\ WF_vars(DialogClosed)

-----------------------------------------------------------------------------
\* The editor can be typed in only while it holds the test case that is selected:
\* a definition that arrives after another selection is dropped, a save takes the
\* selection with it (app.js:1078, 1146, 1037).
EditorOfSelection ==
    /\ editor.mode = "open" => def # None
    /\ def # None => sel # None /\ def.id = sel.id

\* A card that can be clicked belongs to the result the click will read: showing
\* a step of a cleared result would throw (app.js:1238, 1292, 1305).
CardsMatchResult == cards.kind = "result" => cards.of = result

\* No change is under way, none has left doubt, and a test case is open.
Settled == ~doubtful /\ editor.mode = "open" /\ \A c \in calls : c.kind \notin Changing

\* Whoever deletes or moves a test case finds the page on one that exists, as long
\* as the changes come one after another, whole and answered, whatever is
\* selected, saved and loaded meanwhile (app.js:765, 784, 982, 1028).  The
\* exception is a selection the page takes to be in the root: nothing is ever
\* moved there, and a delete of the folder it is still in does not clear it.
SelectionExists == Settled /\ sel.cat # None => sel \in files

\* "Catalog category should reflect filesystem location"
\* (docs/design/06_web_ui_spec.md:233): the selected test case is where the page
\* has it.  What the code does violates it: a bulk move to the root moves nothing
\* and is answered like one that moved everything.
CategoryIsLocation ==
    Settled => [sel EXCEPT !.cat = IF @ = None THEN Unc ELSE @] \in files

=============================================================================
