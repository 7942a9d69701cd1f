------------------------------ MODULE Sidebar -------------------------------
(***************************************************************************)
(* The catalog sidebar and its dialogs (internal/api/web/app.js:161-245,   *)
(* 346-1035): the tree of folders and test cases, the selection mode, drag *)
(* sorting, and the requests that change the catalog.  A redraw of the     *)
(* tree is the answer of two requests, and several redraws may be on their *)
(* way at once.  One confirmation overlay serves all dialogs.              *)
(*                                                                         *)
(* The context menu is opened and used in one action: it names a test case *)
(* of a tree that may be as old as the menu.  Folding a folder is left out.*)
(***************************************************************************)
EXTENDS FiniteSets, Naturals, SequencesExt

CONSTANTS
    Id, Cat,            \* test case ids; categories that can exist
    Below,              \* Below[cat]: cat and the categories inside it
    Unc,                \* the category shown for the root
    InitialOrder,       \* [Cat -> Seq(Id)]: the test cases of each category
    Targets,            \* where test cases are moved and folders created
    Saves,              \* the test cases that are saved
    MaxClicks,          \* bound: clicks, dialogs of saves and lost answers
    MaxFetches,         \* bound: redraws under way
    None

Case == [id : Id, cat : Cat]

ASSUME SidebarAssumption ==
    /\ Unc \in Cat
    /\ None \notin Id \cup Cat
    /\ None \notin [Cat -> Seq(Id)] /\ \A cats \in SUBSET Cat : None # cats
    /\ Below \in [Cat -> SUBSET Cat] /\ \A cat \in Cat : cat \in Below[cat]
    /\ IsFiniteSet(Id) /\ IsFiniteSet(Cat)
    /\ InitialOrder \in [Cat -> Seq(Id)]
    /\ Targets \subseteq Cat \cup {None} /\ Saves \subseteq Case
    /\ {MaxClicks, MaxFetches} \subseteq Nat

VARIABLES
    order,              \* the server's catalog: [Cat -> Seq(Id)]
    dirs,               \* its folders; the root is none
    tree,               \* what is drawn: [order, folders, checks, boxes, late],
                        \* `late` when it was overtaken or is incomplete
    fetches,            \* the fetchTestCases under way, oldest first
    selecting,          \* catalogSelectMode
    selected,           \* selectedCatalogItems
    drag,               \* draggedTestCase: [case, live]
    calls,              \* requests that change the catalog
    overlay,            \* what the confirmation overlay asks for, or None
    moving,             \* the move modal
    lists,              \* requests for the move modal's folders: what to move
    naming,             \* the new-folder modal: "closed", "open"
    clicks,
    doubtful            \* history: a request failed half way or its answer was lost

browser == <<selecting, selected, drag, overlay, moving, lists, naming, clicks>>
vars == <<order, dirs, tree, fetches, calls, doubtful, browser>>

CasesOf(o) == UNION {{[id |-> id, cat |-> cat] : id \in ToSet(o[cat])} : cat \in Cat}

Filled(o) == {cat \in Cat : o[cat] # <<>>}

\* The folders on disk that these are in.
Around(cats) == {cat \in Cat \ {Unc} : Below[cat] \cap cats # {}}

\* The folders on disk and those of the test cases, with every folder around them.
Folders(o, ds) == {cat \in Cat : Below[cat] \cap (ds \cup Filled(o)) # {}}

\* renderTree; checks and folder boxes are drawn from the selection.
Drawn(o, ds, chosen, late) ==
    LET inside(cat) == {c \in CasesOf(o) : c.cat \in Below[cat]}
    IN  [order |-> o, late |-> late, folders |-> Folders(o, ds),
         checks |-> CasesOf(o) \cap chosen,
         boxes |-> {cat \in Cat : inside(cat) # {} /\ inside(cat) \subseteq chosen}]

ErrorShown == [order |-> [cat \in Cat |-> <<>>], late |-> TRUE, folders |-> {},
               checks |-> {}, boxes |-> {}]

NotMoving == [open |-> FALSE, does |-> None, list |-> None, busy |-> FALSE]

Init ==
    /\ order = InitialOrder
    /\ dirs = Cat \ {Unc}
    /\ tree = Drawn(order, dirs, {}, FALSE)
    /\ fetches = <<>> /\ calls = {} /\ lists = {}
    /\ selecting = FALSE /\ selected = {} /\ drag = None
    /\ overlay = None /\ moving = NotMoving /\ naming = "closed"
    /\ clicks = 0 /\ doubtful = FALSE

-----------------------------------------------------------------------------
\* fetchTestCases: two requests at once, drawn when both are answered.
Asked == [cases |-> None, cats |-> None, late |-> FALSE]

Fetch(n) ==
    /\ Len(fetches) + n <= MaxFetches
    /\ fetches' = fetches \o [k \in 1..n |-> Asked]

ServeFetch(i) ==
    /\ \/ fetches[i].cases = None /\ fetches' = [fetches EXCEPT ![i].cases = order]
       \/ fetches[i].cats = None /\ fetches' = [fetches EXCEPT ![i].cats = dirs]
    /\ UNCHANGED <<order, dirs, tree, calls, doubtful, browser>>

\* An element that is being dragged is no longer in the document.
Redraw(i, t) ==
    /\ tree' = t
    /\ drag' = IF drag = None THEN None ELSE [drag EXCEPT !.live = FALSE]
    /\ fetches' = RemoveAt([k \in DOMAIN fetches |->
                                IF k < i THEN [fetches[k] EXCEPT !.late = TRUE]
                                ELSE fetches[k]], i)
    /\ UNCHANGED <<order, dirs, selecting, selected, calls, overlay, moving, lists, naming,
                   clicks, doubtful>>

\* When the folders cannot be listed those of the test cases are drawn.
Draw(i) ==
    LET f == fetches[i]
    IN  /\ f.cases # None /\ f.cats # None
        /\ \/ Redraw(i, Drawn(f.cases, f.cats, selected, f.late))
           \/ Redraw(i, Drawn(f.cases, {}, selected, TRUE))

FetchFails(i) == Redraw(i, ErrorShown)

-----------------------------------------------------------------------------
\* A click, when no dialog covers the page and nothing is being dragged.
Click ==
    /\ overlay = None /\ ~moving.open /\ naming = "closed" /\ drag = None
    /\ clicks < MaxClicks
    /\ clicks' = clicks + 1

Idle == UNCHANGED <<order, dirs, doubtful>>

\* setCatalogSelectMode.
SelectMode(on, n) ==
    /\ selecting' = on
    /\ selected' = IF on THEN selected ELSE {}
    /\ Fetch(n)

ToggleSelectMode ==
    /\ Click
    /\ SelectMode(~selecting, 1)
    /\ UNCHANGED <<tree, calls, drag, overlay, moving, lists, naming>> /\ Idle

\* The menu's "select" also toggles the test case it names.
MenuSelect(c) ==
    /\ Click
    /\ selecting' = TRUE
    /\ selected' = selected \cup {c}
    /\ Fetch(2)
    /\ UNCHANGED <<tree, calls, drag, overlay, moving, lists, naming>> /\ Idle

Choose(cs, on) == selected' = IF on THEN selected \cup cs ELSE selected \ cs

\* A click on an item toggles what is selected, a click on its box makes the
\* selection what the box then says.
ToggleItem(c) ==
    /\ Click /\ selecting
    /\ \/ Choose({c}, c \notin selected) /\ UNCHANGED tree
       \/ /\ Choose({c}, c \notin tree.checks)
          /\ tree' = [tree EXCEPT !.checks = SymDiff(@, {c})]
    /\ Fetch(1)
    /\ UNCHANGED <<selecting, calls, drag, overlay, moving, lists, naming>> /\ Idle

\* Mutant: the new checks are left to the next redraw.
ToggleFolderUndrawn(cat) ==
    /\ Click /\ selecting
    /\ Choose({c \in CasesOf(tree.order) : c.cat \in Below[cat]}, cat \notin tree.boxes)
    /\ tree' = [tree EXCEPT !.boxes = SymDiff(@, {cat})]
    /\ UNCHANGED <<fetches, selecting, calls, drag, overlay, moving, lists, naming>>
    /\ Idle

\* The folder's box: all test cases drawn inside it.
ToggleFolder(cat) ==
    /\ Click /\ selecting
    /\ Choose({c \in CasesOf(tree.order) : c.cat \in Below[cat]}, cat \notin tree.boxes)
    /\ tree' = [tree EXCEPT !.boxes = SymDiff(@, {cat})]
    /\ Fetch(1)
    /\ UNCHANGED <<selecting, calls, drag, overlay, moving, lists, naming>> /\ Idle

-----------------------------------------------------------------------------
DragStart(c) ==
    /\ Click /\ ~selecting
    /\ drag' = [case |-> c, live |-> TRUE]
    /\ UNCHANGED <<tree, fetches, selecting, selected, calls, overlay, moving, lists,
                   naming>> /\ Idle

DragEnd ==
    /\ drag # None
    /\ drag' = None
    /\ UNCHANGED <<tree, fetches, selecting, selected, calls, overlay, moving, lists,
                   naming, clicks>> /\ Idle

\* Mutant: a test case can be dropped into any folder.
DroppableAnywhere(target) == drag # None /\ drag.case.id # target.id

\* Sorting is for the items of one folder.
Droppable(target) ==
    /\ drag # None /\ drag.case.cat = target.cat
    /\ drag.case.id # target.id

\* A request; a sort also has the ids it posts, those drawn before the drop
\* (`drawn`), and whether the dragged item was no longer one of them (`dead`).
Request(kind, items, target) ==
    [kind |-> kind, items |-> items, target |-> target, ids |-> <<>>, drawn |-> <<>>,
     dead |-> FALSE, answer |-> "pending"]

Post(request) == calls' = calls \cup {request}

\* The test cases drawn inside a folder: its own, then those of the folders in it.
Inside(cat, own) == FoldSet(LAMBDA inner, ids : ids \o tree.order[inner], own, Below[cat] \ {cat})

Places(list, id) == {k \in DOMAIN list : list[k] = id}

\* insertBefore: the dragged element moves next to the target, whether it is still
\* the one in the list or not.
Dropped(target, above) ==
    LET shown == tree.order[target.cat]
        rests == IF drag.live /\ drag.case.cat = target.cat
                 THEN {RemoveAt(shown, k) : k \in Places(shown, drag.case.id)}
                 ELSE {shown}
    IN  UNION {{InsertAt(rest, IF above THEN at ELSE at + 1, drag.case.id) :
                    at \in Places(rest, target.id)} : rest \in rests}

\* The ids of all items inside the list are then posted.
Drop(target, above) ==
    /\ Droppable(target)
    /\ \E ids \in Dropped(target, above) :
          /\ tree' = [tree EXCEPT !.order[target.cat] = ids]
          /\ Post([kind |-> "reorder", items |-> {drag.case}, target |-> target.cat,
                   ids |-> Inside(target.cat, ids),
                   drawn |-> Inside(target.cat, tree.order[target.cat]),
                   dead |-> ~drag.live, answer |-> "pending"])
    /\ drag' = None
    /\ UNCHANGED <<fetches, selecting, selected, overlay, moving, lists, naming, clicks>>
    /\ Idle

-----------------------------------------------------------------------------
\* showConfirm, by deleteTestCase, deleteSelectedTestCases and deleteFolder: the
\* overlay says what it is for, and its handlers resolve the promise.
Ask(kind, items, target) ==
    /\ Click
    /\ overlay' = Request(kind, items, target)
    /\ UNCHANGED <<tree, fetches, selecting, selected, drag, calls, moving, lists, naming>>
    /\ Idle

AskDelete ==
    \/ \E c \in CasesOf(tree.order) : Ask("delete", {c}, None)
    \/ selecting /\ selected # {} /\ Ask("bulk-delete", selected, None)
    \/ \E cat \in tree.folders \ {Unc} :
          Ask("folder", {c \in CasesOf(tree.order) : c.cat \in Below[cat]}, cat)

\* showDialog, when a save of the runner ends: it may replace a confirmation,
\* whose promise is then never settled.
Notice ==
    /\ clicks < MaxClicks /\ clicks' = clicks + 1
    /\ overlay' = Request("notice", {}, None)
    /\ UNCHANGED <<tree, fetches, selecting, selected, drag, calls, moving, lists, naming>>
    /\ Idle

Confirm ==
    /\ overlay # None
    /\ overlay' = None
    /\ IF overlay.kind = "notice" THEN UNCHANGED calls ELSE Post(overlay)
    /\ UNCHANGED <<tree, fetches, selecting, selected, drag, moving, lists, naming, clicks>>
    /\ Idle

Cancel ==
    /\ overlay # None
    /\ overlay' = None
    /\ UNCHANGED <<tree, fetches, selecting, selected, drag, calls, moving, lists, naming,
                   clicks>> /\ Idle

-----------------------------------------------------------------------------
\* openMoveModal: the folders are asked for once it is open.
OpenMove(kind, items) ==
    LET what == [kind |-> kind, items |-> items]
    IN  /\ Click
        /\ moving' = [moving EXCEPT !.open = TRUE, !.list = None]
        /\ lists' = lists \cup {what}
        /\ UNCHANGED <<tree, fetches, selecting, selected, drag, calls, overlay, naming>>
        /\ Idle

\* The folders, or an error.  They and the handler of the button are those of the
\* opening that asked, which may be over; a modal that is closed is filled anew when
\* it opens.
ListArrives(what) ==
    /\ lists' = lists \ {what}
    /\ moving' \in IF ~moving.open THEN {moving} ELSE
                  {[moving EXCEPT !.list = dirs \cup {None}, !.does = what],
                    [moving EXCEPT !.list = None]}
    /\ UNCHANGED <<tree, fetches, selecting, selected, drag, calls, overlay, naming, clicks>>
    /\ Idle

CloseMove == [NotMoving EXCEPT !.busy = moving.busy]

ConfirmMove(target) ==
    /\ overlay = None /\ moving.open /\ ~moving.busy
    /\ moving.list # None /\ target \in moving.list /\ moving.does # None
    /\ IF moving.does.kind = "move" /\ \E c \in moving.does.items : c.cat = target
       THEN moving' = CloseMove /\ UNCHANGED calls
       ELSE /\ moving' = [moving EXCEPT !.busy = TRUE]
            /\ Post(Request(moving.does.kind, moving.does.items, target))
    /\ UNCHANGED <<tree, fetches, selecting, selected, drag, overlay, lists, naming, clicks>>
    /\ Idle

\* Mutant: a modal that is closed forgets the move that is under way.
CancelMoveForgetting ==
    /\ overlay = None /\ moving.open
    /\ moving' = NotMoving
    /\ UNCHANGED <<tree, fetches, selecting, selected, drag, calls, overlay, lists, naming,
                   clicks>> /\ Idle

CancelMove ==
    /\ overlay = None /\ moving.open
    /\ moving' = CloseMove
    /\ UNCHANGED <<tree, fetches, selecting, selected, drag, calls, overlay, lists, naming,
                   clicks>> /\ Idle

\* createNewFolder; Enter submits whether or not the button is disabled.
OpenFolder ==
    /\ Click
    /\ naming' = "open"
    /\ UNCHANGED <<tree, fetches, selecting, selected, drag, calls, overlay, moving, lists>>
    /\ Idle

SubmitFolder(cat) ==
    /\ overlay = None /\ naming = "open" /\ clicks < MaxClicks
    /\ clicks' = clicks + 1
    /\ Post(Request("create", {}, cat))
    /\ UNCHANGED <<tree, fetches, selecting, selected, drag, overlay, moving, lists, naming>>
    /\ Idle

CloseFolder ==
    /\ overlay = None /\ naming = "open"
    /\ naming' = "closed"
    /\ UNCHANGED <<tree, fetches, selecting, selected, drag, calls, overlay, moving, lists,
                   clicks>> /\ Idle

\* duplicateTestCase, and a save of the builder or the runner.
PostCase(kind, c) ==
    /\ Click
    /\ Post(Request(kind, {c}, None))
    /\ UNCHANGED <<tree, fetches, selecting, selected, drag, overlay, moving, lists, naming>>
    /\ Idle

-----------------------------------------------------------------------------
\* The server, one request at a time (Catalog.tla has its steps).
\* The lists a folder may show for these ids: those that were there keep their
\* order, a new one is listed anywhere among them.
Lists(seq, ids) ==
    {q \in SetToSeqs(ids) :
        \A i, j \in DOMAIN seq, k, l \in DOMAIN q :
            i < j /\ seq[i] = q[k] /\ seq[j] = q[l] => k < l}

\* The catalog once it has these test cases.
Revised(o, cases) ==
    LET may(cat) == Lists(o[cat], {c.id : c \in {k \in cases : k.cat = cat}})
    IN  {p \in [Cat -> UNION {may(cat) : cat \in Cat}] : \A cat \in Cat : p[cat] \in may(cat)}

\* An id that is posted twice gets its last position; the others keep theirs.
Reordered(seq, ids) ==
    LET last(id) == Max({k \in DOMAIN ids : ids[k] = id})
    IN  {q \in [DOMAIN seq -> ToSet(seq)] :
            /\ IsInjective(q)
            /\ \A i, j \in DOMAIN q :
                  i < j /\ {q[i], q[j]} \subseteq ToSet(ids) => last(q[i]) < last(q[j])}

\* A file makes the folders it is in.
Answer(c, ok, o, ds) ==
    /\ order' = o
    /\ dirs' = ds \cup Around(Filled(o))
    /\ calls' = (calls \ {c}) \cup {[c EXCEPT !.answer = IF ok THEN "ok" ELSE "failed"]}

Refuse(c) == Answer(c, FALSE, order, dirs)

Revise(c, ok, cases) == \E o \in Revised(order, cases) : Answer(c, ok, o, dirs)

There(c) == c.items \cap CasesOf(order)

HandleDelete(c) ==
    IF There(c) = c.items THEN Revise(c, TRUE, CasesOf(order) \ c.items) ELSE Refuse(c)

\* It stops at the first test case that is not there.
HandleBulkDelete(c) ==
    IF There(c) = c.items THEN Revise(c, TRUE, CasesOf(order) \ c.items)
    ELSE \E gone \in SUBSET There(c) : Revise(c, FALSE, CasesOf(order) \ gone)

HandleFolder(c) ==
    IF c.target \notin dirs THEN Refuse(c)
    ELSE Answer(c, TRUE,
                [cat \in Cat |-> IF cat \in Below[c.target] THEN <<>> ELSE order[cat]],
                dirs \ Below[c.target])

\* The root is refused as a target.  A single move fails when its test case is not
\* there or is refused, several move what can be moved and answer ok.
Movable(c) == IF c.target = None THEN {} ELSE There(c)

HandleMove(c) ==
    IF c.kind = "move" /\ Movable(c) # c.items THEN Refuse(c)
    ELSE Revise(c, TRUE, (CasesOf(order) \ Movable(c))
                            \cup {[k EXCEPT !.cat = c.target] : k \in Movable(c)})

HandleCreate(c) ==
    IF c.target = Unc THEN Refuse(c) ELSE Answer(c, TRUE, order, dirs \cup Around({c.target}))

HandleReorder(c) ==
    \E q \in Reordered(order[c.target], c.ids) :
        Answer(c, TRUE, [order EXCEPT ![c.target] = q], dirs)

\* A copy is next to the test case, under an id that is free.
Copies(c) == {[k EXCEPT !.id = id] : k \in c.items, id \in Id} \ CasesOf(order)

HandleDuplicate(c) ==
    IF There(c) = {} \/ Copies(c) = {} THEN Refuse(c)
    ELSE \E copy \in Copies(c) : Revise(c, TRUE, CasesOf(order) \cup {copy})

Handle(c) ==
    /\ c.answer = "pending"
    /\ CASE c.kind = "delete" -> HandleDelete(c)
         [] c.kind = "bulk-delete" -> HandleBulkDelete(c)
         [] c.kind = "folder" -> HandleFolder(c)
         [] c.kind \in {"move", "bulk-move"} -> HandleMove(c)
         [] c.kind = "create" -> HandleCreate(c)
         [] c.kind = "reorder" -> HandleReorder(c)
         [] c.kind = "save" -> Revise(c, TRUE, CasesOf(order) \cup c.items)
         [] OTHER -> HandleDuplicate(c)
    /\ doubtful' = (doubtful \/ (c.kind = "bulk-delete" /\ There(c) # c.items))
    /\ UNCHANGED <<tree, fetches, browser>>

\* The request failed before it changed anything.
Fail(c) ==
    /\ c.answer = "pending"
    /\ Refuse(c)
    /\ UNCHANGED <<tree, fetches, browser, doubtful>>

\* The server did what was asked, but its answer does not arrive; only a sort
\* redraws the tree all the same.
AnswerLost(c) ==
    /\ c.answer = "ok"
    /\ clicks < MaxClicks /\ clicks' = clicks + 1
    /\ Refuse(c)
    /\ doubtful' = (doubtful \/ c.kind # "reorder")
    /\ UNCHANGED <<tree, fetches, selecting, selected, drag, overlay, moving, lists, naming>>

\* Mutant: the tree is left as it is.
ChangedUndrawn(c) ==
    /\ c.kind \in {"delete", "folder", "duplicate", "save"}
    /\ UNCHANGED <<fetches, selecting, selected, moving, naming>>

\* What the answers do to the page.
Changed(c) ==
    /\ c.kind \in {"delete", "folder", "duplicate", "save"}
    /\ IF c.answer = "ok" THEN Fetch(1) ELSE UNCHANGED fetches
    /\ UNCHANGED <<selecting, selected, moving, naming>>

BulkDeleted(c) ==
    /\ c.kind = "bulk-delete"
    /\ IF c.answer = "ok" THEN SelectMode(FALSE, 1)
       ELSE UNCHANGED <<fetches, selecting, selected>>
    /\ UNCHANGED <<moving, naming>>

Moved(c) ==
    /\ c.kind \in {"move", "bulk-move"}
    /\ moving' = [IF c.answer = "ok" THEN CloseMove ELSE moving EXCEPT !.busy = FALSE]
    /\ CASE c.answer # "ok" -> UNCHANGED <<fetches, selecting, selected>>
         [] c.kind = "bulk-move" -> SelectMode(FALSE, 2)
         [] OTHER -> Fetch(1) /\ UNCHANGED <<selecting, selected>>
    /\ UNCHANGED naming

Sorted(c) ==
    /\ c.kind = "reorder"
    /\ Fetch(1)
    /\ UNCHANGED <<selecting, selected, moving, naming>>

Created(c) ==
    /\ c.kind = "create"
    /\ IF c.answer = "ok" THEN Fetch(1) /\ naming' = "closed"
       ELSE UNCHANGED <<fetches, naming>>
    /\ UNCHANGED <<selecting, selected, moving>>

Receive(c) ==
    /\ c.answer # "pending"
    /\ calls' = calls \ {c}
    /\ Changed(c) \/ BulkDeleted(c) \/ Moved(c) \/ Sorted(c) \/ Created(c)
    /\ UNCHANGED <<order, dirs, tree, drag, overlay, lists, clicks, doubtful>>

-----------------------------------------------------------------------------
Selecting ==
    \/ ToggleSelectMode
    \/ \E c \in CasesOf(tree.order) : MenuSelect(c) \/ ToggleItem(c)
    \/ \E cat \in tree.folders : ToggleFolder(cat)

Sorting ==
    \/ \E c \in CasesOf(tree.order) :
          \/ DragStart(c)
          \/ \E above \in BOOLEAN : Drop(c, above)
    \/ DragEnd

Deleting == AskDelete \/ Notice \/ Confirm \/ Cancel

Moving ==
    \/ \E c \in CasesOf(tree.order) : OpenMove("move", {c})
    \/ selected # {} /\ OpenMove("bulk-move", selected)
    \/ \E what \in lists : ListArrives(what)
    \/ \E target \in Targets : ConfirmMove(target)
    \/ CancelMove

Adding ==
    \/ OpenFolder \/ CloseFolder
    \/ \E cat \in Targets \ {None} : SubmitFolder(cat)
    \/ \E c \in CasesOf(tree.order) : PostCase("duplicate", c)
    \/ \E c \in Saves : PostCase("save", c)

Next ==
    \/ Selecting \/ Sorting \/ Deleting \/ Moving \/ Adding
    \/ \E i \in DOMAIN fetches : ServeFetch(i) \/ Draw(i) \/ FetchFails(i)
    \/ \E c \in calls : Handle(c) \/ Fail(c) \/ AnswerLost(c) \/ Receive(c)

Spec == Init /\ [][Next]_vars

-----------------------------------------------------------------------------
\* What is posted as the new order of a folder is what is drawn inside it, each item
\* as often as it was, and the dragged one once more if the tree was redrawn since
\* the drag began (app.js:563, 565, 586).
DropKeepsFolder ==
    \A c \in calls : c.kind = "reorder" =>
        \A id \in Id :
            Cardinality(Places(c.ids, id)) =
                Cardinality(Places(c.drawn, id))
                    + IF c.dead /\ id \in {k.id : k \in c.items} THEN 1 ELSE 0

\* At most one move is under way, and while it is the button that starts one is
\* disabled, though closing the modal forgets the move and opening it again fills
\* it for other test cases (app.js:902, 949, 990).
MoveCalls == {c \in calls : c.kind \in {"move", "bulk-move"}}

OneMoveAtATime ==
    /\ \A c, d \in MoveCalls : c = d
    /\ moving.busy = (MoveCalls # {})

\* With nothing under way the tree is the server's catalog, as long as the redraw
\* asked for last is answered, is not overtaken, and no bulk delete failed half way
\* nor an answer to a change was lost: then the page does not redraw
\* (app.js:346, 575, 768, 987).
TreeCatchesUp ==
    (fetches = <<>> /\ calls = {} /\ ~tree.late /\ ~doubtful) =>
        /\ tree.order = order
        /\ tree.folders = Folders(order, dirs)

\* With no redraw under way the checks are the selection, though each is changed
\* without the other (app.js:445, 480, 727).
ChecksAreSelection ==
    fetches = <<>> => tree.checks = selected \cap CasesOf(tree.order)
=============================================================================
