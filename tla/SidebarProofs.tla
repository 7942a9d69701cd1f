---------------------------- MODULE SidebarProofs ----------------------------
(***************************************************************************)
(* For every catalog, whatever is selected, dragged, confirmed and moved,  *)
(* and however redraws and answers interleave: a sort posts what is drawn, *)
(* one move at a time is under way, the checks are the selection, and with *)
(* nothing under way the tree is the server's catalog.                     *)
(*                                                                         *)
(* The first counts: a drop keeps how often an id is in its list, or adds  *)
(* one, and the fold that collects the folders inside keeps the difference *)
(* of two lists it starts from.                                            *)
(* The last rests on the redraw asked for last: whoever changes the        *)
(* catalog asks for one when told, so as long as every change has been     *)
(* told, what this redraw has heard so far is the catalog as it is.        *)
(***************************************************************************)
EXTENDS Sidebar, FiniteSetTheorems, SequenceTheorems, WellFoundedInduction, TLAPS

Catalogs == [Cat -> Seq(Id)]

TreeType ==
    [order : Catalogs, late : BOOLEAN, folders : SUBSET Cat, checks : SUBSET Case,
     boxes : SUBSET Cat]

FetchType ==
    [cases : Catalogs \cup {None}, cats : (SUBSET Cat) \cup {None}, late : BOOLEAN]

What == [kind : {"move", "bulk-move"}, items : SUBSET Case]

MovingType ==
    [open : BOOLEAN, does : What \cup {None},
     list : (SUBSET (Cat \cup {None})) \cup {None}, busy : BOOLEAN]

MoveKinds == {"move", "bulk-move"}

PlainKinds == {"delete", "bulk-delete", "folder", "create", "save", "duplicate"}

Kinds == PlainKinds \cup MoveKinds \cup {"reorder"}

\* What a dialog asks for.
AskType ==
    {Request(kind, items, target) :
        kind \in {"delete", "bulk-delete", "folder", "notice"}, items \in SUBSET Case,
        target \in Cat \cup {None}}

\* A request.
IsCall(c) ==
    /\ c = [kind |-> c.kind, items |-> c.items, target |-> c.target, ids |-> c.ids,
            drawn |-> c.drawn, dead |-> c.dead, answer |-> c.answer]
    /\ c.kind \in Kinds /\ c.items \in SUBSET Case /\ c.target \in Cat \cup {None}
    /\ c.kind = "reorder" => c.target \in Cat
    /\ c.answer \in {"pending", "ok", "failed"}

PageTypeOK ==
    /\ selecting \in BOOLEAN /\ selected \in SUBSET Case
    /\ drag \in [case : Case, live : BOOLEAN] \cup {None}
    /\ overlay \in AskType \cup {None}
    /\ moving \in MovingType /\ lists \in SUBSET What
    /\ naming \in {"closed", "open"} /\ clicks \in 0..MaxClicks

TreeTypeOK == tree \in TreeType /\ fetches \in Seq(FetchType)

ServerTypeOK ==
    /\ order \in Catalogs /\ dirs \in SUBSET (Cat \ {Unc}) /\ doubtful \in BOOLEAN

CallsTypeOK == \A c \in calls : IsCall(c)

SidebarTypeOK == PageTypeOK /\ TreeTypeOK /\ ServerTypeOK /\ CallsTypeOK

\* A move modal that is closed does nothing.
ClosedModal == ~moving.open => moving.does = None

\* Nothing is dragged while test cases are selected.
DragsAlone == (drag # None => ~selecting) /\ (~selecting => selected = {})

\* The folders of the test cases are on disk.
DirsHoldFiles == Around(Filled(order)) \subseteq dirs

\* No change waits to be told: a sort asks for a redraw whatever it is told.
Told == \A c \in calls : c.answer # "ok" /\ (c.kind = "reorder" => c.answer = "pending")

\* What the redraw asked for last has heard is the catalog.
LastIsCurrent ==
    fetches # <<>> /\ ~doubtful /\ Told /\ ~fetches[Len(fetches)].late =>
        /\ fetches[Len(fetches)].cases \in {None, order}
        /\ fetches[Len(fetches)].cats \in {None, dirs}

TreeIsCurrent ==
    fetches = <<>> /\ ~tree.late /\ ~doubtful /\ Told
    /\ (\A c \in calls : c.kind # "reorder") =>
        tree.order = order /\ tree.folders = Folders(order, dirs)

SidebarInv ==
    /\ SidebarTypeOK
    /\ ClosedModal
    /\ DragsAlone
    /\ DirsHoldFiles
    /\ OneMoveAtATime
    /\ DropKeepsFolder
    /\ ChecksAreSelection
    /\ LastIsCurrent
    /\ TreeIsCurrent

\* A sort posts every id as often as it was drawn, and a dead one once more.
Counted(c) ==
    \A id \in Id :
        Cardinality(Places(c.ids, id)) =
            Cardinality(Places(c.drawn, id))
                + IF c.dead /\ id \in {k.id : k \in c.items} THEN 1 ELSE 0

\* A request as it is sent.
Sent(c) == IsCall(c) /\ c.answer = "pending" /\ (c.kind = "reorder" => Counted(c))

Posted(kinds) == \E c : Sent(c) /\ c.kind \in kinds /\ calls' = calls \cup {c}

-----------------------------------------------------------------------------
\* A drawn test case is a test case.
LEMMA CasesFacts ==
  ASSUME NEW o \in Catalogs
  PROVE  /\ CasesOf(o) \in SUBSET Case
         /\ \A c \in CasesOf(o) : c.id \in ToSet(o[c.cat]) /\ c.cat \in Cat /\ c.id \in Id
<1> SUFFICES ASSUME NEW c \in CasesOf(o)
             PROVE  c \in Case /\ c.id \in ToSet(o[c.cat]) /\ c.cat \in Cat /\ c.id \in Id
  OBVIOUS
<1>1. PICK cat \in Cat : c \in {[id |-> id, cat |-> cat] : id \in ToSet(o[cat])}
  BY DEF CasesOf
<1>2. PICK id \in ToSet(o[cat]) : c = [id |-> id, cat |-> cat]
  BY <1>1
<1>3. o[cat] \in Seq(Id)
  BY DEF Catalogs
<1>4. id \in Id
  BY <1>2, <1>3 DEF ToSet
<1>. QED
  BY <1>2, <1>4 DEF Case

\* What a redraw draws.
LEMMA DrawnFacts ==
  ASSUME NEW o \in Catalogs, NEW ds \in SUBSET Cat, NEW chosen, NEW late \in BOOLEAN
  PROVE  /\ Drawn(o, ds, chosen, late) \in TreeType
         /\ Drawn(o, ds, chosen, late).order = o
         /\ Drawn(o, ds, chosen, late).late = late
         /\ Drawn(o, ds, chosen, late).folders = Folders(o, ds)
         /\ Drawn(o, ds, chosen, late).checks = CasesOf(o) \cap chosen
<1>1. CasesOf(o) \cap chosen \in SUBSET Case
  BY CasesFacts
<1>2. Folders(o, ds) \in SUBSET Cat
  BY DEF Folders
<1>. QED
  BY <1>1, <1>2 DEF Drawn, TreeType

\* A redraw that is asked for makes up for whatever was not told before.
LEMMA FetchFacts ==
  ASSUME TreeTypeOK, NEW n \in {1, 2}, Fetch(n)
  PROVE  /\ fetches' \in Seq(FetchType)
         /\ ChecksAreSelection' /\ LastIsCurrent' /\ TreeIsCurrent'
<1> DEFINE new == [k \in 1..n |-> Asked]
<1>1. Asked \in FetchType
  BY DEF Asked, FetchType
<1>2. new \in Seq(FetchType) /\ Len(new) = n /\ new[n] = Asked
  BY <1>1
<1>3. fetches' = fetches \o new /\ fetches \in Seq(FetchType)
  BY DEF Fetch, TreeTypeOK
<1>. HIDE DEF new
<1>4. /\ fetches' \in Seq(FetchType) /\ Len(fetches') = Len(fetches) + n
      /\ Len(fetches') # 0
  BY <1>2, <1>3
<1>5. fetches'[Len(fetches')] = Asked
  BY <1>2, <1>3, <1>4, ConcatProperties
<1>6. fetches' # <<>>
  BY <1>4
<1>7. Asked.cases = None /\ Asked.cats = None
  BY DEF Asked
<1>. QED
  BY <1>4, <1>5, <1>6, <1>7 DEF ChecksAreSelection, LastIsCurrent, TreeIsCurrent

\* A request that is no sort.
LEMMA RequestFacts ==
  ASSUME NEW kind \in Kinds \ {"reorder"}, NEW items \in SUBSET Case,
         NEW target \in Cat \cup {None}, Post(Request(kind, items, target))
  PROVE  Posted({kind})
<1> DEFINE c == Request(kind, items, target)
<1>1. /\ c = [kind |-> c.kind, items |-> c.items, target |-> c.target, ids |-> c.ids,
              drawn |-> c.drawn, dead |-> c.dead, answer |-> c.answer]
      /\ c.kind = kind /\ c.items = items /\ c.target = target /\ c.answer = "pending"
  BY DEF Request
<1>2. calls' = calls \cup {c}
  BY DEF Post
<1>. HIDE DEF c
<1>3. Sent(c)
  BY <1>1 DEF Sent, IsCall
<1>. QED
  BY <1>1, <1>2, <1>3 DEF Posted

\* What a request that is sent, or none, leaves as it was.
LEMMA CallsFacts ==
  ASSUME SidebarInv, Posted(Kinds) \/ UNCHANGED calls
  PROVE  /\ CallsTypeOK' /\ DropKeepsFolder' /\ (Told' <=> Told)
         /\ (\A c \in calls' : c.kind # "reorder") => \A c \in calls : c.kind # "reorder"
<1>1. CallsTypeOK /\ DropKeepsFolder
  BY DEF SidebarInv, SidebarTypeOK
<1>2. CASE UNCHANGED calls
  BY <1>1, <1>2 DEF CallsTypeOK, DropKeepsFolder, Told
<1>3. CASE Posted(Kinds)
  <2>1. PICK c : Sent(c) /\ calls' = calls \cup {c}
    BY <1>3 DEF Posted
  <2>2. CallsTypeOK'
    BY <1>1, <2>1 DEF CallsTypeOK, Sent
  <2>3. DropKeepsFolder'
    BY <1>1, <2>1 DEF DropKeepsFolder, Sent, Counted
  <2>4. Told' <=> Told
    BY <2>1 DEF Told, Sent
  <2>. QED
    BY <2>1, <2>2, <2>3, <2>4
<1>. QED
  BY <1>2, <1>3

LEMMA PostedFacts ==
  ASSUME NEW kind \in PlainKinds, Posted({kind})
  PROVE  Posted(PlainKinds)
BY DEF Posted

\* A request that is no move leaves those under way alone.
LEMMA MovesKept ==
  ASSUME SidebarInv, Posted(PlainKinds \cup {"reorder"}) \/ UNCHANGED calls,
         moving'.busy = moving.busy
  PROVE  OneMoveAtATime' /\ (Posted(Kinds) \/ UNCHANGED calls)
<1>1. MoveCalls' = MoveCalls
  BY DEF Posted, MoveCalls, PlainKinds
<1>2. Posted(Kinds) \/ UNCHANGED calls
  BY DEF Posted, Kinds
<1>. QED
  BY <1>1, <1>2 DEF SidebarInv, OneMoveAtATime

\* What leaves tree, selection and catalog alone, and sends a request at most.
LEMMA QuietKeepsSidebar ==
  ASSUME SidebarInv, Posted(Kinds) \/ UNCHANGED calls,
         UNCHANGED <<order, dirs, doubtful, tree, fetches, selecting, selected>>,
         PageTypeOK', ClosedModal', DragsAlone', OneMoveAtATime'
  PROVE  SidebarInv'
<1>1. SidebarTypeOK'
  BY CallsFacts DEF SidebarInv, SidebarTypeOK, TreeTypeOK, ServerTypeOK
<1>2. ChecksAreSelection'
  BY DEF SidebarInv, ChecksAreSelection
<1>3. LastIsCurrent' /\ TreeIsCurrent'
  BY CallsFacts DEF SidebarInv, LastIsCurrent, TreeIsCurrent
<1>4. DirsHoldFiles'
  BY DEF SidebarInv, DirsHoldFiles
<1>. QED
  BY <1>1, <1>2, <1>3, <1>4, CallsFacts DEF SidebarInv

\* The same when the move modal is left alone and no move is sent.
LEMMA PlainKeepsSidebar ==
  ASSUME SidebarInv, Posted(PlainKinds) \/ UNCHANGED calls,
         UNCHANGED <<order, dirs, doubtful, tree, fetches, selecting, selected, moving>>,
         PageTypeOK', DragsAlone'
  PROVE  SidebarInv'
<1>1. Posted(PlainKinds \cup {"reorder"}) \/ UNCHANGED calls
  BY DEF Posted
<1>2. OneMoveAtATime' /\ (Posted(Kinds) \/ UNCHANGED calls)
  BY <1>1, MovesKept
<1>3. ClosedModal'
  BY DEF SidebarInv, ClosedModal
<1>. QED
  BY <1>2, <1>3, QuietKeepsSidebar

\* What asks for a redraw, and changes neither the catalog nor a dialog.
LEMMA FetchKeepsSidebar ==
  ASSUME SidebarInv, NEW n \in {1, 2}, Fetch(n), tree' \in TreeType,
         UNCHANGED <<order, dirs, doubtful, calls, drag, overlay, moving, lists, naming>>,
         selecting' \in BOOLEAN, selected' \in SUBSET Case, clicks' \in 0..MaxClicks,
         DragsAlone'
  PROVE  SidebarInv'
<1>1. SidebarTypeOK
  BY DEF SidebarInv
<1>2. /\ fetches' \in Seq(FetchType)
      /\ ChecksAreSelection' /\ LastIsCurrent' /\ TreeIsCurrent'
  BY <1>1, FetchFacts DEF SidebarTypeOK
<1>3. SidebarTypeOK'
  BY <1>1, <1>2, CallsFacts DEF SidebarTypeOK, TreeTypeOK, PageTypeOK, ServerTypeOK
<1>4. ClosedModal' /\ DirsHoldFiles'
  BY DEF SidebarInv, ClosedModal, DirsHoldFiles
<1>. QED
  BY <1>2, <1>3, <1>4, CallsFacts, MovesKept DEF SidebarInv

LEMMA ClickCounts ==
  ASSUME SidebarInv, clicks < MaxClicks, clicks' = clicks + 1
  PROVE  clicks' \in 0..MaxClicks
BY SidebarAssumption DEF SidebarInv, SidebarTypeOK, PageTypeOK

-----------------------------------------------------------------------------
LEMMA SidebarInit == Init => SidebarInv
<1> SUFFICES ASSUME Init PROVE SidebarInv
  OBVIOUS
<1>1. /\ order \in Catalogs /\ dirs \in SUBSET (Cat \ {Unc}) /\ dirs \in SUBSET Cat
      /\ dirs = Cat \ {Unc} /\ fetches = <<>> /\ calls = {} /\ selected = {}
      /\ tree = Drawn(order, dirs, {}, FALSE)
  BY SidebarAssumption DEF Init, Catalogs
<1>2. /\ tree \in TreeType /\ tree.order = order
      /\ tree.folders = Folders(order, dirs) /\ tree.checks = {}
  <2>1. Folders(order, dirs) \in SUBSET Cat /\ CasesOf(order) \cap {} = {}
    BY DEF Folders
  <2>. QED
    BY <1>1, <2>1 DEF Drawn, TreeType
<1>3. SidebarTypeOK
  <2>1. PageTypeOK
    <3>1. NotMoving \in MovingType
      BY DEF NotMoving, MovingType
    <3>2. /\ selecting = FALSE /\ selected = {} /\ drag = None /\ overlay = None
          /\ moving = NotMoving /\ lists = {} /\ naming = "closed" /\ clicks = 0
          /\ 0 \in 0..MaxClicks
      BY SidebarAssumption DEF Init
    <3>. QED
      BY <3>1, <3>2 DEF PageTypeOK
  <2>2. TreeTypeOK
    <3>1. <<>> \in Seq(FetchType)
      OBVIOUS
    <3>. QED
      BY <1>1, <1>2, <3>1 DEF TreeTypeOK
  <2>3. ServerTypeOK /\ CallsTypeOK
    BY <1>1 DEF Init, ServerTypeOK, CallsTypeOK
  <2>. QED
    BY <2>1, <2>2, <2>3 DEF SidebarTypeOK
<1>4. ClosedModal /\ DragsAlone /\ OneMoveAtATime
  BY DEF Init, ClosedModal, DragsAlone, NotMoving, OneMoveAtATime, MoveCalls
<1>5. DirsHoldFiles
  BY <1>1 DEF DirsHoldFiles, Around
<1>6. DropKeepsFolder /\ ChecksAreSelection /\ LastIsCurrent /\ TreeIsCurrent
  BY <1>1, <1>2 DEF DropKeepsFolder, ChecksAreSelection, LastIsCurrent, TreeIsCurrent
<1>. QED
  BY <1>3, <1>4, <1>5, <1>6 DEF SidebarInv

-----------------------------------------------------------------------------
\* Selection mode on and off, and the boxes.
LEMMA SelectingKeepsSidebar ==
  ASSUME SidebarInv, Selecting
  PROVE  SidebarInv'
<1>1. /\ SidebarTypeOK /\ tree \in TreeType /\ tree.order \in Catalogs
      /\ CasesOf(tree.order) \in SUBSET Case
      /\ selected \in SUBSET Case /\ selecting \in BOOLEAN
  BY CasesFacts DEF SidebarInv, SidebarTypeOK, TreeTypeOK, TreeType, PageTypeOK
<1>2. CASE ToggleSelectMode
  <2>1. /\ Fetch(1) /\ drag = None /\ clicks' \in 0..MaxClicks
        /\ selecting' \in BOOLEAN /\ selected' \in SUBSET Case
        /\ ~selecting' => selected' = {}
        /\ UNCHANGED <<order, dirs, doubtful, tree, calls, drag, overlay, moving, lists,
                       naming>>
    BY <1>1, <1>2, ClickCounts DEF ToggleSelectMode, SelectMode, Click, Idle
  <2>. QED
    BY <1>1, <2>1, FetchKeepsSidebar DEF DragsAlone
<1>3. ASSUME NEW c \in CasesOf(tree.order), MenuSelect(c)
      PROVE  SidebarInv'
  <2>1. /\ Fetch(2) /\ drag = None /\ clicks' \in 0..MaxClicks
        /\ selecting' = TRUE /\ selected' \in SUBSET Case
        /\ UNCHANGED <<order, dirs, doubtful, tree, calls, drag, overlay, moving, lists,
                       naming>>
    BY <1>1, <1>3, ClickCounts DEF MenuSelect, Click, Idle
  <2>. QED
    BY <1>1, <2>1, FetchKeepsSidebar DEF DragsAlone
<1>4. ASSUME NEW c \in CasesOf(tree.order), ToggleItem(c)
      PROVE  SidebarInv'
  <2>1. /\ Fetch(1) /\ drag = None /\ clicks' \in 0..MaxClicks
        /\ selecting /\ selecting' = selecting /\ selected' \in SUBSET Case
        /\ tree' \in {tree, [tree EXCEPT !.checks = SymDiff(tree.checks, {c})]}
        /\ UNCHANGED <<order, dirs, doubtful, calls, drag, overlay, moving, lists, naming>>
    BY <1>1, <1>4, ClickCounts DEF ToggleItem, Choose, Click, Idle
  <2>2. tree' \in TreeType
    <3>1. SymDiff(tree.checks, {c}) \in SUBSET Case
      BY <1>1 DEF TreeType, SymDiff
    <3>. QED
      BY <1>1, <2>1, <3>1 DEF TreeType
  <2>. QED
    BY <1>1, <2>1, <2>2, FetchKeepsSidebar DEF DragsAlone
<1>5. ASSUME NEW cat \in tree.folders, ToggleFolder(cat)
      PROVE  SidebarInv'
  <2>1. /\ Fetch(1) /\ drag = None /\ clicks' \in 0..MaxClicks
        /\ selecting /\ selecting' = selecting /\ selected' \in SUBSET Case
        /\ tree' = [tree EXCEPT !.boxes = SymDiff(tree.boxes, {cat})]
        /\ UNCHANGED <<order, dirs, doubtful, calls, drag, overlay, moving, lists, naming>>
    BY <1>1, <1>5, ClickCounts DEF ToggleFolder, Choose, Click, Idle
  <2>2. tree' \in TreeType
    <3>1. SymDiff(tree.boxes, {cat}) \in SUBSET Cat
      BY <1>1 DEF TreeType, SymDiff
    <3>. QED
      BY <1>1, <2>1, <3>1 DEF TreeType
  <2>. QED
    BY <1>1, <2>1, <2>2, FetchKeepsSidebar DEF DragsAlone
<1>. QED
  BY <1>2, <1>3, <1>4, <1>5 DEF Selecting

-----------------------------------------------------------------------------
\* The confirmation overlay.
LEMMA DeletingKeepsSidebar ==
  ASSUME SidebarInv, Deleting
  PROVE  SidebarInv'
<1>1. /\ PageTypeOK /\ tree \in TreeType /\ tree.order \in Catalogs
      /\ CasesOf(tree.order) \in SUBSET Case /\ selected \in SUBSET Case
      /\ tree.folders \in SUBSET Cat
  BY CasesFacts DEF SidebarInv, SidebarTypeOK, TreeTypeOK, TreeType, PageTypeOK
<1>2. ASSUME NEW kind \in {"delete", "bulk-delete", "folder", "notice"},
             NEW items \in SUBSET Case, NEW target \in Cat \cup {None},
             overlay' = Request(kind, items, target), clicks' \in 0..MaxClicks,
             UNCHANGED <<order, dirs, doubtful, tree, fetches, selecting, selected, drag,
                         calls, moving, lists, naming>>
      PROVE  SidebarInv'
  <2>1. overlay' \in AskType
    BY <1>2 DEF AskType
  <2>2. PageTypeOK' /\ DragsAlone'
    BY <1>1, <1>2, <2>1 DEF SidebarInv, PageTypeOK, DragsAlone
  <2>. QED
    BY <1>2, <2>2, PlainKeepsSidebar
<1>3. CASE AskDelete
  <2>1. ASSUME NEW kind \in {"delete", "bulk-delete", "folder"}, NEW items \in SUBSET Case,
               NEW target \in Cat \cup {None}, Ask(kind, items, target)
        PROVE  SidebarInv'
    BY <1>2, <2>1, ClickCounts DEF Ask, Click, Idle
  <2>2. \A c \in CasesOf(tree.order) : {c} \in SUBSET Case
    BY <1>1
  <2>3. \A cat \in tree.folders :
           {c \in CasesOf(tree.order) : c.cat \in Below[cat]} \in SUBSET Case
    BY <1>1
  <2>. QED
    BY <1>1, <1>3, <2>1, <2>2, <2>3 DEF AskDelete
<1>4. CASE Notice
  <2> DEFINE nothing == {}
  <2>1. nothing \in SUBSET Case /\ overlay' = Request("notice", nothing, None)
    BY <1>4 DEF Notice
  <2>. HIDE DEF nothing
  <2>. QED
    BY <1>2, <1>4, <2>1, ClickCounts DEF Notice, Idle
<1>5. CASE Confirm \/ Cancel
  <2>1. /\ overlay # None /\ overlay' = None
        /\ UNCHANGED <<order, dirs, doubtful, tree, fetches, selecting, selected, drag,
                       moving, lists, naming, clicks>>
    BY <1>5 DEF Confirm, Cancel, Idle
  <2>2. PageTypeOK' /\ DragsAlone'
    BY <1>1, <2>1 DEF SidebarInv, PageTypeOK, DragsAlone
  <2>3. Posted(PlainKinds) \/ UNCHANGED calls
    <3>1. PICK kind \in {"delete", "bulk-delete", "folder", "notice"},
               items \in SUBSET Case, target \in Cat \cup {None} :
                  overlay = Request(kind, items, target)
      BY <1>1, <2>1 DEF PageTypeOK, AskType
    <3>2. overlay.kind = kind
      BY <3>1 DEF Request
    <3>3. UNCHANGED calls \/ (kind # "notice" /\ Post(Request(kind, items, target)))
      BY <1>5, <3>1, <3>2 DEF Confirm, Cancel
    <3>4. ASSUME kind # "notice", Post(Request(kind, items, target))
          PROVE  Posted(PlainKinds)
      <4>1. kind \in PlainKinds /\ kind \in Kinds \ {"reorder"}
        BY <3>4 DEF PlainKinds, Kinds
      <4>. QED
        BY <3>4, <4>1, RequestFacts, PostedFacts
    <3>. QED
      BY <3>3, <3>4
  <2>. QED
    BY <2>1, <2>2, <2>3, PlainKeepsSidebar
<1>. QED
  BY <1>3, <1>4, <1>5 DEF Deleting

-----------------------------------------------------------------------------
\* The ids that a sort posts.

\* Sets of the same size.
LEMMA BijectionFacts ==
  ASSUME NEW S, NEW T, IsFiniteSet(S), NEW f \in [S -> T],
         \A a, b \in S : f[a] = f[b] => a = b,
         \A t \in T : \E s \in S : f[s] = t
  PROVE  IsFiniteSet(T) /\ Cardinality(T) = Cardinality(S)
<1>1. f \in Bijection(S, T)
  BY DEF Bijection, Injection, Surjection, IsInjective
<1> QED
  BY <1>1, FS_Bijection DEF ExistsBijection

\* How often an id is in a list.
Times(s, id) == Cardinality(Places(s, id))

LEMMA PlacesFacts ==
  ASSUME NEW s \in Seq(Id), NEW id
  PROVE  IsFiniteSet(Places(s, id)) /\ Times(s, id) \in Nat
<1>1. Places(s, id) \in SUBSET (1..Len(s)) /\ Len(s) \in Nat
  BY DEF Places
<1>2. IsFiniteSet(1..Len(s))
  BY <1>1, FS_Interval
<1> QED
  BY <1>1, <1>2, FS_Subset, FS_CardinalityType DEF Times

\* An id is in two lists put together as often as in both.
LEMMA TimesJoined ==
  ASSUME NEW s \in Seq(Id), NEW t \in Seq(Id), NEW id
  PROVE  s \o t \in Seq(Id) /\ Times(s \o t, id) = Times(s, id) + Times(t, id)
<1> DEFINE L == Len(s)
           A == Places(s, id)
           B == Places(t, id)
           C == {L + k : k \in B}
           f == [k \in B |-> L + k]
<1>1. L \in Nat /\ A \in SUBSET (1..L) /\ B \in SUBSET (1..Len(t)) /\ Len(t) \in Nat
  BY DEF Places
<1>2. s \o t \in Seq(Id) /\ Len(s \o t) = L + Len(t)
      /\ \A k \in 1..(L + Len(t)) : (s \o t)[k] = IF k =< L THEN s[k] ELSE t[k - L]
  OBVIOUS
<1>3. Places(s \o t, id) = A \cup C
  <2>1. ASSUME NEW k \in Places(s \o t, id) PROVE k \in A \cup C
    <3>1. k \in 1..(L + Len(t)) /\ (s \o t)[k] = id
      BY <1>2 DEF Places
    <3>2. CASE k =< L
      BY <1>1, <1>2, <3>1, <3>2 DEF Places
    <3>3. CASE ~ (k =< L)
      <4>1. k - L \in 1..Len(t) /\ t[k - L] = id /\ k = L + (k - L)
        BY <1>1, <1>2, <3>1, <3>3
      <4>2. k - L \in B
        BY <4>1 DEF Places
      <4> QED
        BY <4>1, <4>2
    <3> QED
      BY <3>2, <3>3
  <2>2. ASSUME NEW k \in A PROVE k \in Places(s \o t, id)
    BY <1>1, <1>2 DEF Places
  <2>3. ASSUME NEW k \in B PROVE L + k \in Places(s \o t, id)
    <3>1. k \in 1..Len(t) /\ t[k] = id
      BY DEF Places
    <3>2. L + k \in 1..(L + Len(t)) /\ ~ (L + k =< L) /\ (L + k) - L = k
      BY <1>1, <3>1
    <3> QED
      BY <1>2, <3>1, <3>2 DEF Places
  <2> QED
    BY <2>1, <2>2, <2>3
<1>4. IsFiniteSet(A) /\ IsFiniteSet(B)
  BY PlacesFacts
<1>5. IsFiniteSet(C) /\ Cardinality(C) = Cardinality(B)
  <2>1. f \in [B -> C]
    OBVIOUS
  <2>2. \A j, k \in B : f[j] = f[k] => j = k
    BY <1>1
  <2>3. \A c \in C : \E k \in B : f[k] = c
    OBVIOUS
  <2> HIDE DEF B, C, f
  <2> QED
    BY <1>4, <2>1, <2>2, <2>3, BijectionFacts
<1>6. A \cap C = {}
  BY <1>1
<1>7. Cardinality(A \cup C) = Cardinality(A) + Cardinality(C)
  <2>1. Cardinality(A \cap C) = 0 /\ Cardinality(A) \in Nat /\ Cardinality(C) \in Nat
    BY <1>4, <1>5, <1>6, FS_EmptySet, FS_CardinalityType
  <2>2. Cardinality(A \cup C) = Cardinality(A) + Cardinality(C) - Cardinality(A \cap C)
    BY <1>4, <1>5, FS_Union
  <2> HIDE DEF A, C
  <2> QED
    BY <2>1, <2>2
<1> QED
  BY <1>2, <1>3, <1>5, <1>7 DEF Times

\* A list of one.
LEMMA TimesOfOne ==
  ASSUME NEW e, NEW id
  PROVE  Times(<<e>>, id) = IF id = e THEN 1 ELSE 0
<1>1. CASE id = e
  <2>1. Places(<<e>>, id) = {1}
    BY <1>1 DEF Places
  <2> QED
    BY <1>1, <2>1, FS_Singleton DEF Times
<1>2. CASE id # e
  <2>1. Places(<<e>>, id) = {}
    BY <1>2 DEF Places
  <2> QED
    BY <1>2, <2>1, FS_EmptySet DEF Times
<1> QED
  BY <1>1, <1>2

\* A list is what is before and what is after a cut.
LEMMA CutFacts ==
  ASSUME NEW s \in Seq(Id), NEW k \in 0..Len(s)
  PROVE  /\ SubSeq(s, 1, k) \in Seq(Id) /\ SubSeq(s, k + 1, Len(s)) \in Seq(Id)
         /\ s = SubSeq(s, 1, k) \o SubSeq(s, k + 1, Len(s))
<1>1. Len(s) \in Nat /\ k \in 1 - 1..Len(s) /\ 1 \in 1..Len(s) + 1 /\ Len(s) \in k..Len(s)
  OBVIOUS
<1>2. SubSeq(s, 1, k) \in Seq(Id) /\ SubSeq(s, k + 1, Len(s)) \in Seq(Id)
  BY <1>1
<1>3. SubSeq(s, 1, k) \o SubSeq(s, k + 1, Len(s)) = SubSeq(s, 1, Len(s))
  BY <1>1, ConcatAdjacentSubSeq
<1> QED
  BY <1>2, <1>3, SubSeqFull

LEMMA TimesOfThree ==
  ASSUME NEW a \in Seq(Id), NEW b \in Seq(Id), NEW c \in Seq(Id), NEW id
  PROVE  /\ Times((a \o b) \o c, id) = Times(a \o c, id) + Times(b, id)
         /\ a \o c \in Seq(Id)
<1> DEFINE ab == a \o b
<1>1. ab \in Seq(Id)
  BY TimesJoined
<1>2. Times(ab, id) = Times(a, id) + Times(b, id)
  BY TimesJoined
<1>. HIDE DEF ab
<1>3. Times(ab \o c, id) = Times(ab, id) + Times(c, id)
  BY <1>1, TimesJoined
<1>4. a \o c \in Seq(Id) /\ Times(a \o c, id) = Times(a, id) + Times(c, id)
  BY TimesJoined
<1>5. Times(a, id) \in Nat /\ Times(b, id) \in Nat /\ Times(c, id) \in Nat
  BY PlacesFacts
<1> QED
  BY <1>2, <1>3, <1>4, <1>5 DEF ab

\* Taking an element out and putting one in.
LEMMA TimesRemoved ==
  ASSUME NEW s \in Seq(Id), NEW k \in DOMAIN s, NEW id
  PROVE  /\ RemoveAt(s, k) \in Seq(Id)
         /\ Times(s, id) = Times(RemoveAt(s, k), id) + Times(<<s[k]>>, id)
<1> DEFINE left == SubSeq(s, 1, k - 1)
           right == SubSeq(s, k + 1, Len(s))
           one == <<s[k]>>
<1>1. k \in Nat /\ k \in 1..Len(s) /\ Len(s) \in Nat /\ s[k] \in Id
  OBVIOUS
<1>2. k \in 0..Len(s) /\ k - 1 \in 0..Len(s)
  BY <1>1
<1>3. left \in Seq(Id) /\ right \in Seq(Id) /\ one \in Seq(Id)
  BY <1>1
<1>4. SubSeq(s, 1, k) = left \o one
  <2>1. 1 \in 1..Len(s) /\ k \in 1..Len(s)
    BY <1>1
  <2> QED
    BY <2>1, SubSeqRecursiveSecond
<1>5. s = (left \o one) \o right
  BY <1>2, <1>4, CutFacts
<1>6. RemoveAt(s, k) = left \o right
  BY DEF RemoveAt
<1> HIDE DEF left, right, one
<1>7. /\ left \o right \in Seq(Id)
      /\ Times((left \o one) \o right, id) = Times(left \o right, id) + Times(one, id)
  BY <1>3, TimesOfThree
<1> QED
  BY <1>5, <1>6, <1>7 DEF one

LEMMA TimesInserted ==
  ASSUME NEW s \in Seq(Id), NEW k \in 1..(Len(s) + 1), NEW e \in Id, NEW id
  PROVE  Times(InsertAt(s, k, e), id) = Times(s, id) + Times(<<e>>, id)
<1> DEFINE left == SubSeq(s, 1, k - 1)
           right == SubSeq(s, k, Len(s))
           one == <<e>>
<1>1. k - 1 \in 0..Len(s) /\ (k - 1) + 1 = k
  OBVIOUS
<1>2. left \in Seq(Id) /\ right \in Seq(Id) /\ s = left \o right
  BY <1>1, CutFacts
<1>3. InsertAt(s, k, e) = (left \o one) \o right /\ one \in Seq(Id)
  BY DEF InsertAt
<1> HIDE DEF left, right, one
<1>4. Times((left \o one) \o right, id) = Times(left \o right, id) + Times(one, id)
  BY <1>2, <1>3, TimesOfThree
<1> QED
  BY <1>2, <1>3, <1>4 DEF one

\* What contains 0 and with every number the next one contains them all.
LEMMA NatClosed ==
  ASSUME NEW D, 0 \in D, \A n \in Nat : n \in D => n + 1 \in D
  PROVE  \A n \in Nat : n \in D
<1> DEFINE Less == {ss \in Nat \X Nat : ss[1] < ss[2]}
           Rest == Nat \ D
<1>1. IsWellFoundedOn(Less, Nat)
  BY NatLessThanWellFounded DEF OpToRel
<1>2. SUFFICES ASSUME Rest # {} PROVE FALSE
  OBVIOUS
<1>3. PICK m \in Rest : \A n \in Rest : ~ (<<n, m>> \in Less)
  <2>1. Rest \subseteq Nat
    OBVIOUS
  <2> HIDE DEF Rest, Less
  <2> QED
    BY <1>1, <1>2, <2>1, WFMin
<1>4. m \in Nat /\ m # 0 /\ m - 1 \in Nat
  OBVIOUS
<1>5. m - 1 \in D
  <2>1. <<m - 1, m>> \in Nat \X Nat /\ m - 1 < m
    BY <1>4
  <2>2. <<m - 1, m>> \in Less
    BY <2>1
  <2> QED
    BY <1>3, <1>4, <2>2
<1>6. (m - 1) + 1 = m
  BY <1>4
<1> QED
  BY <1>4, <1>5, <1>6

\* One round of the fold in Inside.
Added(o, own, f, s) ==
    IF s = {} THEN own
    ELSE LET x == CHOOSE e \in s : TRUE IN f[s \ {x}] \o o[x]

\* What the fold is defined to be.
IsFold(f, o, own, S) == f = [s \in SUBSET S |-> Added(o, own, f, s)]

\* The element a round is for.
LEMMA ChosenFacts ==
  ASSUME NEW s, s # {}, IsFiniteSet(s)
  PROVE  /\ (CHOOSE e \in s : TRUE) \in s
         /\ IsFiniteSet(s \ {CHOOSE e \in s : TRUE})
         /\ Cardinality(s) \in Nat \ {0}
         /\ Cardinality(s \ {CHOOSE e \in s : TRUE}) = Cardinality(s) - 1
<1> DEFINE x == CHOOSE e \in s : TRUE
<1>1. x \in s
  <2>1. \E e : e \in s
    OBVIOUS
  <2> QED
    BY <2>1
<1> HIDE DEF x
<1>2. Cardinality(s) \in Nat /\ Cardinality(s) # 0
  BY FS_CardinalityType, FS_EmptySet
<1>3. IsFiniteSet(s \ {x}) /\ Cardinality(s \ {x}) = Cardinality(s) - 1
  BY <1>1, FS_RemoveElement
<1> QED
  BY <1>1, <1>2, <1>3 DEF x

\* There is a function that is what it is defined to be, by the size of the sets.
LEMMA FoldExists ==
  ASSUME NEW S, IsFiniteSet(S), NEW o, NEW own
  PROVE  \E f : IsFold(f, o, own, S)
<1> DEFINE Upto(n) == {s \in SUBSET S : Cardinality(s) =< n}
           D == {n \in Nat : \E f : f = [s \in Upto(n) |-> Added(o, own, f, s)]}
<1>1. \A s \in SUBSET S : IsFiniteSet(s) /\ Cardinality(s) \in Nat
  BY FS_Subset, FS_CardinalityType
<1>2. 0 \in D
  <2> DEFINE f == [s \in Upto(0) |-> own]
  <2>1. ASSUME NEW s \in Upto(0) PROVE Added(o, own, f, s) = own
    <3>1. Cardinality(s) = 0 /\ IsFiniteSet(s)
      BY <1>1
    <3> QED
      BY <3>1, FS_EmptySet DEF Added
  <2>2. f = [s \in Upto(0) |-> Added(o, own, f, s)]
    BY <2>1
  <2> QED
    BY <2>2
<1>3. ASSUME NEW n \in Nat, n \in D PROVE n + 1 \in D
  <2>1. PICK f : f = [s \in Upto(n) |-> Added(o, own, f, s)]
    BY <1>3
  <2> DEFINE g == [s \in Upto(n + 1) |-> Added(o, own, f, s)]
  <2>2. ASSUME NEW s \in Upto(n + 1) PROVE Added(o, own, f, s) = Added(o, own, g, s)
    <3>1. CASE s = {}
      BY <3>1 DEF Added
    <3>2. CASE s # {}
      <4> DEFINE x == CHOOSE e \in s : TRUE
                 r == s \ {x}
      <4>1. x \in s /\ Cardinality(r) = Cardinality(s) - 1 /\ Cardinality(s) \in Nat
        BY <1>1, <3>2, ChosenFacts
      <4>2. r \in SUBSET S /\ Cardinality(r) =< n /\ Cardinality(r) =< n + 1
        BY <4>1
      <4>3. r \in Upto(n) /\ r \in Upto(n + 1)
        BY <4>2
      <4>4. f[r] = g[r]
        <5>1. f[r] = Added(o, own, f, r)
          BY <2>1, <4>3
        <5>2. g[r] = Added(o, own, f, r)
          BY <4>3
        <5> QED
          BY <5>1, <5>2
      <4>5. Added(o, own, f, s) = f[r] \o o[x] /\ Added(o, own, g, s) = g[r] \o o[x]
        BY <3>2 DEF Added
      <4> QED
        BY <4>4, <4>5
    <3> QED
      BY <3>1, <3>2
  <2>3. g = [s \in Upto(n + 1) |-> Added(o, own, g, s)]
    BY <2>2
  <2> HIDE DEF g, Upto
  <2> QED
    BY <2>3
<1>4. \A n \in Nat : n \in D
  <2> HIDE DEF D
  <2> QED
    BY <1>2, <1>3, NatClosed
<1>5. Cardinality(S) \in Nat /\ Upto(Cardinality(S)) = SUBSET S
  BY <1>1, FS_CardinalityType, FS_Subset
<1>6. \E f : f = [s \in Upto(Cardinality(S)) |-> Added(o, own, f, s)]
  BY <1>4, <1>5
<1> QED
  BY <1>5, <1>6 DEF IsFold

\* Inside is the value of such a function.
LEMMA InsideIsFold ==
  ASSUME NEW cat, NEW own, IsFiniteSet(Below[cat])
  PROVE  \E f : /\ IsFold(f, tree.order, own, Below[cat] \ {cat})
                /\ Inside(cat, own) = f[Below[cat] \ {cat}]
<1> DEFINE S == Below[cat] \ {cat}
           F == CHOOSE f : IsFold(f, tree.order, own, S)
<1>1. IsFiniteSet(S)
  BY FS_Subset
<1>2. IsFold(F, tree.order, own, S)
  <2> HIDE DEF S
  <2>1. \E f : IsFold(f, tree.order, own, S)
    BY <1>1, FoldExists
  <2> QED
    BY <2>1
<1>3. Inside(cat, own) = F[S]
  BY DEF Inside, FoldSet, MapThenFoldSet, IsFold, Added
<1> QED
  BY <1>2, <1>3

\* Two folds that start from lists with an id some times more or less differ by as much.
LEMMA FoldCounts ==
  ASSUME NEW S \in SUBSET Cat, IsFiniteSet(S), NEW o \in Catalogs,
         NEW mine \in Seq(Id), NEW yours \in Seq(Id), NEW f, NEW g,
         IsFold(f, o, mine, S), IsFold(g, o, yours, S), NEW id, NEW d \in Nat,
         Times(mine, id) = Times(yours, id) + d
  PROVE  Times(f[S], id) = Times(g[S], id) + d
<1> DEFINE OK(s) == /\ f[s] \in Seq(Id) /\ g[s] \in Seq(Id)
                    /\ Times(f[s], id) = Times(g[s], id) + d
           D == {n \in Nat : \A s \in SUBSET S : Cardinality(s) = n => OK(s)}
<1>1. \A s \in SUBSET S : /\ IsFiniteSet(s) /\ Cardinality(s) \in Nat
                          /\ f[s] = Added(o, mine, f, s) /\ g[s] = Added(o, yours, g, s)
  BY FS_Subset, FS_CardinalityType DEF IsFold
<1>2. 0 \in D
  <2> SUFFICES ASSUME NEW s \in SUBSET S, Cardinality(s) = 0 PROVE OK(s)
    OBVIOUS
  <2>1. s = {}
    BY <1>1, FS_EmptySet
  <2>2. f[s] = mine /\ g[s] = yours
    BY <1>1, <2>1 DEF Added
  <2> QED
    BY <2>2
<1>3. ASSUME NEW n \in Nat, n \in D PROVE n + 1 \in D
  <2>1. n + 1 \in Nat /\ n + 1 # 0
    OBVIOUS
  <2> SUFFICES ASSUME NEW s \in SUBSET S, Cardinality(s) = n + 1 PROVE OK(s)
    <3> HIDE DEF OK
    <3> QED
      BY <2>1
  <2> DEFINE x == CHOOSE e \in s : TRUE
             r == s \ {x}
  <2>2. s # {}
    BY <2>1, FS_EmptySet
  <2>3. x \in s /\ IsFiniteSet(r) /\ Cardinality(r) = n
    BY <1>1, <2>2, ChosenFacts
  <2>4. f[s] = f[r] \o o[x] /\ g[s] = g[r] \o o[x]
    BY <1>1, <2>2 DEF Added
  <2> HIDE DEF x
  <2>5. OK(r)
    BY <1>3, <2>3
  <2>6. o[x] \in Seq(Id)
    BY <2>3 DEF Catalogs
  <2> DEFINE fr == f[r]
             gr == g[r]
             ox == o[x]
  <2>7. fr \in Seq(Id) /\ gr \in Seq(Id) /\ ox \in Seq(Id)
        /\ Times(fr, id) = Times(gr, id) + d /\ f[s] = fr \o ox /\ g[s] = gr \o ox
    BY <2>4, <2>5, <2>6
  <2> HIDE DEF r, OK, fr, gr, ox
  <2>8. /\ fr \o ox \in Seq(Id) /\ Times(fr \o ox, id) = Times(fr, id) + Times(ox, id)
        /\ gr \o ox \in Seq(Id) /\ Times(gr \o ox, id) = Times(gr, id) + Times(ox, id)
    BY <2>7, TimesJoined
  <2>9. Times(gr, id) \in Nat /\ Times(ox, id) \in Nat
    BY <2>7, PlacesFacts
  <2>10. Times(f[s], id) = Times(g[s], id) + d
    BY <2>7, <2>8, <2>9
  <2> QED
    BY <2>7, <2>8, <2>10 DEF OK
<1>4. Cardinality(S) \in D
  <2> HIDE DEF D
  <2> QED
    BY <1>1, <1>2, <1>3, NatClosed
<1> QED
  BY <1>4

-----------------------------------------------------------------------------
\* A list that an item was moved in is a list of ids.
LEMMA DroppedFacts ==
  ASSUME tree \in TreeType, drag \in [case : Case, live : BOOLEAN], NEW target \in Case,
         NEW above \in BOOLEAN, NEW ids \in Dropped(target, above)
  PROVE  ids \in Seq(Id)
<1> DEFINE shown == tree.order[target.cat]
<1>1. shown \in Seq(Id) /\ drag.case.id \in Id
  BY DEF TreeType, Catalogs, Case
<1>. HIDE DEF shown
<1>2. ASSUME NEW k \in DOMAIN shown
      PROVE  RemoveAt(shown, k) \in Seq(Id)
  BY <1>1 DEF RemoveAt
<1>3. ASSUME NEW rest \in Seq(Id), NEW at \in DOMAIN rest, NEW place \in {at, at + 1}
      PROVE  InsertAt(rest, place, drag.case.id) \in Seq(Id)
  <2> DEFINE left == SubSeq(rest, 1, place - 1) \o <<drag.case.id>>
             right == SubSeq(rest, place, Len(rest))
  <2>1. left \in Seq(Id) /\ right \in Seq(Id)
    BY <1>1
  <2>2. InsertAt(rest, place, drag.case.id) = left \o right
    BY DEF InsertAt
  <2>. HIDE DEF left, right
  <2>. QED
    BY <2>1, <2>2
<1>4. PICK rest \in Seq(Id) :
         \E at \in DOMAIN rest :
            ids = InsertAt(rest, IF above THEN at ELSE at + 1, drag.case.id)
  BY <1>1, <1>2 DEF Dropped, Places, shown
<1>. QED
  BY <1>3, <1>4

\* A drop keeps what is in the list, and adds an item that is no longer in it.
LEMMA DroppedTimes ==
  ASSUME tree \in TreeType, drag \in [case : Case, live : BOOLEAN], NEW target \in Case,
         drag.case.cat = target.cat,
         NEW above \in BOOLEAN, NEW ids \in Dropped(target, above), NEW id
  PROVE  Times(ids, id) = Times(tree.order[target.cat], id)
                            + IF ~drag.live /\ id = drag.case.id THEN 1 ELSE 0
<1> DEFINE shown == tree.order[target.cat]
           moved == drag.case.id
<1>1. shown \in Seq(Id) /\ moved \in Id /\ drag.live \in BOOLEAN
  BY DEF TreeType, Catalogs, Case
<1>2. PICK rest :
         /\ IF drag.live THEN \E k \in Places(shown, moved) : rest = RemoveAt(shown, k)
                         ELSE rest = shown
         /\ \E at \in Places(rest, target.id) :
               ids = InsertAt(rest, IF above THEN at ELSE at + 1, moved)
  BY DEF Dropped
<1> HIDE DEF shown, moved
<1>3. /\ rest \in Seq(Id)
      /\ Times(shown, id) = Times(rest, id)
                              + IF drag.live THEN Times(<<moved>>, id) ELSE 0
  <2>1. CASE drag.live
    <3>1. PICK k \in Places(shown, moved) : rest = RemoveAt(shown, k)
      BY <1>2, <2>1
    <3>2. k \in DOMAIN shown /\ shown[k] = moved
      BY <3>1 DEF Places
    <3> QED
      BY <1>1, <2>1, <3>1, <3>2, TimesRemoved
  <2>2. CASE ~drag.live
    <3>1. Times(rest, id) \in Nat /\ rest = shown
      BY <1>1, <1>2, <2>2, PlacesFacts
    <3> QED
      BY <1>1, <2>2, <3>1
  <2> QED
    BY <2>1, <2>2
<1>4. PICK place \in 1..(Len(rest) + 1) : ids = InsertAt(rest, place, moved)
  <2>1. PICK at \in Places(rest, target.id) :
           ids = InsertAt(rest, IF above THEN at ELSE at + 1, moved)
    BY <1>2
  <2>2. at \in 1..Len(rest) /\ Len(rest) \in Nat
    BY <1>3, <2>1 DEF Places
  <2>3. at \in 1..(Len(rest) + 1) /\ at + 1 \in 1..(Len(rest) + 1)
    BY <2>2
  <2> QED
    BY <2>1, <2>3
<1>5. Times(ids, id) = Times(rest, id) + Times(<<moved>>, id)
  BY <1>1, <1>3, <1>4, TimesInserted
<1>6. Times(<<moved>>, id) = (IF id = moved THEN 1 ELSE 0) /\ Times(rest, id) \in Nat
  BY <1>3, PlacesFacts, TimesOfOne
<1> QED
  BY <1>1, <1>3, <1>5, <1>6 DEF shown, moved

\* What is posted for a sort has every id as often as it is drawn inside the folder.
LEMMA SortedTimes ==
  ASSUME tree \in TreeType, drag \in [case : Case, live : BOOLEAN], NEW target \in Case,
         drag.case.cat = target.cat,
         NEW above \in BOOLEAN, NEW ids \in Dropped(target, above), NEW id
  PROVE  Times(Inside(target.cat, ids), id)
         = Times(Inside(target.cat, tree.order[target.cat]), id)
             + IF ~drag.live /\ id = drag.case.id THEN 1 ELSE 0
<1> DEFINE cat == target.cat
           S == Below[cat] \ {cat}
           o == tree.order
           d == IF ~drag.live /\ id = drag.case.id THEN 1 ELSE 0
<1>1. Below[cat] \in SUBSET Cat /\ o \in Catalogs /\ IsFiniteSet(Below[cat]) /\ d \in Nat
      /\ o[cat] \in Seq(Id)
  BY SidebarAssumption, FS_Subset DEF TreeType, Case, Catalogs
<1>2. PICK f : IsFold(f, o, ids, S) /\ Inside(cat, ids) = f[S]
  BY <1>1, InsideIsFold
<1>3. PICK g : IsFold(g, o, o[cat], S) /\ Inside(cat, o[cat]) = g[S]
  BY <1>1, InsideIsFold
<1>4. ids \in Seq(Id) /\ Times(ids, id) = Times(o[cat], id) + d
  BY DroppedFacts, DroppedTimes
<1>5. S \in SUBSET Cat /\ IsFiniteSet(S)
  BY <1>1, FS_Subset
<1> HIDE DEF S, cat, o, d
<1>6. Times(f[S], id) = Times(g[S], id) + d
  BY <1>1, <1>2, <1>3, <1>4, <1>5, FoldCounts
<1> QED
  BY <1>2, <1>3, <1>6 DEF cat, o, d

LEMMA SortingKeepsSidebar ==
  ASSUME SidebarInv, Sorting
  PROVE  SidebarInv'
<1>1. /\ PageTypeOK /\ tree \in TreeType /\ tree.order \in Catalogs
      /\ CasesOf(tree.order) \in SUBSET Case /\ fetches \in Seq(FetchType)
      /\ SidebarTypeOK
  BY CasesFacts DEF SidebarInv, SidebarTypeOK, TreeTypeOK, TreeType
<1>2. ASSUME NEW c \in CasesOf(tree.order), DragStart(c)
      PROVE  SidebarInv'
  <2>1. /\ ~selecting /\ drag' = [case |-> c, live |-> TRUE] /\ clicks' \in 0..MaxClicks
        /\ UNCHANGED <<order, dirs, doubtful, tree, fetches, selecting, selected, calls,
                       overlay, moving, lists, naming>>
    BY <1>2, ClickCounts DEF DragStart, Click, Idle
  <2>2. PageTypeOK'
    BY <1>1, <2>1 DEF PageTypeOK
  <2>3. DragsAlone'
    BY <2>1 DEF SidebarInv, DragsAlone
  <2>. QED
    BY <2>1, <2>2, <2>3, PlainKeepsSidebar
<1>3. CASE DragEnd
  <2>1. /\ drag' = None
        /\ UNCHANGED <<order, dirs, doubtful, tree, fetches, selecting, selected, calls,
                       overlay, moving, lists, naming, clicks>>
    BY <1>3 DEF DragEnd, Idle
  <2>2. PageTypeOK'
    BY <1>1, <2>1 DEF PageTypeOK
  <2>3. DragsAlone'
    BY <2>1 DEF SidebarInv, DragsAlone
  <2>. QED
    BY <2>1, <2>2, <2>3, PlainKeepsSidebar
<1>4. ASSUME NEW c \in CasesOf(tree.order), NEW above \in BOOLEAN, Drop(c, above)
      PROVE  SidebarInv'
  <2> DEFINE cat == c.cat
  <2>1. PICK ids \in Dropped(c, above) :
           /\ tree' = [tree EXCEPT !.order[cat] = ids]
           /\ Post([kind |-> "reorder", items |-> {drag.case}, target |-> cat,
                    ids |-> Inside(cat, ids), drawn |-> Inside(cat, tree.order[cat]),
                    dead |-> ~drag.live, answer |-> "pending"])
    BY <1>4 DEF Drop
  <2>2. /\ drag \in [case : Case, live : BOOLEAN] /\ drag # None /\ drag' = None
        /\ UNCHANGED <<order, dirs, doubtful, fetches, selecting, selected, overlay, moving,
                       lists, naming, clicks>>
        /\ c \in Case /\ cat \in Cat /\ drag.case.cat = cat
    BY <1>1, <1>4 DEF Drop, Droppable, PageTypeOK, Idle, Case
  <2>3. ids \in Seq(Id)
    BY <1>1, <2>2, DroppedFacts
  <2>4. tree' \in TreeType /\ tree'.checks = tree.checks
    BY <1>1, <2>1, <2>2, <2>3 DEF TreeType, Catalogs
  <2> DEFINE items == {drag.case}
             mine == Inside(cat, ids)
             yours == Inside(cat, tree.order[cat])
             dead == ~drag.live
             d == [kind |-> "reorder", items |-> items, target |-> cat, ids |-> mine,
                   drawn |-> yours, dead |-> dead, answer |-> "pending"]
  <2>5. calls' = calls \cup {d}
    BY <2>1 DEF Post
  <2>6. Counted(d)
    <3>1. ASSUME NEW id \in Id
          PROVE  Times(mine, id) = Times(yours, id) + IF dead /\ id \in {k.id : k \in items}
                                                      THEN 1 ELSE 0
      <4>1. id \in {k.id : k \in items} <=> id = drag.case.id
        OBVIOUS
      <4>2. Times(mine, id) = Times(yours, id)
                                + IF ~drag.live /\ id = drag.case.id THEN 1 ELSE 0
        BY <1>1, <2>1, <2>2, SortedTimes
      <4>. HIDE DEF mine, yours, items
      <4>. QED
        BY <4>1, <4>2
    <3>. HIDE DEF mine, yours, items, dead
    <3>2. d.ids = mine /\ d.drawn = yours /\ d.dead = dead /\ d.items = items
      OBVIOUS
    <3>. HIDE DEF d
    <3>. QED
      BY <3>1, <3>2 DEF Counted, Times
  <2>11. Sent(d) /\ d.kind = "reorder" /\ d \in calls'
    <3>1. items \in SUBSET Case
      BY <2>2
    <3>. HIDE DEF mine, yours, items, dead, cat
    <3>2. IsCall(d)
      BY <2>2, <3>1 DEF IsCall, Kinds
    <3>. QED
      BY <2>5, <2>6, <3>2 DEF Sent
  <2>. HIDE DEF d, mine, yours, items, dead, cat
  <2>12. Posted(PlainKinds \cup {"reorder"})
    BY <2>5, <2>11 DEF Posted
  <2>13. Posted(Kinds) /\ OneMoveAtATime'
    <3>1. Posted(Kinds)
      BY <2>12 DEF Posted, Kinds
    <3>. QED
      BY <2>2, <2>12, <3>1, MovesKept
  <2>7. SidebarTypeOK'
    <3>1. PageTypeOK'
      BY <1>1, <2>2 DEF PageTypeOK
    <3>. QED
      BY <1>1, <2>2, <2>4, <2>13, <3>1, CallsFacts
      DEF SidebarTypeOK, TreeTypeOK, ServerTypeOK
  <2>8. ClosedModal' /\ DragsAlone' /\ DirsHoldFiles'
    BY <2>2 DEF SidebarInv, ClosedModal, DragsAlone, DirsHoldFiles
  <2>9. ChecksAreSelection'
    <3>1. selected = {} /\ selected' = {}
      BY <2>2 DEF SidebarInv, DragsAlone
    <3>. QED
      BY <2>2, <2>4, <3>1 DEF SidebarInv, ChecksAreSelection
  <2>10. LastIsCurrent' /\ TreeIsCurrent'
    BY <2>2, <2>11, <2>13, CallsFacts DEF SidebarInv, LastIsCurrent, TreeIsCurrent
  <2>. QED
    BY <2>7, <2>8, <2>9, <2>10, <2>13, CallsFacts DEF SidebarInv
<1>. QED
  BY <1>2, <1>3, <1>4 DEF Sorting

-----------------------------------------------------------------------------
\* The move modal.
LEMMA MovingKeepsSidebar ==
  ASSUME SidebarInv, Moving
  PROVE  SidebarInv'
<1>1. /\ PageTypeOK /\ tree \in TreeType /\ tree.order \in Catalogs
      /\ CasesOf(tree.order) \in SUBSET Case /\ selected \in SUBSET Case
      /\ moving \in MovingType /\ lists \in SUBSET What /\ dirs \in SUBSET Cat
  BY CasesFacts DEF SidebarInv, SidebarTypeOK, TreeTypeOK, TreeType, PageTypeOK, ServerTypeOK
<1>2. ASSUME NEW kind \in {"move", "bulk-move"}, NEW items \in SUBSET Case,
             OpenMove(kind, items)
      PROVE  SidebarInv'
  <2> DEFINE what == [kind |-> kind, items |-> items]
  <2>1. /\ ~moving.open /\ clicks' \in 0..MaxClicks
        /\ moving' = [moving EXCEPT !.open = TRUE, !.list = None]
        /\ lists' = lists \cup {what}
        /\ UNCHANGED <<order, dirs, doubtful, tree, fetches, selecting, selected, drag, calls,
                       overlay, naming>>
    BY <1>2, ClickCounts DEF OpenMove, Click, Idle
  <2>2. what \in What
    BY DEF What
  <2>. HIDE DEF what
  <2>3. moving' \in MovingType /\ moving'.open /\ moving'.busy = moving.busy
    BY <1>1, <2>1 DEF MovingType
  <2>4. PageTypeOK'
    BY <1>1, <2>1, <2>2, <2>3 DEF PageTypeOK
  <2>5. ClosedModal' /\ DragsAlone'
    BY <2>1, <2>3 DEF SidebarInv, ClosedModal, DragsAlone
  <2>. QED
    BY <2>1, <2>3, <2>4, <2>5, MovesKept, QuietKeepsSidebar
<1>3. CASE \/ \E c \in CasesOf(tree.order) : OpenMove("move", {c})
           \/ selected # {} /\ OpenMove("bulk-move", selected)
  <2>1. \A c \in CasesOf(tree.order) : {c} \in SUBSET Case
    BY <1>1
  <2>. QED
    BY <1>1, <1>2, <1>3, <2>1
<1>4. ASSUME NEW what \in lists, ListArrives(what)
      PROVE  SidebarInv'
  <2>1. /\ lists' = lists \ {what} /\ what \in What
        /\ UNCHANGED <<order, dirs, doubtful, tree, fetches, selecting, selected, drag, calls,
                       overlay, naming, clicks>>
        /\ moving' \in IF ~moving.open THEN {moving} ELSE
                  {[moving EXCEPT !.list = dirs \cup {None}, !.does = what],
                    [moving EXCEPT !.list = None]}
    BY <1>1, <1>4 DEF ListArrives, Idle
  <2>2. moving' \in MovingType /\ (~moving'.open => moving'.does = None)
        /\ moving'.busy = moving.busy
    <3>1. CASE moving' = moving
      BY <1>1, <3>1 DEF SidebarInv, ClosedModal
    <3>2. CASE moving.open /\ moving' = [moving EXCEPT !.list = None]
      BY <1>1, <3>2 DEF MovingType
    <3>3. CASE moving.open /\ moving' = [moving EXCEPT !.list = dirs \cup {None}, !.does = what]
      <4> DEFINE list == dirs \cup {None}
      <4>1. list \in SUBSET (Cat \cup {None})
        BY <1>1
      <4>2. moving' = [moving EXCEPT !.list = list, !.does = what]
        BY <3>3
      <4>. HIDE DEF list
      <4>. QED
        BY <1>1, <2>1, <3>3, <4>1, <4>2 DEF MovingType
    <3>. QED
      BY <2>1, <3>1, <3>2, <3>3
  <2>3. PageTypeOK'
    BY <1>1, <2>1, <2>2 DEF PageTypeOK
  <2>4. ClosedModal' /\ DragsAlone'
    BY <2>1, <2>2 DEF SidebarInv, ClosedModal, DragsAlone
  <2>. QED
    BY <2>1, <2>2, <2>3, <2>4, MovesKept, QuietKeepsSidebar
<1>5. CloseMove \in MovingType /\ CloseMove.does = None /\ CloseMove.busy = moving.busy
  BY <1>1 DEF CloseMove, NotMoving, MovingType
<1>6. CASE CancelMove
  <2>1. /\ moving' = CloseMove
        /\ UNCHANGED <<order, dirs, doubtful, tree, fetches, selecting, selected, drag, calls,
                       overlay, lists, naming, clicks>>
    BY <1>6 DEF CancelMove, Idle
  <2>2. PageTypeOK'
    BY <1>1, <1>5, <2>1 DEF PageTypeOK
  <2>3. ClosedModal' /\ DragsAlone'
    BY <1>5, <2>1 DEF SidebarInv, ClosedModal, DragsAlone
  <2>. QED
    BY <1>5, <2>1, <2>2, <2>3, MovesKept, QuietKeepsSidebar
<1>7. ASSUME NEW target \in Targets, ConfirmMove(target)
      PROVE  SidebarInv'
  <2>1. /\ UNCHANGED <<order, dirs, doubtful, tree, fetches, selecting, selected, drag,
                       overlay, lists, naming, clicks>>
        /\ moving.open /\ moving.does # None /\ moving.does \in What
        /\ target \in Cat \cup {None}
    BY <1>1, <1>7, SidebarAssumption DEF ConfirmMove, Idle, MovingType
  <2>2. CASE moving' = CloseMove /\ UNCHANGED calls
    <3>1. PageTypeOK'
      BY <1>1, <1>5, <2>1, <2>2 DEF PageTypeOK
    <3>2. ClosedModal' /\ DragsAlone'
      BY <1>5, <2>1, <2>2 DEF SidebarInv, ClosedModal, DragsAlone
    <3>. QED
      BY <1>5, <2>1, <2>2, <3>1, <3>2, MovesKept, QuietKeepsSidebar
  <2>3. CASE /\ moving' = [moving EXCEPT !.busy = TRUE]
             /\ Post(Request(moving.does.kind, moving.does.items, target))
    <3>1. /\ moving' \in MovingType /\ moving'.open /\ moving'.busy = TRUE
      BY <1>1, <2>1, <2>3 DEF MovingType
    <3>2. PageTypeOK'
      BY <1>1, <2>1, <3>1 DEF PageTypeOK
    <3>3. ClosedModal' /\ DragsAlone'
      BY <2>1, <3>1 DEF SidebarInv, ClosedModal, DragsAlone
    <3> DEFINE kind == moving.does.kind
               items == moving.does.items
    <3>4. kind \in MoveKinds /\ items \in SUBSET Case /\ Post(Request(kind, items, target))
      BY <2>1, <2>3 DEF What, MoveKinds
    <3>. HIDE DEF kind, items
    <3>5. kind \in Kinds \ {"reorder"}
      BY <3>4 DEF Kinds, MoveKinds
    <3>6. Posted({kind})
      BY <2>1, <3>4, <3>5, RequestFacts
    <3>7. PICK c : Sent(c) /\ c.kind = kind /\ calls' = calls \cup {c}
      BY <3>6 DEF Posted
    <3>8. ~moving.busy
      BY <1>7 DEF ConfirmMove
    <3>9. MoveCalls = {}
      BY <3>8 DEF SidebarInv, OneMoveAtATime
    <3>10. MoveCalls' = {c}
      BY <3>4, <3>7, <3>9 DEF MoveCalls, MoveKinds
    <3>11. OneMoveAtATime'
      BY <3>1, <3>10 DEF OneMoveAtATime
    <3>12. Posted(Kinds)
      BY <3>5, <3>6 DEF Posted
    <3>. QED
      BY <2>1, <3>2, <3>3, <3>11, <3>12, QuietKeepsSidebar
  <2>. QED
    BY <1>7, <2>2, <2>3 DEF ConfirmMove
<1>. QED
  BY <1>3, <1>4, <1>6, <1>7 DEF Moving

-----------------------------------------------------------------------------
\* New folders, copies and saves.
LEMMA AddingKeepsSidebar ==
  ASSUME SidebarInv, Adding
  PROVE  SidebarInv'
<1>1. /\ PageTypeOK /\ CasesOf(tree.order) \in SUBSET Case
  BY CasesFacts DEF SidebarInv, SidebarTypeOK, TreeTypeOK, TreeType
<1>2. ASSUME Posted(PlainKinds) \/ UNCHANGED calls, clicks' \in 0..MaxClicks,
             naming' \in {"closed", "open"},
             UNCHANGED <<order, dirs, doubtful, tree, fetches, selecting, selected, drag,
                         overlay, moving, lists>>
      PROVE  SidebarInv'
  <2>1. PageTypeOK'
    BY <1>1, <1>2 DEF PageTypeOK
  <2>2. DragsAlone'
    BY <1>2 DEF SidebarInv, DragsAlone
  <2>. QED
    BY <1>2, <2>1, <2>2, PlainKeepsSidebar
<1>3. CASE OpenFolder
  BY <1>2, <1>3, ClickCounts DEF OpenFolder, Click, Idle
<1>4. CASE CloseFolder
  BY <1>1, <1>2, <1>4 DEF CloseFolder, Idle, PageTypeOK
<1>5. ASSUME NEW cat \in Targets \ {None}, SubmitFolder(cat)
      PROVE  SidebarInv'
  <2> DEFINE nothing == {}
  <2>1. /\ cat \in Cat \cup {None} /\ nothing \in SUBSET Case
        /\ "create" \in Kinds \ {"reorder"} /\ "create" \in PlainKinds
        /\ Post(Request("create", nothing, cat))
    BY <1>5, SidebarAssumption DEF SubmitFolder, Kinds, PlainKinds
  <2>. HIDE DEF nothing
  <2>2. Posted(PlainKinds)
    BY <2>1, RequestFacts, PostedFacts
  <2>. QED
    BY <1>1, <1>2, <1>5, <2>2, ClickCounts DEF SubmitFolder, Idle, PageTypeOK
<1>6. ASSUME NEW kind \in {"duplicate", "save"}, NEW c \in Case, PostCase(kind, c)
      PROVE  SidebarInv'
  <2> DEFINE items == {c}
  <2>1. /\ kind \in Kinds \ {"reorder"} /\ kind \in PlainKinds /\ items \in SUBSET Case
        /\ Post(Request(kind, items, None))
    BY <1>6 DEF PostCase, Kinds, PlainKinds
  <2>. HIDE DEF items
  <2>2. Posted(PlainKinds)
    BY <2>1, RequestFacts, PostedFacts
  <2>. QED
    BY <1>1, <1>2, <1>6, <2>2, ClickCounts DEF PostCase, Click, Idle, PageTypeOK
<1>. QED
  BY <1>1, <1>3, <1>4, <1>5, <1>6, SidebarAssumption DEF Adding

-----------------------------------------------------------------------------
\* A redraw's request is answered.
LEMMA ServeFetchKeepsSidebar ==
  ASSUME SidebarInv, NEW i \in DOMAIN fetches, ServeFetch(i)
  PROVE  SidebarInv'
<1>1. /\ fetches \in Seq(FetchType) /\ fetches[i] \in FetchType
      /\ order \in Catalogs /\ dirs \in SUBSET Cat
  BY DEF SidebarInv, SidebarTypeOK, TreeTypeOK, ServerTypeOK
<1>2. UNCHANGED <<order, dirs, tree, calls, doubtful, browser>>
  BY DEF ServeFetch
<1>3. \/ fetches' = [fetches EXCEPT ![i] = [fetches[i] EXCEPT !.cases = order]]
      \/ fetches' = [fetches EXCEPT ![i] = [fetches[i] EXCEPT !.cats = dirs]]
  BY DEF ServeFetch
<1>4. PICK f \in FetchType :
         /\ fetches' = [fetches EXCEPT ![i] = f] /\ f.late = fetches[i].late
         /\ f.cases \in {fetches[i].cases, order} /\ f.cats \in {fetches[i].cats, dirs}
  <2>1. /\ [fetches[i] EXCEPT !.cases = order] \in FetchType
        /\ [fetches[i] EXCEPT !.cats = dirs] \in FetchType
    BY <1>1 DEF FetchType
  <2>. QED
    BY <1>1, <1>3, <2>1 DEF FetchType
<1>5. /\ fetches' \in Seq(FetchType) /\ Len(fetches') = Len(fetches)
      /\ fetches # <<>> /\ fetches' # <<>>
      /\ \A k \in 1..Len(fetches) : fetches'[k] = IF k = i THEN f ELSE fetches[k]
  BY <1>1, <1>4
<1>6. SidebarTypeOK'
  BY <1>2, <1>5, CallsFacts
  DEF SidebarInv, SidebarTypeOK, PageTypeOK, TreeTypeOK, ServerTypeOK, browser
<1>7. LastIsCurrent'
  <2>1. Len(fetches) \in 1..Len(fetches)
    BY <1>1, <1>5
  <2>2. fetches'[Len(fetches)] = IF Len(fetches) = i THEN f ELSE fetches[Len(fetches)]
    BY <1>5, <2>1
  <2>. QED
    BY <1>2, <1>4, <1>5, <2>2, CallsFacts DEF SidebarInv, LastIsCurrent
<1>8. ChecksAreSelection' /\ TreeIsCurrent'
  BY <1>5 DEF ChecksAreSelection, TreeIsCurrent
<1>9. ClosedModal' /\ DragsAlone' /\ DirsHoldFiles' /\ OneMoveAtATime'
  BY <1>2, MovesKept DEF SidebarInv, ClosedModal, DragsAlone, DirsHoldFiles, browser
<1>. QED
  BY <1>2, <1>6, <1>7, <1>8, <1>9, CallsFacts DEF SidebarInv

\* What is left of a list without one of its elements.
LEMMA RemoveAtFacts ==
  ASSUME NEW S, NEW s \in Seq(S), NEW i \in 1..Len(s)
  PROVE  /\ RemoveAt(s, i) \in Seq(S)
         /\ Len(RemoveAt(s, i)) = Len(s) - 1
         /\ \A k \in 1..(Len(s) - 1) : RemoveAt(s, i)[k] = IF k < i THEN s[k] ELSE s[k + 1]
<1> DEFINE left == SubSeq(s, 1, i - 1)
           right == SubSeq(s, i + 1, Len(s))
<1>1. /\ left \in Seq(S) /\ Len(left) = i - 1
      /\ \A k \in 1..(i - 1) : left[k] = s[k]
  OBVIOUS
<1>2. /\ right \in Seq(S) /\ Len(right) = Len(s) - i
      /\ \A k \in 1..(Len(s) - i) : right[k] = s[k + i]
  OBVIOUS
<1>3. RemoveAt(s, i) = left \o right
  BY DEF RemoveAt
<1>. HIDE DEF left, right
<1>4. /\ left \o right \in Seq(S)
      /\ Len(left \o right) = Len(left) + Len(right)
      /\ \A k \in 1..(Len(left) + Len(right)) :
            (left \o right)[k] = IF k <= Len(left) THEN left[k] ELSE right[k - Len(left)]
  BY <1>1, <1>2, ConcatProperties
<1>5. Len(left) + Len(right) = Len(s) - 1
  BY <1>1, <1>2
<1>6. ASSUME NEW k \in 1..(Len(s) - 1)
      PROVE  RemoveAt(s, i)[k] = IF k < i THEN s[k] ELSE s[k + 1]
  <2>1. RemoveAt(s, i)[k] = IF k <= i - 1 THEN left[k] ELSE right[k - (i - 1)]
    BY <1>1, <1>3, <1>4, <1>5
  <2>2. CASE k < i
    BY <1>1, <2>1, <2>2
  <2>3. CASE ~(k < i)
    <3>1. k - (i - 1) \in 1..(Len(s) - i) /\ ~(k <= i - 1) /\ k - (i - 1) + i = k + 1
      BY <2>3
    <3>. QED
      BY <1>2, <2>1, <2>3, <3>1
  <2>. QED
    BY <2>2, <2>3
<1>. QED
  BY <1>3, <1>4, <1>5, <1>6

\* Without one of the redraws under way: the last is as it was, or overtaken.
LEMMA OvertakenFacts ==
  ASSUME fetches \in Seq(FetchType), NEW i \in DOMAIN fetches,
         fetches' = RemoveAt([k \in DOMAIN fetches |->
                                IF k < i THEN [fetches[k] EXCEPT !.late = TRUE]
                                ELSE fetches[k]], i)
  PROVE  /\ fetches' \in Seq(FetchType) /\ Len(fetches') = Len(fetches) - 1
         /\ fetches' # <<>> =>
               \/ fetches'[Len(fetches')] = fetches[Len(fetches)]
               \/ fetches'[Len(fetches')].late = TRUE
<1> DEFINE F == [k \in DOMAIN fetches |->
                    IF k < i THEN [fetches[k] EXCEPT !.late = TRUE] ELSE fetches[k]]
           n == Len(fetches)
<1>1. /\ n \in Nat /\ i \in 1..n /\ DOMAIN fetches = 1..n
      /\ \A k \in 1..n : fetches[k] \in FetchType
  OBVIOUS
<1>2. \A k \in 1..n : /\ F[k] \in FetchType
                      /\ k < i => F[k].late = TRUE
                      /\ ~(k < i) => F[k] = fetches[k]
  BY <1>1 DEF FetchType
<1>3. F \in Seq(FetchType) /\ Len(F) = n
  BY <1>1, <1>2
<1>4. fetches' = RemoveAt(F, i)
  OBVIOUS
<1>. HIDE DEF F, n
<1>5. /\ fetches' \in Seq(FetchType) /\ Len(fetches') = n - 1
      /\ \A k \in 1..(n - 1) : fetches'[k] = IF k < i THEN F[k] ELSE F[k + 1]
  BY <1>1, <1>3, <1>4, RemoveAtFacts
<1>6. ASSUME fetches' # <<>>
      PROVE  fetches'[n - 1] = fetches[n] \/ fetches'[n - 1].late = TRUE
  <2>1. n - 1 \in 1..(n - 1) /\ n - 1 \in 1..n /\ n \in 1..n /\ (n - 1) + 1 = n
    BY <1>1, <1>5, <1>6
  <2>2. fetches'[n - 1] = IF n - 1 < i THEN F[n - 1] ELSE F[n]
    BY <1>5, <2>1
  <2>. QED
    BY <1>1, <1>2, <2>1, <2>2
<1>. QED
  BY <1>5, <1>6 DEF n

\* What is drawn last is the selection and the catalog.
LEMMA RedrawKeepsSidebar ==
  ASSUME SidebarInv, NEW i \in DOMAIN fetches, NEW t \in TreeType, Redraw(i, t),
         t.checks = selected \cap CasesOf(t.order),
         i = Len(fetches) /\ ~t.late /\ ~doubtful /\ Told
         => t.order = order /\ t.folders = Folders(order, dirs)
  PROVE  SidebarInv'
<1>1. /\ PageTypeOK /\ TreeTypeOK /\ ServerTypeOK /\ CallsTypeOK
      /\ fetches \in Seq(FetchType)
  BY DEF SidebarInv, SidebarTypeOK, TreeTypeOK
<1>2. /\ tree' = t
      /\ drag' = IF drag = None THEN None ELSE [drag EXCEPT !.live = FALSE]
      /\ UNCHANGED <<order, dirs, selecting, selected, calls, overlay, moving, lists, naming,
                     clicks, doubtful>>
  BY DEF Redraw
<1>3. /\ fetches' \in Seq(FetchType) /\ Len(fetches') = Len(fetches) - 1
      /\ fetches' # <<>> =>
               \/ fetches'[Len(fetches')] = fetches[Len(fetches)]
               \/ fetches'[Len(fetches')].late = TRUE
  BY <1>1, OvertakenFacts DEF Redraw
<1>4. fetches # <<>>
  BY <1>1
<1>5. SidebarTypeOK'
  <2>1. drag' \in [case : Case, live : BOOLEAN] \cup {None}
    BY <1>1, <1>2 DEF PageTypeOK
  <2>2. PageTypeOK'
    BY <1>1, <1>2, <2>1 DEF PageTypeOK
  <2>. QED
    BY <1>1, <1>2, <1>3, <2>2, CallsFacts DEF SidebarTypeOK, TreeTypeOK, ServerTypeOK
<1>6. ClosedModal' /\ DragsAlone' /\ DirsHoldFiles' /\ OneMoveAtATime'
  BY <1>2, MovesKept DEF SidebarInv, ClosedModal, DragsAlone, DirsHoldFiles
<1>7. ChecksAreSelection'
  BY <1>2 DEF ChecksAreSelection
<1>8. LastIsCurrent'
  BY <1>2, <1>3, <1>4, CallsFacts DEF SidebarInv, LastIsCurrent
<1>9. TreeIsCurrent'
  <2>1. fetches' = <<>> => i = Len(fetches)
    BY <1>1, <1>3
  <2>. QED
    BY <1>2, <2>1, CallsFacts DEF TreeIsCurrent
<1>. QED
  BY <1>2, <1>5, <1>6, <1>7, <1>8, <1>9, CallsFacts DEF SidebarInv

LEMMA DrawingKeepsSidebar ==
  ASSUME SidebarInv, NEW i \in DOMAIN fetches, Draw(i) \/ FetchFails(i)
  PROVE  SidebarInv'
<1>1. /\ fetches \in Seq(FetchType) /\ fetches[i] \in FetchType
      /\ order \in Catalogs /\ dirs \in SUBSET Cat
  BY DEF SidebarInv, SidebarTypeOK, TreeTypeOK, ServerTypeOK
<1>2. CASE Draw(i)
  <2>1. PICK o, ds, late :
           /\ o = fetches[i].cases /\ o # None
           /\ \/ ds = fetches[i].cats /\ ds # None /\ late = fetches[i].late
              \/ ds = {} /\ late = TRUE
           /\ Redraw(i, Drawn(o, ds, selected, late))
    BY <1>2 DEF Draw
  <2>2. o \in Catalogs /\ ds \in SUBSET Cat /\ late \in BOOLEAN
    BY <1>1, <2>1 DEF FetchType
  <2> DEFINE t == Drawn(o, ds, selected, late)
  <2>3. /\ t \in TreeType /\ t.order = o /\ t.late = late /\ t.folders = Folders(o, ds)
        /\ t.checks = selected \cap CasesOf(t.order)
    BY <2>2, DrawnFacts
  <2>4. Redraw(i, t)
    BY <2>1
  <2>. HIDE DEF t
  <2>5. ASSUME i = Len(fetches), ~t.late, ~doubtful, Told
        PROVE  t.order = order /\ t.folders = Folders(order, dirs)
    <3>1. ~fetches[i].late /\ ds = fetches[i].cats /\ ds # None
      BY <2>1, <2>3, <2>5
    <3>2. fetches # <<>>
      BY <1>1
    <3>3. o = order /\ ds = dirs
      BY <2>1, <2>5, <3>1, <3>2 DEF SidebarInv, LastIsCurrent
    <3>. QED
      BY <2>3, <3>3
  <2>. QED
    BY <2>3, <2>4, <2>5, RedrawKeepsSidebar
<1>3. CASE FetchFails(i)
  <2>1. CasesOf(ErrorShown.order) = {}
    <3>1. ErrorShown.order \in Catalogs /\ \A cat \in Cat : ErrorShown.order[cat] = <<>>
      BY DEF ErrorShown, Catalogs
    <3>2. ASSUME NEW c \in CasesOf(ErrorShown.order) PROVE FALSE
      BY <3>1, CasesFacts DEF ToSet
    <3>. QED
      BY <3>2
  <2>2. /\ ErrorShown \in TreeType /\ ErrorShown.late = TRUE
        /\ ErrorShown.checks = selected \cap CasesOf(ErrorShown.order)
    <3>1. [cat \in Cat |-> <<>>] \in Catalogs
      BY DEF Catalogs
    <3>. QED
      BY <2>1, <3>1 DEF ErrorShown, TreeType
  <2>. QED
    BY <1>3, <2>2, RedrawKeepsSidebar DEF FetchFails
<1>. QED
  BY <1>2, <1>3

-----------------------------------------------------------------------------
\* The catalog once it has these test cases is a catalog.
LEMMA RevisedFacts ==
  ASSUME NEW o \in Catalogs, NEW cases \in SUBSET Case, NEW p \in Revised(o, cases)
  PROVE  p \in Catalogs
<1> DEFINE ids(cat) == {c.id : c \in {k \in cases : k.cat = cat}}
           may(cat) == Lists(o[cat], ids(cat))
<1>1. /\ p \in [Cat -> UNION {may(cat) : cat \in Cat}]
      /\ \A cat \in Cat : p[cat] \in may(cat)
  BY DEF Revised
<1>2. ASSUME NEW cat \in Cat, NEW q \in may(cat)
      PROVE  q \in Seq(Id)
  <2>1. ids(cat) \in SUBSET Id
    BY DEF Case
  <2>2. q \in SetToSeqs(ids(cat))
    BY DEF Lists
  <2>. HIDE DEF ids
  <2>3. Cardinality(ids(cat)) \in Nat
    BY <2>1, SidebarAssumption, FS_Subset, FS_CardinalityType
  <2>4. q \in [1..Cardinality(ids(cat)) -> ids(cat)]
    BY <2>2 DEF SetToSeqs
  <2>. QED
    BY <2>1, <2>3, <2>4
<1>. HIDE DEF may
<1>. QED
  BY <1>1, <1>2 DEF Catalogs

LEMMA ReorderedFacts ==
  ASSUME NEW seq \in Seq(Id), NEW ids, NEW q \in Reordered(seq, ids)
  PROVE  q \in Seq(Id)
<1>1. q \in [DOMAIN seq -> ToSet(seq)]
  BY DEF Reordered
<1>2. ToSet(seq) \in SUBSET Id /\ DOMAIN seq = 1..Len(seq) /\ Len(seq) \in Nat
  BY DEF ToSet
<1>. QED
  BY <1>1, <1>2

\* An answer changes the catalog, or says no; only a bulk delete does both.
Answered(c) ==
    \E ok \in BOOLEAN, o \in Catalogs, ds \in SUBSET (Cat \ {Unc}) :
        /\ Answer(c, ok, o, ds)
        /\ ~ok /\ ~doubtful' => o = order /\ ds = dirs

LEMMA AnsweredFacts ==
  ASSUME NEW c, NEW ok \in BOOLEAN, NEW o \in Catalogs, NEW ds \in SUBSET (Cat \ {Unc}),
         Answer(c, ok, o, ds), ok = TRUE \/ doubtful' \/ (o = order /\ ds = dirs)
  PROVE  Answered(c)
BY DEF Answered

LEMMA HandleFacts ==
  ASSUME SidebarInv, NEW c \in calls, Handle(c) \/ Fail(c) \/ AnswerLost(c)
  PROVE  /\ Answered(c)
         /\ c.answer = "pending" \/ doubtful' \/ (c.answer = "ok" /\ c.kind = "reorder")
         /\ doubtful' \in BOOLEAN /\ (doubtful => doubtful') /\ clicks' \in 0..MaxClicks
         /\ UNCHANGED <<tree, fetches, selecting, selected, drag, overlay, moving, lists,
                        naming>>
<1>1. /\ IsCall(c) /\ order \in Catalogs /\ dirs \in SUBSET (Cat \ {Unc})
      /\ CasesOf(order) \in SUBSET Case /\ doubtful \in BOOLEAN
  BY CasesFacts DEF SidebarInv, SidebarTypeOK, ServerTypeOK, CallsTypeOK
<1>2. c.items \in SUBSET Case /\ There(c) \in SUBSET Case /\ c.target \in Cat \cup {None}
  BY <1>1 DEF IsCall, There
<1>3. /\ c.answer = "pending" \/ doubtful' \/ (c.answer = "ok" /\ c.kind = "reorder")
      /\ doubtful' \in BOOLEAN /\ (doubtful => doubtful') /\ clicks' \in 0..MaxClicks
      /\ UNCHANGED <<tree, fetches, selecting, selected, drag, overlay, moving, lists, naming>>
  <2>1. clicks \in 0..MaxClicks
    BY DEF SidebarInv, SidebarTypeOK, PageTypeOK
  <2>2. CASE Handle(c)
    BY <1>1, <2>1, <2>2 DEF Handle, browser
  <2>3. CASE Fail(c)
    BY <1>1, <2>1, <2>3 DEF Fail, browser
  <2>4. CASE AnswerLost(c)
    BY <1>1, <2>4, ClickCounts DEF AnswerLost
  <2>. QED
    BY <2>2, <2>3, <2>4
<1>4. ASSUME Refuse(c) PROVE Answered(c)
  <2> DEFINE ok == FALSE
  <2>1. ok \in BOOLEAN /\ Answer(c, ok, order, dirs)
    BY <1>4 DEF Refuse
  <2>. HIDE DEF ok
  <2>. QED
    BY <1>1, <2>1, AnsweredFacts
<1>5. ASSUME NEW ok \in BOOLEAN, NEW cases \in SUBSET Case, Revise(c, ok, cases),
             ok \/ doubtful'
      PROVE  Answered(c)
  BY <1>1, <1>5, RevisedFacts, AnsweredFacts DEF Revise
<1>6. ASSUME NEW o \in Catalogs, NEW ds \in SUBSET (Cat \ {Unc}), Answer(c, TRUE, o, ds)
      PROVE  Answered(c)
  <2> SUFFICES \E ok \in BOOLEAN, p \in Catalogs, es \in SUBSET (Cat \ {Unc}) :
                  /\ Answer(c, ok, p, es)
                  /\ ~ok /\ ~doubtful' => p = order /\ es = dirs
    BY DEF Answered
  <2>1. TRUE \in BOOLEAN
    OBVIOUS
  <2> WITNESS TRUE \in BOOLEAN, o \in Catalogs, ds \in SUBSET (Cat \ {Unc})
  <2>. QED
    BY <1>6
<1>7. ASSUME NEW cases \in SUBSET Case, Revise(c, TRUE, cases)
      PROVE  Answered(c)
  <2>1. PICK o \in Revised(order, cases) : Answer(c, TRUE, o, dirs)
    BY <1>7 DEF Revise
  <2>2. o \in Catalogs
    BY <1>1, RevisedFacts
  <2>. QED
    BY <1>1, <1>6, <2>1, <2>2
<1>8. ASSUME Fail(c) \/ AnswerLost(c) PROVE Answered(c)
  BY <1>4, <1>8 DEF Fail, AnswerLost
<1>9. ASSUME Handle(c) PROVE Answered(c)
  <2>1. CASE c.kind = "delete"
    <3>1. HandleDelete(c)
      BY <1>9, <2>1 DEF Handle
    <3>2. CasesOf(order) \ c.items \in SUBSET Case
      BY <1>1
    <3>. QED
      BY <1>4, <1>7, <3>1, <3>2 DEF HandleDelete
  <2>2. CASE c.kind = "bulk-delete"
    <3>1. HandleBulkDelete(c) /\ (There(c) # c.items => doubtful')
      BY <1>9, <2>2 DEF Handle
    <3>2. \A gone : CasesOf(order) \ gone \in SUBSET Case
      BY <1>1
    <3>. QED
      BY <1>5, <1>7, <3>1, <3>2 DEF HandleBulkDelete
  <2>3. CASE c.kind = "folder"
    <3>1. HandleFolder(c)
      BY <1>9, <2>3 DEF Handle
    <3>2. /\ [cat \in Cat |-> IF cat \in Below[c.target] THEN <<>> ELSE order[cat]] \in Catalogs
          /\ dirs \ Below[c.target] \in SUBSET (Cat \ {Unc})
      BY <1>1 DEF Catalogs
    <3>. QED
      BY <1>4, <1>6, <3>1, <3>2 DEF HandleFolder
  <2>4. CASE c.kind \in {"move", "bulk-move"}
    <3>1. HandleMove(c)
      BY <1>9, <2>4 DEF Handle
    <3>2. (CasesOf(order) \ Movable(c)) \cup {[k EXCEPT !.cat = c.target] : k \in Movable(c)}
            \in SUBSET Case
      <4>1. ASSUME NEW k \in Movable(c)
            PROVE  [k EXCEPT !.cat = c.target] \in Case
        <5>1. k \in Case /\ c.target \in Cat
          BY <1>2 DEF Movable
        <5>. QED
          BY <5>1 DEF Case
      <4>. QED
        BY <1>1, <4>1
    <3>. QED
      BY <1>4, <1>7, <3>1, <3>2 DEF HandleMove
  <2>5. CASE c.kind = "create"
    <3>1. HandleCreate(c)
      BY <1>9, <2>5 DEF Handle
    <3>2. dirs \cup Around({c.target}) \in SUBSET (Cat \ {Unc})
      BY <1>1 DEF Around
    <3>. QED
      BY <1>1, <1>4, <1>6, <3>1, <3>2 DEF HandleCreate
  <2>6. CASE c.kind = "reorder"
    <3>1. HandleReorder(c) /\ c.target \in Cat
      BY <1>1, <1>9, <2>6 DEF Handle, IsCall
    <3>2. order[c.target] \in Seq(Id)
      BY <1>1, <3>1 DEF Catalogs
    <3>3. \A q \in Reordered(order[c.target], c.ids) :
             [order EXCEPT ![c.target] = q] \in Catalogs
      BY <1>1, <3>1, <3>2, ReorderedFacts DEF Catalogs
    <3>. QED
      BY <1>1, <1>6, <3>1, <3>3 DEF HandleReorder
  <2>7. CASE c.kind = "save"
    <3>1. Revise(c, TRUE, CasesOf(order) \cup c.items)
      BY <1>9, <2>7 DEF Handle
    <3>2. CasesOf(order) \cup c.items \in SUBSET Case
      BY <1>1, <1>2
    <3>. QED
      BY <1>7, <3>1, <3>2
  <2>8. CASE c.kind = "duplicate"
    <3>1. HandleDuplicate(c)
      BY <1>9, <2>8 DEF Handle
    <3>2. \A copy \in Copies(c) : CasesOf(order) \cup {copy} \in SUBSET Case
      BY <1>1, <1>2 DEF Copies, Case
    <3>. QED
      BY <1>4, <1>7, <3>1, <3>2 DEF HandleDuplicate
  <2>. QED
    BY <1>1, <2>1, <2>2, <2>3, <2>4, <2>5, <2>6, <2>7, <2>8
    DEF IsCall, Kinds, PlainKinds, MoveKinds
<1>. QED
  BY <1>3, <1>8, <1>9

\* The server carries out a request, or it fails, or its answer is lost.
LEMMA AnswerKeepsSidebar ==
  ASSUME SidebarInv, NEW c \in calls, Handle(c) \/ Fail(c) \/ AnswerLost(c)
  PROVE  SidebarInv'
<1>1. /\ PageTypeOK /\ TreeTypeOK /\ ServerTypeOK /\ CallsTypeOK
  BY DEF SidebarInv, SidebarTypeOK
<1>2. /\ c.answer = "pending" \/ doubtful' \/ (c.answer = "ok" /\ c.kind = "reorder")
      /\ doubtful' \in BOOLEAN /\ (doubtful => doubtful') /\ clicks' \in 0..MaxClicks
      /\ UNCHANGED <<tree, fetches, selecting, selected, drag, overlay, moving, lists, naming>>
  BY HandleFacts
<1>3. PICK ok \in BOOLEAN, o \in Catalogs, ds \in SUBSET (Cat \ {Unc}) :
         Answer(c, ok, o, ds) /\ (~ok /\ ~doubtful' => o = order /\ ds = dirs)
  BY HandleFacts DEF Answered
<1> DEFINE d == [c EXCEPT !.answer = IF ok THEN "ok" ELSE "failed"]
<1>4. order' = o /\ dirs' = ds \cup Around(Filled(o)) /\ calls' = (calls \ {c}) \cup {d}
  BY <1>3 DEF Answer
<1>5. /\ IsCall(d) /\ d.kind = c.kind /\ d.items = c.items /\ d.drawn = c.drawn /\ d.ids = c.ids
      /\ d.dead = c.dead /\ d.answer = IF ok THEN "ok" ELSE "failed"
  <2>1. IsCall(c)
    BY <1>1 DEF CallsTypeOK
  <2>2. d = [kind |-> c.kind, items |-> c.items, target |-> c.target, ids |-> c.ids,
             drawn |-> c.drawn, dead |-> c.dead, answer |-> IF ok THEN "ok" ELSE "failed"]
    BY <2>1 DEF IsCall
  <2>. QED
    BY <2>1, <2>2 DEF IsCall
<1>. HIDE DEF d
<1>6. CallsTypeOK' /\ DropKeepsFolder' /\ OneMoveAtATime'
  <2>1. CallsTypeOK' /\ DropKeepsFolder'
    BY <1>1, <1>4, <1>5 DEF SidebarInv, CallsTypeOK, DropKeepsFolder
  <2>2. CASE c \in MoveCalls
    <3>1. MoveCalls = {c} /\ MoveCalls' = {d}
      BY <1>4, <1>5, <2>2 DEF SidebarInv, OneMoveAtATime, MoveCalls
    <3>. QED
      BY <1>2, <2>1, <3>1 DEF SidebarInv, OneMoveAtATime
  <2>3. CASE c \notin MoveCalls
    <3>1. MoveCalls' = MoveCalls
      BY <1>4, <1>5, <2>3 DEF MoveCalls
    <3>. QED
      BY <1>2, <2>1, <3>1 DEF SidebarInv, OneMoveAtATime
  <2>. QED
    BY <2>2, <2>3
<1>7. dirs' \in SUBSET (Cat \ {Unc}) /\ DirsHoldFiles'
  BY <1>4 DEF Around, DirsHoldFiles
<1>8. SidebarTypeOK'
  BY <1>1, <1>2, <1>4, <1>6, <1>7 DEF SidebarTypeOK, PageTypeOK, TreeTypeOK, ServerTypeOK
<1>9. Told' /\ ~doubtful' => Told /\ ~ok
  BY <1>2, <1>4, <1>5 DEF Told
<1>10. ~ok /\ ~doubtful' => order' = order /\ dirs' = dirs
  BY <1>3, <1>4 DEF SidebarInv, DirsHoldFiles
<1>11. LastIsCurrent'
  BY <1>2, <1>9, <1>10 DEF SidebarInv, LastIsCurrent
<1>12. TreeIsCurrent'
  <2>1. (\A k \in calls' : k.kind # "reorder") => \A k \in calls : k.kind # "reorder"
    BY <1>4, <1>5
  <2>. QED
    BY <1>2, <1>9, <1>10, <2>1 DEF SidebarInv, TreeIsCurrent
<1>13. ClosedModal' /\ DragsAlone' /\ ChecksAreSelection'
  BY <1>2 DEF SidebarInv, ClosedModal, DragsAlone, ChecksAreSelection
<1>. QED
  BY <1>6, <1>7, <1>8, <1>11, <1>12, <1>13 DEF SidebarInv

\* The page is told.
LEMMA ReceiveKeepsSidebar ==
  ASSUME SidebarInv, NEW c \in calls, Receive(c)
  PROVE  SidebarInv'
<1>1. /\ PageTypeOK /\ TreeTypeOK /\ ServerTypeOK /\ CallsTypeOK /\ IsCall(c)
  BY DEF SidebarInv, SidebarTypeOK, CallsTypeOK
<1>2. /\ calls' = calls \ {c} /\ c.answer # "pending"
      /\ UNCHANGED <<order, dirs, tree, drag, overlay, lists, clicks, doubtful>>
  BY DEF Receive
<1>3. CallsTypeOK' /\ DropKeepsFolder' /\ DirsHoldFiles'
  BY <1>1, <1>2 DEF SidebarInv, CallsTypeOK, DropKeepsFolder, DirsHoldFiles
<1>4. /\ naming' \in {"closed", "open"} /\ moving' \in MovingType
      /\ ClosedModal' /\ OneMoveAtATime'
  <2>1. /\ moving \in MovingType /\ naming \in {"closed", "open"}
        /\ ~moving.open => moving.does = None
    BY <1>1 DEF SidebarInv, ClosedModal, PageTypeOK
  <2>2. CASE c.kind \notin MoveKinds
    <3>1. UNCHANGED moving /\ (UNCHANGED naming \/ naming' = "closed")
      BY <2>2 DEF MoveKinds, Receive, Changed, BulkDeleted, Moved, Sorted, Created
    <3>2. MoveCalls' = MoveCalls
      BY <1>2, <2>2 DEF MoveCalls, MoveKinds
    <3>. QED
      BY <2>1, <3>1, <3>2 DEF SidebarInv, OneMoveAtATime, ClosedModal
  <2>3. CASE c.kind \in MoveKinds
    <3>1. /\ naming' = naming
          /\ \/ moving' = [CloseMove EXCEPT !.busy = FALSE]
             \/ moving' = [moving EXCEPT !.busy = FALSE]
      BY <2>3 DEF MoveKinds, Receive, Changed, BulkDeleted, Moved, Sorted, Created
    <3>2. /\ moving' \in MovingType /\ (~moving'.open => moving'.does = None)
          /\ moving'.busy = FALSE
      <4>1. CASE moving' = [moving EXCEPT !.busy = FALSE]
        BY <2>1, <4>1 DEF MovingType
      <4>2. CASE moving' = [CloseMove EXCEPT !.busy = FALSE]
        BY <2>1, <4>2 DEF CloseMove, NotMoving, MovingType
      <4>. QED
        BY <3>1, <4>1, <4>2
    <3>3. MoveCalls = {c} /\ MoveCalls' = {}
      BY <1>2, <2>3 DEF SidebarInv, OneMoveAtATime, MoveCalls, MoveKinds
    <3>4. OneMoveAtATime'
      BY <3>2, <3>3 DEF OneMoveAtATime
    <3>. QED
      BY <2>1, <3>1, <3>2, <3>4 DEF ClosedModal
  <2>. QED
    BY <2>2, <2>3
<1>5. \/ /\ Fetch(1) \/ Fetch(2)
         /\ \/ UNCHANGED <<selecting, selected>>
            \/ selecting' = FALSE /\ selected' = {}
      \/ /\ UNCHANGED <<fetches, selecting, selected>>
         /\ c.answer # "ok" /\ c.kind # "reorder"
  BY DEF Receive, Changed, BulkDeleted, Moved, Sorted, Created, SelectMode
<1>6. PageTypeOK' /\ DragsAlone'
  <2>1. selecting' \in BOOLEAN /\ selected' \in SUBSET Case
    BY <1>1, <1>5 DEF PageTypeOK
  <2>2. DragsAlone'
    BY <1>2, <1>5 DEF SidebarInv, DragsAlone
  <2>. QED
    BY <1>1, <1>2, <1>4, <2>1, <2>2 DEF PageTypeOK
<1>7. /\ fetches' \in Seq(FetchType)
      /\ ChecksAreSelection' /\ LastIsCurrent' /\ TreeIsCurrent'
  <2>1. CASE Fetch(1) \/ Fetch(2)
    BY <1>1, <2>1, FetchFacts
  <2>2. CASE /\ UNCHANGED <<fetches, selecting, selected>>
             /\ c.answer # "ok" /\ c.kind # "reorder"
    <3>1. Told' => Told
      BY <1>2, <2>2 DEF Told
    <3>2. (\A k \in calls' : k.kind # "reorder") => \A k \in calls : k.kind # "reorder"
      BY <1>2, <2>2
    <3>. QED
      BY <1>1, <1>2, <2>2, <3>1, <3>2
      DEF SidebarInv, TreeTypeOK, ChecksAreSelection, LastIsCurrent, TreeIsCurrent
  <2>. QED
    BY <1>5, <2>1, <2>2
<1>. QED
  BY <1>1, <1>2, <1>3, <1>4, <1>6, <1>7 DEF SidebarInv, SidebarTypeOK, TreeTypeOK, ServerTypeOK

-----------------------------------------------------------------------------
LEMMA NextKeepsSidebar == SidebarInv /\ [Next]_vars => SidebarInv'
<1> SUFFICES ASSUME SidebarInv, [Next]_vars PROVE SidebarInv'
  OBVIOUS
<1>1. CASE Selecting
  BY <1>1, SelectingKeepsSidebar
<1>2. CASE Sorting
  BY <1>2, SortingKeepsSidebar
<1>3. CASE Deleting
  BY <1>3, DeletingKeepsSidebar
<1>4. CASE Moving
  BY <1>4, MovingKeepsSidebar
<1>5. CASE Adding
  BY <1>5, AddingKeepsSidebar
<1>6. CASE \E i \in DOMAIN fetches : ServeFetch(i) \/ Draw(i) \/ FetchFails(i)
  BY <1>6, ServeFetchKeepsSidebar, DrawingKeepsSidebar
<1>7. CASE \E c \in calls : Handle(c) \/ Fail(c) \/ AnswerLost(c) \/ Receive(c)
  BY <1>7, AnswerKeepsSidebar, ReceiveKeepsSidebar
<1>8. CASE UNCHANGED vars
  <2>1. PageTypeOK' /\ DragsAlone'
    BY <1>8 DEF SidebarInv, SidebarTypeOK, PageTypeOK, DragsAlone, vars, browser
  <2>. QED
    BY <1>8, <2>1, PlainKeepsSidebar DEF vars, browser
<1>. QED
  BY <1>1, <1>2, <1>3, <1>4, <1>5, <1>6, <1>7, <1>8 DEF Next

THEOREM SidebarInvariant == Spec => []SidebarInv
BY SidebarInit, NextKeepsSidebar, PTL DEF Spec

\* What the page and the server hold is always of its kind: the tree, the redraws under
\* way, the selection, the dialogs and the requests (app.js:161-245, 346-1035).
THEOREM SidebarTypeSafe == Spec => []SidebarTypeOK
<1>1. SidebarInv => SidebarTypeOK
  BY DEF SidebarInv
<1>. QED
  BY <1>1, SidebarInvariant, PTL

\* At most one move is under way, and the button that starts one is disabled while it is,
\* however often the modal is closed, opened for other test cases and filled by a list
\* that was asked for before (app.js:902, 943, 949, 990).
THEOREM OneMoveIsUnderWay == Spec => []OneMoveAtATime
<1>1. SidebarInv => OneMoveAtATime
  BY DEF SidebarInv
<1>. QED
  BY <1>1, SidebarInvariant, PTL

\* What is posted as the new order of a folder has every item exactly as often as it was
\* drawn inside the folder, however many folders are inside it, and the dragged item once
\* more if the tree was redrawn since the drag began (app.js:563, 565, 586).
THEOREM SortsKeepFolder == Spec => []DropKeepsFolder
<1>1. SidebarInv => DropKeepsFolder
  BY DEF SidebarInv
<1>. QED
  BY <1>1, SidebarInvariant, PTL

\* With no redraw under way the checks of the tree are the selection, however clicks,
\* sorts, bulk requests and redraws interleave (app.js:445, 480, 727).
THEOREM ChecksStaySelection == Spec => []ChecksAreSelection
<1>1. SidebarInv => ChecksAreSelection
  BY DEF SidebarInv
<1>. QED
  BY <1>1, SidebarInvariant, PTL

\* With nothing under way the tree is the server's catalog, for any number of redraws
\* that overtook one another before the last, unless the last was itself overtaken, a
\* bulk delete failed half way or the answer to a change was lost (app.js:346, 575, 768,
\* 987).
THEOREM TreeFollowsCatalog == Spec => []TreeCatchesUp
<1>1. SidebarInv => TreeCatchesUp
  BY DEF SidebarInv, TreeIsCurrent, TreeCatchesUp, Told
<1>. QED
  BY <1>1, SidebarInvariant, PTL
=============================================================================
