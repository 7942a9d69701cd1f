-------------------------- MODULE RunnerViewProofs --------------------------
(***************************************************************************)
(* For every catalog, whatever is clicked and whatever the server answers  *)
(* in whatever order: the editor and the cards belong to what is selected  *)
(* and shown, and who deletes or moves a test case does not leave the page *)
(* on one that is gone.                                                    *)
(*                                                                         *)
(* What carries the last one is that a selection without a file is about   *)
(* to be corrected: the answer to the change that took the file away is    *)
(* on its way, and it concerns what is selected.                           *)
(***************************************************************************)
EXTENDS RunnerView, TLAPS

Answers == {"pending", "ok", "failed"}

CallType ==
    [kind : {"get"} \cup Changing, items : SUBSET Case, target : Cat \cup {None},
     answer : Answers]

\* A get and a save name one test case, a delete and a move some, a folder is not
\* the root.
CallOK(c) ==
    /\ c \in CallType
    /\ c.kind \in {"get", "save"} => \E k \in Case : c.items = {k}
    /\ c.kind \in {"delete", "move", "bulk"} => c.items # {}
    /\ c.kind = "folder" => c.target \in Cat \ {Unc}

EditorType ==
    [mode : {"hint", "loading", "open", "failed"}, text : Doc \cup {None},
     pristine : Doc \cup {None}]

CardsType ==
    [kind : {"hint", "pending", "result", "dead"}, of : Run \cup {None},
     by : Run \cup {None}]

RunType == [phase : {"new", "posted", "complete", "ended"}, case : Doc \cup {None}]

ViewTypeOK ==
    /\ files \subseteq Case /\ known \subseteq Case
    /\ sel \in Doc \cup {None}
    /\ def \in Case \cup {None}
    /\ editor \in EditorType
    /\ saveBtn \in {"idle", "saving", "told"}
    /\ \A c \in calls : CallOK(c)
    /\ waiters \subseteq [case : Case, then : {"run", "edit"}]
    /\ opened \in Case \cup {None}
    /\ run \in [Run -> RunType]
    /\ result \in Run \cup {None}
    /\ cards \in CardsType
    /\ runBtn \in {"on", "off"}
    /\ clicks \in 0..MaxClicks
    /\ doubtful \in BOOLEAN

-----------------------------------------------------------------------------
\* Change c was made, and its answer will correct the selection.
Corrects(c) ==
    /\ c.answer = "ok"
    /\ \/ c.kind \in {"delete", "move", "bulk"} /\ \E k \in c.items : IsSelected(k)
       \/ c.kind = "folder" /\ sel.cat = c.target

OneChange == \A c, d \in calls : c.kind \in Changing /\ d.kind \in Changing => c = d

\* What a change that was made has put where.
Arrived ==
    \A c \in calls : c.answer = "ok" =>
        /\ c.kind \in {"move", "bulk"} /\ c.target # None =>
              \A k \in c.items : [id |-> k.id, cat |-> c.target] \in files
        /\ c.kind = "save" => c.items \subseteq files

\* A selection that is not taken to be in the root has its file, or is about to be
\* corrected.
Anchored ==
    sel # None /\ sel.cat # None => sel \in files \/ \E c \in calls : Corrects(c)

ViewInv ==
    /\ ViewTypeOK
    /\ EditorOfSelection
    /\ CardsMatchResult
    /\ ~doubtful => OneChange /\ Arrived /\ Anchored

-----------------------------------------------------------------------------
\* A document and a test case are not null, and a null category is no category.
LEMMA ViewNames ==
  /\ Case \subseteq Doc /\ None \notin Doc /\ None \notin Case
  /\ None \notin Cat /\ None \notin Id /\ None \notin Run
  /\ Unc \in Cat
  /\ \A d \in Doc : d.id \in Id /\ d.cat \in Cat \cup {None} /\ (d.cat # None => d \in Case)
  /\ \A k \in Case : k.id \in Id /\ k.cat \in Cat
  /\ \A id \in Id, cat \in Cat : [id |-> id, cat |-> cat] \in Case
BY ViewAssumption DEF Case, Doc

\* A call has the fields it is sent with.
LEMMA CallFields ==
  ASSUME NEW kind \in {"get"} \cup Changing, NEW items \in SUBSET Case,
         NEW target \in Cat \cup {None}
  PROVE  /\ Call(kind, items, target) \in CallType
         /\ Call(kind, items, target).kind = kind
         /\ Call(kind, items, target).items = items
         /\ Call(kind, items, target).target = target
         /\ Call(kind, items, target).answer = "pending"
BY DEF Call, CallType, Answers

\* A call that is sent is well formed among the others; where it leaves no doubt,
\* it is the only change under way, and what it gets is there.
LEMMA SendFacts ==
  ASSUME ViewTypeOK, NEW call, CallOK(call), call.answer = "pending", Send(call)
  PROVE  /\ \A c \in calls' : CallOK(c)
         /\ doubtful' \in BOOLEAN
         /\ calls \subseteq calls'
         /\ \A c \in calls' : c.answer = "ok" => c \in calls
         /\ ~doubtful' => ~doubtful
         /\ ~doubtful' /\ OneChange => OneChange'
         /\ ~doubtful' /\ call.kind = "get" => call.items \subseteq files
BY DEF ViewTypeOK, Send, OneChange, Changing

LEMMA ViewInit == Init => ViewInv
<1> SUFFICES ASSUME Init PROVE ViewInv
  OBVIOUS
<1>1. ViewTypeOK
  <2>1. /\ editor \in EditorType /\ cards \in CardsType
        /\ run \in [Run -> RunType]
    BY DEF Init, Closed, Hint, EditorType, CardsType, RunType
  <2>2. clicks \in 0..MaxClicks
    BY ViewAssumption DEF Init
  <2>3. doubtful \in BOOLEAN
    BY DEF Init
  <2>. QED
    BY <2>1, <2>2, <2>3, ViewAssumption DEF Init, ViewTypeOK
<1>2. EditorOfSelection /\ CardsMatchResult
  BY DEF Init, EditorOfSelection, CardsMatchResult, Closed, Hint
<1>3. OneChange /\ Arrived /\ Anchored
  BY DEF Init, OneChange, Arrived, Anchored
<1>. QED
  BY <1>1, <1>2, <1>3 DEF ViewInv

-----------------------------------------------------------------------------
\* Selecting: the tree may be old, but then there is doubt.
LEMMA SelectKeepsView ==
  ASSUME ViewInv, NEW c \in Case, NEW then \in {"look", "run", "edit"}, Select(c, then)
  PROVE  ViewInv'
<1> DEFINE call == Call("get", {c}, None)
<1>1. CallOK(call) /\ call.answer = "pending" /\ call.kind = "get" /\ call.items = {c}
  BY CallFields DEF CallOK, Changing
<1>2. ViewTypeOK /\ Send(call)
  BY DEF ViewInv, Select
<1>. HIDE DEF call
<1>3. ViewTypeOK'
  <2>1. /\ \A d \in calls' : CallOK(d)
        /\ doubtful' \in BOOLEAN
    BY <1>1, <1>2, SendFacts
  <2>2. clicks' \in 0..MaxClicks
    BY <1>2, ViewAssumption DEF ViewTypeOK, Select, Click
  <2>3. waiters' \subseteq [case : Case, then : {"run", "edit"}]
    BY <1>2 DEF ViewTypeOK, Select
  <2>4. editor' \in EditorType /\ cards' \in CardsType
    BY DEF Select, Closed, Hint, EditorType, CardsType
  <2>. QED
    BY <1>2, <2>1, <2>2, <2>3, <2>4, ViewNames DEF ViewTypeOK, Select
<1>4. EditorOfSelection' /\ CardsMatchResult'
  BY DEF Select, EditorOfSelection, CardsMatchResult, Closed, Hint
<1>5. ~doubtful' => OneChange' /\ Arrived' /\ Anchored'
  <2> SUFFICES ASSUME ~doubtful' PROVE OneChange' /\ Arrived' /\ Anchored'
    OBVIOUS
  <2>1. OneChange /\ Arrived /\ OneChange' /\ c \in files
    BY <1>1, <1>2, SendFacts DEF ViewInv
  <2>2. Arrived'
    BY <1>1, <1>2, <2>1, SendFacts DEF Arrived, Select
  <2>3. Anchored'
    BY <2>1, ViewNames DEF Anchored, Select
  <2>. QED
    BY <1>1, <1>2, <2>1, <2>2, <2>3, SendFacts
<1>. QED
  BY <1>3, <1>4, <1>5 DEF ViewInv
\* The builder's test case is on disk when the page hears of it.
LEMMA BuilderSavedKeepsView ==
  ASSUME ViewInv, NEW c \in Case, BuilderSaved(c)
  PROVE  ViewInv'
<1> DEFINE call == Call("get", {c}, None)
<1>1. CallOK(call) /\ call.answer = "pending" /\ call.kind = "get"
  BY CallFields DEF CallOK, Changing
<1>2. ViewTypeOK
  BY DEF ViewInv
<1>3. Send(call) \/ UNCHANGED <<calls, doubtful>>
  BY DEF BuilderSaved, Refresh
<1>. HIDE DEF call
<1>4. /\ UNCHANGED <<sel, def, editor, cards, runBtn>>
      /\ UNCHANGED <<saveBtn, waiters, opened, run, result>>
      /\ files' = files \cup {c} /\ known' = known \cup {c}
      /\ clicks' \in 0..MaxClicks
  BY <1>2, ViewAssumption DEF BuilderSaved, Refresh, page, Click, ViewTypeOK
<1>5. /\ \A d \in calls' : CallOK(d)
      /\ doubtful' \in BOOLEAN
      /\ calls \subseteq calls'
      /\ \A d \in calls' : d.answer = "ok" => d \in calls
      /\ ~doubtful' => ~doubtful
      /\ ~doubtful' /\ OneChange => OneChange'
  <2>1. CASE Send(call)
    BY <1>1, <1>2, <2>1, SendFacts
  <2>2. CASE UNCHANGED <<calls, doubtful>>
    BY <1>2, <2>2 DEF ViewTypeOK, OneChange
  <2>. QED
    BY <1>3, <2>1, <2>2
<1>6. ViewTypeOK'
  BY <1>2, <1>4, <1>5 DEF ViewTypeOK
<1>7. EditorOfSelection' /\ CardsMatchResult'
  BY <1>4 DEF ViewInv, EditorOfSelection, CardsMatchResult
<1>8. Arrived => (~doubtful' => Arrived')
  BY <1>4, <1>5 DEF Arrived
<1>9. Anchored => Anchored'
  BY <1>4, <1>5 DEF Anchored, Corrects, IsSelected
<1>. QED
  BY <1>5, <1>6, <1>7, <1>8, <1>9 DEF ViewInv

-----------------------------------------------------------------------------
\* An answer that is taken off the wire leaves the others as they are.
LEMMA ReceiveFacts ==
  ASSUME ViewInv, NEW c \in calls, Receive(c)
  PROVE  /\ CallOK(c) /\ calls' = calls \ {c}
         /\ UNCHANGED <<files, known, waiters, opened, run, clicks, doubtful>>
         /\ \A d \in calls' : CallOK(d)
         /\ ~doubtful => OneChange' /\ Arrived'
BY DEF ViewInv, ViewTypeOK, Receive, Loaded, Saved, Deleted, FolderDeleted, Moved,
       OneChange, Arrived

\* A definition is taken only by the selection it was fetched for.
LEMMA LoadedKeepsView ==
  ASSUME ViewInv, NEW c \in calls, Receive(c), Loaded(c)
  PROVE  ViewInv'
<1>1. /\ UNCHANGED <<sel, saveBtn, result, cards, runBtn>>
      /\ c.kind = "get"
  BY DEF Loaded
<1>2. \/ UNCHANGED <<def, editor>>
      \/ sel \in c.items /\ def' = sel /\ editor' = Showing(sel)
      \/ editor' = Closed("failed") /\ UNCHANGED def
  BY DEF Loaded
<1>3. c.items \subseteq Case
  BY ReceiveFacts DEF CallOK, CallType
<1>4. def' \in Case \cup {None} /\ editor' \in EditorType
  BY <1>2, <1>3, ViewNames DEF ViewInv, ViewTypeOK, EditorType, Showing, Closed
<1>5. ViewTypeOK'
  BY <1>1, <1>4, ReceiveFacts DEF ViewInv, ViewTypeOK
<1>6. EditorOfSelection'
  BY <1>1, <1>2, <1>3, ViewNames DEF ViewInv, EditorOfSelection, Closed
<1>7. CardsMatchResult'
  BY <1>1 DEF ViewInv, CardsMatchResult
<1>8. Anchored => Anchored'
  BY <1>1, ReceiveFacts DEF Anchored, Corrects, IsSelected, Changing
<1>. QED
  BY <1>5, <1>6, <1>7, <1>8, ReceiveFacts DEF ViewInv

\* What was saved is there, and is selected.
LEMMA SavedKeepsView ==
  ASSUME ViewInv, NEW c \in calls, Receive(c), Saved(c)
  PROVE  ViewInv'
<1>1. /\ UNCHANGED <<result, cards, runBtn>>
      /\ c.kind = "save" /\ saveBtn' = "told"
  BY DEF Saved
<1>2. PICK k \in Case : c.items = {k}
  BY <1>1, ReceiveFacts DEF CallOK
<1>3. \/ c.answer = "ok" /\ sel' = k /\ def' = k /\ editor' = Showing(k)
      \/ UNCHANGED <<sel, def, editor>>
  BY <1>2 DEF Saved
<1>4. /\ sel' \in Doc \cup {None} /\ def' \in Case \cup {None}
      /\ editor' \in EditorType
  BY <1>3, ViewNames DEF ViewInv, ViewTypeOK, EditorType, Showing
<1>5. ViewTypeOK'
  BY <1>1, <1>4, ReceiveFacts DEF ViewInv, ViewTypeOK
<1>6. EditorOfSelection'
  BY <1>3, ViewNames DEF ViewInv, EditorOfSelection
<1>7. CardsMatchResult'
  BY <1>1 DEF ViewInv, CardsMatchResult
<1>8. ~doubtful => Anchored'
  <2>1. CASE c.answer = "ok" /\ sel' = k
    BY <1>1, <1>2, <2>1, ReceiveFacts, ViewNames DEF ViewInv, Anchored, Arrived
  <2>2. CASE UNCHANGED sel
    BY <1>1, <2>2, ReceiveFacts DEF ViewInv, Anchored, Corrects, IsSelected
  <2>. QED
    BY <1>3, <2>1, <2>2
<1>. QED
  BY <1>5, <1>6, <1>7, <1>8, ReceiveFacts DEF ViewInv

\* With nothing selected, nothing has to be where it was.
LEMMA ClearKeepsView ==
  ASSUME ViewInv, NEW c \in calls, Receive(c), ClearSelection, UNCHANGED saveBtn
  PROVE  ViewInv'
<1>1. ViewTypeOK'
  <2>1. editor' \in EditorType /\ cards' \in CardsType
    BY DEF ClearSelection, Closed, Hint, EditorType, CardsType
  <2>. QED
    BY <2>1, ReceiveFacts DEF ViewInv, ViewTypeOK, ClearSelection
<1>2. EditorOfSelection' /\ CardsMatchResult' /\ Anchored'
  BY DEF ClearSelection, EditorOfSelection, CardsMatchResult, Anchored, Closed, Hint
<1>. QED
  BY <1>1, <1>2, ReceiveFacts DEF ViewInv

\* An answer that does not concern the selection had nothing to correct in it.
LEMMA KeepKeepsView ==
  ASSUME ViewInv, NEW c \in calls, Receive(c), sel = None \/ ~Corrects(c),
         UNCHANGED <<page, result, saveBtn>>
  PROVE  ViewInv'
<1>1. ViewTypeOK'
  BY ReceiveFacts DEF ViewInv, ViewTypeOK, page
<1>2. EditorOfSelection' /\ CardsMatchResult'
  BY DEF ViewInv, page, EditorOfSelection, CardsMatchResult
<1>3. Anchored => Anchored'
  BY ReceiveFacts DEF Anchored, Corrects, IsSelected, page
<1>. QED
  BY <1>1, <1>2, <1>3, ReceiveFacts DEF ViewInv

LEMMA DeletedKeepsView ==
  ASSUME ViewInv, NEW c \in calls, Receive(c), Deleted(c) \/ FolderDeleted(c)
  PROVE  ViewInv'
<1>1. CASE ClearSelection
  BY <1>1, ClearKeepsView DEF Deleted, FolderDeleted
<1>2. CASE UNCHANGED <<page, result>> /\ (sel = None \/ ~Corrects(c))
  BY <1>2, KeepKeepsView DEF Deleted, FolderDeleted
<1>. QED
  BY <1>1, <1>2 DEF Deleted, FolderDeleted, Corrects
\* The selection follows a move.
LEMMA MovedKeepsView ==
  ASSUME ViewInv, NEW c \in calls, Receive(c), Moved(c)
  PROVE  ViewInv'
<1>1. /\ UNCHANGED <<def, editor, saveBtn, result, cards, runBtn>>
      /\ c.kind \in {"move", "bulk"} /\ c.target \in Cat \cup {None} /\ c.items \subseteq Case
  BY ReceiveFacts DEF Moved, CallOK, CallType
<1>2. CASE UNCHANGED sel /\ (sel = None \/ ~Corrects(c))
  BY <1>1, <1>2, KeepKeepsView DEF page
<1>3. CASE c.answer = "ok" /\ (\E k \in c.items : IsSelected(k))
                           /\ sel' = [sel EXCEPT !.cat = c.target]
  <2>1. PICK k \in c.items : IsSelected(k)
    BY <1>3
  <2>2. sel \in Doc /\ sel' \in Doc /\ sel'.id = sel.id /\ sel'.cat = c.target
    BY <1>1, <1>3, <2>1 DEF ViewInv, ViewTypeOK, IsSelected, Doc
  <2>3. ViewTypeOK'
    BY <1>1, <2>2, ReceiveFacts DEF ViewInv, ViewTypeOK
  <2>4. EditorOfSelection' /\ CardsMatchResult'
    BY <1>1, <2>2, ViewNames DEF ViewInv, EditorOfSelection, CardsMatchResult
  <2>5. Arrived => Anchored'
    <3> SUFFICES ASSUME Arrived, c.target # None PROVE sel' \in files
      BY <2>2, ReceiveFacts DEF Anchored
    <3>1. [id |-> k.id, cat |-> c.target] \in files
      BY <1>1, <1>3, <2>1 DEF Arrived
    <3>2. sel' = [id |-> k.id, cat |-> c.target]
      BY <2>1, <2>2 DEF IsSelected, Doc
    <3>. QED
      BY <3>1, <3>2
  <2>. QED
    BY <2>3, <2>4, <2>5, ReceiveFacts DEF ViewInv
<1>. QED
  BY <1>1, <1>2, <1>3 DEF Moved, Corrects

-----------------------------------------------------------------------------
\* What neither the selection, the files nor the calls are changed by.
LEMMA AsideKeepsView ==
  ASSUME ViewInv, UNCHANGED <<files, known, sel, def, calls, doubtful>>,
         editor' \in EditorType, editor'.mode = editor.mode,
         saveBtn' \in {"idle", "saving", "told"},
         waiters' \subseteq [case : Case, then : {"run", "edit"}],
         opened' \in Case \cup {None}, run' \in [Run -> RunType],
         result' \in Run \cup {None}, cards' \in CardsType, runBtn' \in {"on", "off"},
         clicks' \in 0..MaxClicks, CardsMatchResult'
  PROVE  ViewInv'
<1>1. ViewTypeOK'
  BY DEF ViewInv, ViewTypeOK
<1>2. EditorOfSelection'
  BY DEF ViewInv, EditorOfSelection
<1>3. OneChange => OneChange'
  BY DEF OneChange
<1>4. Arrived => Arrived'
  BY DEF Arrived
<1>5. Anchored => Anchored'
  BY DEF Anchored, Corrects, IsSelected
<1>. QED
  BY <1>1, <1>2, <1>3, <1>4, <1>5 DEF ViewInv

LEMMA ClickCounts ==
  ASSUME ViewInv, Click
  PROVE  clicks' \in 0..MaxClicks
BY ViewAssumption DEF ViewInv, ViewTypeOK, Click

LEMMA TypeKeepsView ==
  ASSUME ViewInv, NEW doc \in Typed, Type(doc)
  PROVE  ViewInv'
<1>1. editor' \in EditorType /\ editor'.mode = editor.mode
  BY ViewAssumption DEF ViewInv, ViewTypeOK, EditorType, Type
<1>2. CardsMatchResult' /\ clicks' \in 0..MaxClicks
  BY ClickCounts DEF ViewInv, CardsMatchResult, Type
<1>. QED
  BY <1>1, <1>2, AsideKeepsView DEF ViewInv, ViewTypeOK, Type

LEMMA DialogClosedKeepsView ==
  ASSUME ViewInv, DialogClosed
  PROVE  ViewInv'
<1>1. CardsMatchResult' /\ editor' \in EditorType /\ editor'.mode = editor.mode
  BY DEF ViewInv, ViewTypeOK, CardsMatchResult, DialogClosed, page
<1>. QED
  BY <1>1, AsideKeepsView DEF ViewInv, ViewTypeOK, DialogClosed, page

\* What is sent beside the page.
LEMMA SendKeepsView ==
  ASSUME ViewInv, NEW call, CallOK(call), call.answer = "pending", Send(call),
         UNCHANGED <<files, known, page, waiters, opened, run, result>>,
         saveBtn' \in {"idle", "saving", "told"}, clicks' \in 0..MaxClicks
  PROVE  ViewInv'
<1>1. /\ ViewTypeOK
      /\ UNCHANGED <<sel, def, editor, cards, runBtn>>
  BY DEF ViewInv, page
<1>2. ViewTypeOK'
  BY <1>1, SendFacts DEF ViewTypeOK
<1>3. EditorOfSelection' /\ CardsMatchResult'
  BY <1>1 DEF ViewInv, EditorOfSelection, CardsMatchResult
<1>4. Arrived => Arrived'
  BY <1>1, SendFacts DEF Arrived
<1>5. Anchored => Anchored'
  BY <1>1, SendFacts DEF Anchored, Corrects, IsSelected
<1>. QED
  BY <1>1, <1>2, <1>3, <1>4, <1>5, SendFacts DEF ViewInv

LEMMA SaveKeepsView ==
  ASSUME ViewInv, Save
  PROVE  ViewInv'
<1>1. clicks' \in 0..MaxClicks
  BY ClickCounts DEF Save
<1>2. CASE editor.text = None
  <2>1. CardsMatchResult' /\ editor' \in EditorType /\ editor'.mode = editor.mode
    BY DEF ViewInv, ViewTypeOK, CardsMatchResult, Save, page
  <2>. QED
    BY <1>1, <1>2, <2>1, AsideKeepsView DEF ViewInv, ViewTypeOK, Save, page
<1>3. CASE editor.text # None
  <2>1. editor.text \in Doc /\ sel \in Doc
    BY <1>3 DEF ViewInv, ViewTypeOK, EditorType, Save
  <2>2. PICK cat \in Cat :
          Send(Call("save", {[id |-> editor.text.id, cat |-> cat]}, None))
    BY <1>3, <2>1, ViewNames DEF Save
  <2> DEFINE k == [id |-> editor.text.id, cat |-> cat]
  <2>3. k \in Case
    BY <2>1, ViewNames
  <2>. HIDE DEF k
  <2>4. /\ CallOK(Call("save", {k}, None))
        /\ Call("save", {k}, None).answer = "pending"
    BY <2>3, CallFields DEF CallOK, Changing
  <2>. QED
    BY <1>1, <1>3, <2>2, <2>4, SendKeepsView DEF Save, k
<1>. QED
  BY <1>2, <1>3

LEMMA AskKeepsView ==
  ASSUME ViewInv,
         NEW kind \in {"delete", "move", "bulk", "folder"}, NEW items \in SUBSET Case,
         NEW target \in Cat \cup {None},
         kind = "folder" \/ items # {}, kind = "folder" => target \in Cat \ {Unc},
         Ask(kind, items, target)
  PROVE  ViewInv'
<1>1. /\ CallOK(Call(kind, items, target))
      /\ Call(kind, items, target).answer = "pending"
  BY CallFields DEF CallOK, Changing
<1>2. saveBtn' \in {"idle", "saving", "told"} /\ clicks' \in 0..MaxClicks
  BY ClickCounts DEF ViewInv, ViewTypeOK, Ask
<1>. QED
  BY <1>1, <1>2, SendKeepsView DEF Ask
-----------------------------------------------------------------------------
Answered(c, ok) == [c EXCEPT !.answer = IF ok THEN "ok" ELSE "failed"]

\* An answered call is the call it was, with its answer.
LEMMA AnsweredFacts ==
  ASSUME ViewTypeOK, NEW c \in calls, NEW ok \in BOOLEAN
  PROVE  /\ CallOK(Answered(c, ok))
         /\ Answered(c, ok).kind = c.kind
         /\ Answered(c, ok).items = c.items
         /\ Answered(c, ok).target = c.target
         /\ Answered(c, ok).answer = IF ok THEN "ok" ELSE "failed"
<1>1. CallOK(c) /\ c \in CallType
  BY DEF ViewTypeOK, CallOK
<1>2. /\ Answered(c, ok) \in CallType
      /\ Answered(c, ok).kind = c.kind
      /\ Answered(c, ok).items = c.items
      /\ Answered(c, ok).target = c.target
      /\ Answered(c, ok).answer = IF ok THEN "ok" ELSE "failed"
  BY <1>1 DEF CallType, Answers, Answered
<1>. QED
  BY <1>1, <1>2 DEF CallOK

\* Answering a call touches neither the page nor the other calls.
LEMMA AnswerFacts ==
  ASSUME ViewInv, NEW c \in calls,
         NEW ok \in BOOLEAN, NEW catalog \in SUBSET Case, Answer(c, ok, catalog),
         doubtful' \in BOOLEAN, ~doubtful' => ~doubtful,
         UNCHANGED <<page, saveBtn, waiters, opened, run, result, clicks>>
  PROVE  /\ ViewTypeOK' /\ EditorOfSelection' /\ CardsMatchResult'
         /\ calls' = (calls \ {c}) \cup {Answered(c, ok)}
         /\ files' = catalog /\ UNCHANGED sel
         /\ OneChange => OneChange'
<1>1. /\ calls' = (calls \ {c}) \cup {Answered(c, ok)}
      /\ files' = catalog /\ known' = known \cup catalog
      /\ UNCHANGED <<sel, def, editor, cards, runBtn>>
      /\ ViewTypeOK
  BY DEF Answer, Answered, page, ViewInv
<1>2. ViewTypeOK'
  BY <1>1, AnsweredFacts DEF ViewTypeOK
<1>3. EditorOfSelection' /\ CardsMatchResult'
  BY <1>1 DEF ViewInv, EditorOfSelection, CardsMatchResult
<1>4. OneChange => OneChange'
  BY <1>1, AnsweredFacts DEF OneChange
<1>. QED
  BY <1>1, <1>2, <1>3, <1>4

\* A request that fails leaves the catalog and what is true of it.
LEMMA FailedKeepsView ==
  ASSUME ViewInv, NEW c \in calls, c.answer = "pending", Answer(c, FALSE, files),
         doubtful' \in BOOLEAN, ~doubtful' => ~doubtful,
         UNCHANGED <<page, saveBtn, waiters, opened, run, result, clicks>>
  PROVE  ViewInv'
<1>1. /\ ViewTypeOK /\ files \in SUBSET Case
  BY DEF ViewInv, ViewTypeOK
<1> DEFINE a == Answered(c, FALSE)
<1>2. a.answer = "failed"
  BY <1>1, AnsweredFacts
<1>3. /\ ViewTypeOK' /\ EditorOfSelection' /\ CardsMatchResult'
      /\ calls' = (calls \ {c}) \cup {a} /\ files' = files /\ sel' = sel
      /\ OneChange => OneChange'
  BY <1>1, AnswerFacts
<1>. HIDE DEF a
<1>4. Arrived => Arrived'
  BY <1>2, <1>3 DEF Arrived
<1>5. Anchored => Anchored'
  BY <1>2, <1>3 DEF Anchored, Corrects, IsSelected
<1>. QED
  BY <1>3, <1>4, <1>5 DEF ViewInv

LEMMA FailKeepsView ==
  ASSUME ViewInv, NEW c \in calls, Fail(c)
  PROVE  ViewInv'
BY FailedKeepsView DEF Fail, ViewInv, ViewTypeOK

\* The answer to a change that is lost leaves doubt; that of a get had nothing to
\* correct.
LEMMA AnswerLostKeepsView ==
  ASSUME ViewInv, NEW c \in calls, AnswerLost(c)
  PROVE  ViewInv'
<1>1. /\ ViewTypeOK /\ CallOK(c) /\ files \in SUBSET Case /\ Answer(c, FALSE, files)
      /\ doubtful' = (doubtful \/ c.kind \in Changing)
      /\ c.kind \in {"get"} \cup Changing
  BY DEF ViewInv, ViewTypeOK, AnswerLost, CallOK, CallType
<1> DEFINE a == Answered(c, FALSE)
<1>2. a.answer = "failed"
  BY <1>1, AnsweredFacts
<1>3. /\ ViewTypeOK' /\ EditorOfSelection' /\ CardsMatchResult'
      /\ calls' = (calls \ {c}) \cup {a} /\ files' = files /\ sel' = sel
      /\ OneChange => OneChange'
  BY <1>1, AnswerFacts DEF AnswerLost, ViewTypeOK
<1>. HIDE DEF a
<1>4. Arrived => Arrived'
  BY <1>2, <1>3 DEF Arrived
<1>5. ~doubtful' => ~Corrects(c)
  BY <1>1 DEF Corrects, Changing
<1>6. ~doubtful' /\ Anchored => Anchored'
  BY <1>2, <1>3, <1>5 DEF Anchored, Corrects, IsSelected
<1>. QED
  BY <1>1, <1>3, <1>4, <1>6 DEF ViewInv

\* The server takes a file away only with an answer that corrects the selection,
\* or leaves doubt.
LEMMA HandleKeepsView ==
  ASSUME ViewInv, NEW c \in calls, Handle(c)
  PROVE  ViewInv'
<1> DEFINE there == c.items \cap files
           whole == there = c.items
           moved == AfterMove(c)
<1>1. /\ c.answer = "pending"
      /\ doubtful' = (doubtful \/ (c.kind \in {"move", "bulk", "delete"} /\ ~whole))
      /\ UNCHANGED <<page, saveBtn, waiters, opened, run, result, clicks>>
      /\ doubtful' \in BOOLEAN /\ ~doubtful' => ~doubtful
      /\ ViewTypeOK /\ CallOK(c) /\ c.items \subseteq Case /\ files \subseteq Case
      /\ c.target \in Cat \cup {None} /\ c.kind \in {"get"} \cup Changing
  BY DEF Handle, ViewInv, ViewTypeOK, CallOK, CallType
<1>2. \A ok \in BOOLEAN, catalog \in SUBSET Case :
        Answer(c, ok, catalog) =>
            /\ ViewTypeOK' /\ EditorOfSelection' /\ CardsMatchResult'
            /\ calls' = (calls \ {c}) \cup {Answered(c, ok)}
            /\ files' = catalog /\ sel' = sel
            /\ OneChange => OneChange'
  BY <1>1, AnswerFacts
<1>3. ~doubtful' /\ c.kind \in Changing => \A d \in calls \ {c} : d.kind \notin Changing
  BY <1>1 DEF ViewInv, OneChange
<1>4. sel # None /\ sel.cat # None => sel \in Case
  BY <1>1, ViewNames DEF ViewTypeOK
<1>5. CASE c.kind = "get"
  <2>1. whole \in BOOLEAN /\ files \in SUBSET Case /\ Answer(c, whole, files)
    BY <1>1, <1>5 DEF Handle
  <2>. HIDE DEF whole
  <2> DEFINE a == Answered(c, whole)
  <2>2. a.kind = "get"
    BY <1>1, <1>5, <2>1, AnsweredFacts
  <2>3. /\ ViewTypeOK' /\ EditorOfSelection' /\ CardsMatchResult'
        /\ calls' = (calls \ {c}) \cup {a} /\ files' = files /\ sel' = sel
        /\ OneChange => OneChange'
    BY <1>2, <2>1
  <2>. HIDE DEF a
  <2>4. Arrived => Arrived'
    BY <2>2, <2>3 DEF Arrived
  <2>5. Anchored => Anchored'
    BY <1>1, <2>2, <2>3 DEF Anchored, Corrects, IsSelected
  <2>. QED
    BY <1>1, <2>3, <2>4, <2>5 DEF ViewInv
<1>6. CASE c.kind = "save"
  <2> DEFINE a == Answered(c, TRUE)
  <2>1. files \cup c.items \in SUBSET Case /\ Answer(c, TRUE, files \cup c.items)
    BY <1>1, <1>6 DEF Handle, Changing
  <2>2. a.kind = "save" /\ a.items = c.items
    BY <1>1, <1>6, AnsweredFacts
  <2>3. /\ ViewTypeOK' /\ EditorOfSelection' /\ CardsMatchResult'
        /\ calls' = (calls \ {c}) \cup {a} /\ files' = files \cup c.items /\ sel' = sel
        /\ OneChange => OneChange'
    BY <1>2, <2>1
  <2>. HIDE DEF a
  <2>4. Arrived => Arrived'
    BY <2>2, <2>3 DEF Arrived
  <2>5. Anchored => Anchored'
    BY <1>1, <2>2, <2>3 DEF Anchored, Corrects, IsSelected
  <2>. QED
    BY <1>1, <2>3, <2>4, <2>5 DEF ViewInv
<1>7. CASE c.kind = "folder"
  <2> DEFINE kept == {f \in files : f.cat # c.target}
             a == Answered(c, TRUE)
  <2>1. Answer(c, TRUE, kept) /\ kept \in SUBSET Case
    BY <1>1, <1>7 DEF Handle
  <2>2. /\ a \in calls' /\ calls' = (calls \ {c}) \cup {a} /\ files' = kept /\ sel' = sel
        /\ a.kind = "folder" /\ a.target = c.target /\ a.answer = "ok"
        /\ c.target # Unc
    BY <1>1, <1>2, <1>7, <2>1, AnsweredFacts DEF CallOK
  <2>. HIDE DEF a, kept
  <2>3. ~doubtful' => Arrived'
    BY <1>3, <1>7, <2>2, AnsweredFacts DEF Arrived, Changing
  <2>4. ~doubtful' => Anchored'
    <3> SUFFICES ASSUME ~doubtful', sel # None, sel.cat # None, sel \notin kept
                 PROVE  \E d \in calls' : Corrects(d)'
      BY <2>2 DEF Anchored
    <3>1. sel \in files
      BY <1>1, <1>3, <1>7 DEF ViewInv, Anchored, Corrects, OneChange, Changing
    <3>2. sel.cat = c.target
      BY <3>1 DEF kept
    <3>. QED
      BY <2>2, <3>2 DEF Corrects
  <2>. QED
    BY <1>1, <1>2, <2>1, <2>3, <2>4 DEF ViewInv
<1>8. CASE c.kind \in {"move", "bulk"}
  <2>1. PICK ok \in BOOLEAN :
          Answer(c, ok, moved) /\ (whole /\ c.target # None => ok)
    BY <1>1, <1>8 DEF Handle
  <2>2. moved \in SUBSET Case
    BY <1>1, ViewNames DEF AfterMove
  <2>. HIDE DEF moved
  <2> DEFINE a == Answered(c, ok)
  <2>3. /\ ViewTypeOK' /\ EditorOfSelection' /\ CardsMatchResult'
        /\ calls' = (calls \ {c}) \cup {a} /\ files' = moved /\ sel' = sel
        /\ OneChange => OneChange'
        /\ a.kind = c.kind /\ a.target = c.target /\ a.items = c.items
        /\ ok => a.answer = "ok"
    BY <1>1, <1>2, <1>8, <2>1, <2>2, AnsweredFacts
  <2>. HIDE DEF a
  <2>4. ~doubtful' => there = c.items /\ (c.target # None => ok)
    BY <1>1, <1>8, <2>1
  <2>5. ~doubtful' => Arrived'
    BY <1>1, <1>3, <1>8, <2>3, <2>4 DEF Arrived, Changing, AfterMove, moved
  <2>6. ~doubtful' => Anchored'
    <3> SUFFICES ASSUME ~doubtful', sel # None, sel.cat # None, sel \notin moved
                 PROVE  \E d \in calls' : Corrects(d)'
      BY <2>3 DEF Anchored
    <3>1. sel \in files
      BY <1>1, <1>3, <1>8 DEF ViewInv, Anchored, Corrects, OneChange, Changing
    <3>2. sel \in c.items /\ c.target # None
      BY <3>1 DEF AfterMove, moved
    <3>3. IsSelected(sel)'
      BY <2>3 DEF IsSelected
    <3>. QED
      BY <1>8, <2>3, <2>4, <3>2, <3>3 DEF Corrects
  <2>. QED
    BY <1>1, <2>3, <2>5, <2>6 DEF ViewInv
<1>9. CASE c.kind = "delete"
  <2>1. PICK gone \in SUBSET there : Answer(c, whole, files \ gone) /\ (whole => gone = there)
    BY <1>1, <1>9 DEF Handle, Changing
  <2> DEFINE a == Answered(c, whole)
             left == files \ gone
  <2>2. left \in SUBSET Case
    BY <1>1
  <2>3. /\ ViewTypeOK' /\ EditorOfSelection' /\ CardsMatchResult'
        /\ calls' = (calls \ {c}) \cup {a} /\ files' = left /\ sel' = sel
        /\ OneChange => OneChange'
        /\ a.kind = "delete" /\ a.target = c.target /\ a.items = c.items
        /\ whole => a.answer = "ok"
    <3>. HIDE DEF left, whole
    <3>. QED
      BY <1>1, <1>2, <1>9, <2>1, <2>2, AnsweredFacts DEF left, whole
  <2>. HIDE DEF a
  <2>4. ~doubtful' => there = c.items /\ gone = there
    BY <1>1, <1>9, <2>1
  <2>5. ~doubtful' => Arrived'
    BY <1>1, <1>3, <1>9, <2>3, <2>4 DEF Arrived, Changing
  <2>6. ~doubtful' => Anchored'
    <3> SUFFICES ASSUME ~doubtful', sel # None, sel.cat # None, sel \notin left
                 PROVE  \E d \in calls' : Corrects(d)'
      BY <2>3 DEF Anchored
    <3>1. sel \in files
      BY <1>1, <1>3, <1>9 DEF ViewInv, Anchored, Corrects, OneChange, Changing
    <3>2. sel \in c.items
      BY <3>1, <2>4
    <3>3. IsSelected(sel)'
      BY <2>3 DEF IsSelected
    <3>. QED
      BY <2>3, <2>4, <3>2, <3>3 DEF Corrects
  <2>. QED
    BY <1>1, <2>3, <2>5, <2>6 DEF ViewInv
<1>. QED
  BY <1>1, <1>5, <1>6, <1>7, <1>8, <1>9 DEF Changing

-----------------------------------------------------------------------------
\* Starting a run shows cards that no result is clicked through.
LEMMA ExecuteKeepsView ==
  ASSUME ViewInv, NEW r \in Run, Execute(r), clicks' \in 0..MaxClicks,
         waiters' \subseteq waiters, UNCHANGED opened
  PROVE  ViewInv'
<1>1. /\ CardsMatchResult' /\ cards' \in CardsType /\ runBtn' \in {"on", "off"}
      /\ run' \in [Run -> RunType]
  BY DEF Execute, ViewInv, ViewTypeOK, CardsMatchResult, CardsType, RunType
<1>. QED
  BY <1>1, AsideKeepsView DEF Execute, ViewInv, ViewTypeOK

LEMMA ClickRunKeepsView ==
  ASSUME ViewInv, NEW r \in Run, ClickRun(r)
  PROVE  ViewInv'
BY ClickCounts, ExecuteKeepsView DEF ClickRun

LEMMA ClickEditKeepsView ==
  ASSUME ViewInv, ClickEdit
  PROVE  ViewInv'
<1>1. CardsMatchResult' /\ clicks' \in 0..MaxClicks
  BY ClickCounts DEF ClickEdit, ViewInv, CardsMatchResult, page
<1>. QED
  BY <1>1, AsideKeepsView DEF ClickEdit, ViewInv, ViewTypeOK, page

LEMMA WaiterKeepsView ==
  ASSUME ViewInv, NEW w \in waiters, WaiterFires(w) \/ WaiterStops(w)
  PROVE  ViewInv'
<1>1. clicks' \in 0..MaxClicks /\ waiters' \subseteq waiters
  BY DEF WaiterFires, WaiterStops, ViewInv, ViewTypeOK
<1>2. CASE \E r \in Run : Execute(r) /\ UNCHANGED opened
  BY <1>1, <1>2, ExecuteKeepsView
<1>3. CASE /\ opened' \in {opened, def}
           /\ UNCHANGED <<files, known, page, saveBtn, calls, run, result, doubtful>>
  <2>1. CardsMatchResult'
    BY <1>3 DEF ViewInv, CardsMatchResult, page
  <2>. QED
    BY <1>1, <1>3, <2>1, AsideKeepsView DEF ViewInv, ViewTypeOK, page
<1>. QED
  BY <1>2, <1>3 DEF WaiterFires, WaiterStops

LEMMA StreamKeepsView ==
  ASSUME ViewInv, NEW r \in Run, Stream(r)
  PROVE  ViewInv'
<1>1. /\ result' \in Run \cup {None} /\ runBtn' \in {"on", "off"}
      /\ run' \in [Run -> RunType]
  BY DEF Stream, Progress, Complete, Refused, Done, Broken, Phase, ViewInv, ViewTypeOK,
         RunType
<1>2. cards' \in CardsType
  BY DEF Stream, Progress, Complete, Refused, Done, Broken, ViewInv, ViewTypeOK,
         CardsType, Hint
<1>3. CardsMatchResult'
  BY DEF Stream, Progress, Complete, Refused, Done, Broken, ViewInv, ViewTypeOK,
         CardsType, Hint, CardsMatchResult
<1>. QED
  BY <1>1, <1>2, <1>3, AsideKeepsView DEF Stream, ViewInv, ViewTypeOK

LEMMA NextKeepsView == ViewInv /\ [Next]_vars => ViewInv'
<1> SUFFICES ASSUME ViewInv, [Next]_vars PROVE ViewInv'
  OBVIOUS
<1>1. ASSUME NEW c \in Case, NEW then \in {"look", "run", "edit"}, Select(c, then)
      PROVE  ViewInv'
  BY <1>1, SelectKeepsView
<1>2. ASSUME NEW c \in Case, BuilderSaved(c) PROVE ViewInv'
  BY <1>2, BuilderSavedKeepsView
<1>3. ASSUME NEW doc \in Typed, Type(doc) PROVE ViewInv'
  BY <1>3, TypeKeepsView
<1>4. CASE Save \/ DialogClosed \/ ClickEdit
  BY <1>4, SaveKeepsView, DialogClosedKeepsView, ClickEditKeepsView
<1>5. ASSUME NEW items \in Batches, NEW target \in Cat \cup {None},
             \/ Ask("delete", items, None) \/ Ask("bulk", items, target)
             \/ Ask("move", items, target)
      PROVE  ViewInv'
  <2>1. items \in SUBSET Case /\ items # {}
    BY ViewAssumption
  <2>. QED
    BY <1>5, <2>1, AskKeepsView
<1>6. ASSUME NEW cat \in Cat \ {Unc}, Ask("folder", {}, cat) PROVE ViewInv'
  BY <1>6, AskKeepsView
<1>7. ASSUME NEW c \in calls, Receive(c) PROVE ViewInv'
  BY <1>7, LoadedKeepsView, SavedKeepsView, DeletedKeepsView, MovedKeepsView DEF Receive
<1>8. ASSUME NEW c \in calls, Handle(c) \/ Fail(c) \/ AnswerLost(c) PROVE ViewInv'
  BY <1>8, HandleKeepsView, FailKeepsView, AnswerLostKeepsView
<1>9. ASSUME NEW r \in Run, ClickRun(r) \/ Stream(r) PROVE ViewInv'
  BY <1>9, ClickRunKeepsView, StreamKeepsView
<1>10. ASSUME NEW w \in waiters, WaiterFires(w) \/ WaiterStops(w) PROVE ViewInv'
  BY <1>10, WaiterKeepsView
<1>11. CASE UNCHANGED vars
  BY <1>11, AsideKeepsView DEF vars, page, ViewInv, ViewTypeOK, CardsMatchResult
<1>12. Next \/ UNCHANGED vars
  OBVIOUS
<1>. QED
  BY <1>1, <1>2, <1>3, <1>4, <1>5, <1>6, <1>7, <1>8, <1>9, <1>10, <1>11, <1>12 DEF Next

-----------------------------------------------------------------------------
\* Every variable of the tab keeps its type; a get, save, delete or move in flight
\* names test cases, and the folder that is deleted is not the root.
THEOREM ViewTypeSafe == Spec => []ViewTypeOK
<1>1. ViewInv => ViewTypeOK
  BY DEF ViewInv
<1>. QED
  BY <1>1, ViewInit, NextKeepsView, PTL DEF Spec

\* What can be typed into the editor is the test case that is selected, whatever
\* was selected, saved or moved while it was fetched (app.js:1078, 1146, 1037).
THEOREM EditorHoldsSelection == Spec => []EditorOfSelection
<1>1. ViewInv => EditorOfSelection
  BY DEF ViewInv
<1>. QED
  BY <1>1, ViewInit, NextKeepsView, PTL DEF Spec

\* A card that can be clicked belongs to the result the click reads, however runs,
\* selections and deletes overlap (app.js:1238, 1292, 1305).
THEOREM CardsShowResult == Spec => []CardsMatchResult
<1>1. ViewInv => CardsMatchResult
  BY DEF ViewInv
<1>. QED
  BY <1>1, ViewInit, NextKeepsView, PTL DEF Spec

\* As long as changes come one after another, whole and answered, the page is never
\* left on a test case that is gone, except on one it takes to be in the root
\* (app.js:765, 784, 982, 1028).
THEOREM SelectionStaysOnDisk == Spec => []SelectionExists
<1>1. ViewInv => SelectionExists
  <2> SUFFICES ASSUME ViewInv, Settled, sel.cat # None PROVE sel \in files
    BY DEF SelectionExists
  <2>1. sel # None
    BY DEF ViewInv, Settled, EditorOfSelection
  <2>. QED
    BY <2>1 DEF ViewInv, Settled, Anchored, Corrects, Changing
<1>. QED
  BY <1>1, ViewInit, NextKeepsView, PTL DEF Spec
=============================================================================
