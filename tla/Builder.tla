------------------------------ MODULE Builder -------------------------------
(***************************************************************************)
(* The list of steps of the test case builder (internal/api/web/app.js:    *)
(* 1746-1767, 2080-2291, 2585-2604, 3119-3192, 3587-3859): steps, their    *)
(* cards and tabs, runs of one step or of all, saves, and test cases that  *)
(* are opened while something else goes on: the answer of a duplicate, the *)
(* context menu's poll and the batch page's "edit" open one at any moment. *)
(*                                                                         *)
(* _id is the number the code knows a step by; it starts again at 1 with   *)
(* every test case that is opened.  `uid` tells steps apart for good.      *)
(***************************************************************************)
EXTENDS FiniteSets, Integers, SequencesExt

CONSTANTS
    Opened,             \* the numbers of steps of the test cases to open
    MaxSteps,           \* bound: steps in the builder
    MaxUid,             \* bound: steps ever made
    MaxClicks, MaxCalls,
    None

ASSUME BuilderAssumption ==
    /\ {MaxSteps, MaxUid, MaxClicks, MaxCalls} \subseteq Nat
    /\ Opened \subseteq Nat \ {0}

VARIABLES
    steps,              \* tcSteps: [id, uid, result]
    stepSeq,
    activeStepId,
    cards,              \* the cards in document order: [id, busy]
    shown,              \* the card marked active
    tabs,               \* the tabs: [ids, active]
    runAllBtn, saveBtn, \* enabled or not
    calls,              \* requests in flight
    dialog,             \* "Delete Step": the step it names, or None
    drag,               \* draggedStepId and the mark on the tab under it
    made, clicks

form == <<steps, stepSeq, activeStepId, cards, shown, tabs>>
vars == <<form, runAllBtn, saveBtn, calls, dialog, drag, made, clicks>>

NotDragging == [id |-> None, over |-> None]

NoResult == [of |-> None, sure |-> TRUE]

IdsOf(list) == [i \in DOMAIN list |-> list[i].id]

UidsOf(list) == {list[i].uid : i \in DOMAIN list}

\* findIndex and querySelector: the first with this _id, 0 when there is none.
IndexIn(list, id) ==
    LET at == {i \in DOMAIN list : list[i].id = id}
    IN  IF at = {} THEN 0 ELSE Min(at)

IndexOf(id) == IndexIn(steps, id)

Init ==
    /\ steps = <<>> /\ stepSeq = 0 /\ activeStepId = None
    /\ cards = <<>> /\ shown = None /\ tabs = [ids |-> <<>>, active |-> None]
    /\ runAllBtn = FALSE /\ saveBtn = FALSE
    /\ calls = {} /\ dialog = None /\ drag = NotDragging
    /\ made = 0 /\ clicks = 0

Click ==
    /\ dialog = None /\ drag = NotDragging
    /\ clicks < MaxClicks
    /\ clicks' = clicks + 1

setActiveStep(id) == activeStepId' = id /\ shown' = id

renderStepTabs == tabs' = [ids |-> IdsOf(steps'), active |-> activeStepId']

updateBtns == runAllBtn' = (steps' # <<>>) /\ saveBtn' = (steps' # <<>>)

\* The steps that a run of all steps was for are no longer at their places.
Unsure(c) ==
    [c EXCEPT !.sure = @ /\ \A i \in DOMAIN c.uids :
                                 i \in DOMAIN steps' => steps'[i].uid = c.uids[i]]

Disturb == calls' = {Unsure(c) : c \in calls}

-----------------------------------------------------------------------------
NewStep(id, uid) == [id |-> id, uid |-> uid, result |-> NoResult]

AddStep ==
    /\ Click
    /\ Len(steps) < MaxSteps /\ made < MaxUid
    /\ made' = made + 1 /\ stepSeq' = stepSeq + 1
    /\ steps' = Append(steps, NewStep(stepSeq', made'))
    /\ cards' = Append(cards, [id |-> stepSeq', busy |-> FALSE])
    /\ setActiveStep(stepSeq')
    /\ renderStepTabs /\ updateBtns
    /\ Disturb
    /\ UNCHANGED <<dialog, drag>>

\* By a tab's or a card's button, after a confirmation.
AskRemove(s) ==
    /\ Click
    /\ dialog' = [id |-> s.id, uid |-> s.uid]
    /\ UNCHANGED <<form, runAllBtn, saveBtn, calls, drag, made>>

\* removeStep.
RemoveStep(id) ==
    LET idx == IndexOf(id)
    IN  IF idx = 0 THEN UNCHANGED <<form, runAllBtn, saveBtn, calls>>
        ELSE /\ steps' = RemoveAt(steps, idx)
             /\ cards' = RemoveAt(cards, IndexIn(cards, id))
             /\ IF steps' = <<>> THEN activeStepId' = None /\ shown' = None
                ELSE setActiveStep(steps'[Min({idx, Len(steps')})].id)
             /\ renderStepTabs /\ updateBtns
             /\ Disturb
             /\ UNCHANGED stepSeq

CloseDialog ==
    /\ dialog # None
    /\ dialog' = None
    /\ RemoveStep(dialog.id) \/ UNCHANGED <<form, runAllBtn, saveBtn, calls>>
    /\ UNCHANGED <<drag, made, clicks>>

\* syncStepCardOrder.
InStepOrder(list) ==
    [i \in DOMAIN list |-> list[CHOOSE k \in DOMAIN list : list[k].id = steps'[i].id]]

\* Mutant: the cards stay where they are.
MoveCardsLeft(id, toIndex) ==
    LET from == IndexOf(id)
        to == Max({1, Min({toIndex, Len(steps)})})
    IN  IF from \in {0, to} THEN UNCHANGED <<steps, cards>>
        ELSE steps' = InsertAt(RemoveAt(steps, from), to, steps[from]) /\ UNCHANGED cards

\* moveStepTo, indices from 1; the callers draw the tabs.
MoveStepTo(id, toIndex) ==
    LET from == IndexOf(id)
        to == Max({1, Min({toIndex, Len(steps)})})
    IN  IF from \in {0, to} THEN UNCHANGED <<steps, cards>>
        ELSE /\ steps' = InsertAt(RemoveAt(steps, from), to, steps[from])
             /\ cards' = InStepOrder(cards)

\* The arrows of the card that is shown.
MoveStep(dir) ==
    /\ Click
    /\ shown # None
    /\ IndexOf(shown) + dir \in DOMAIN steps
    /\ MoveStepTo(shown, IndexOf(shown) + dir)
    /\ Disturb
    /\ UNCHANGED <<stepSeq, activeStepId, shown>> /\ renderStepTabs
    /\ UNCHANGED <<runAllBtn, saveBtn, dialog, drag, made>>

ClickTab(id) ==
    /\ Click
    /\ id \in ToSet(tabs.ids) /\ id # activeStepId
    /\ setActiveStep(id)
    /\ UNCHANGED <<steps, cards>> /\ renderStepTabs
    /\ UNCHANGED <<stepSeq, runAllBtn, saveBtn, calls, dialog, drag, made>>

DragStart(id) ==
    /\ Click
    /\ id \in ToSet(tabs.ids)
    /\ drag' = [NotDragging EXCEPT !.id = id]
    /\ UNCHANGED <<form, runAllBtn, saveBtn, calls, dialog, made>>

\* The left half of a tab marks "before", the right half "after".
DragOver(id, before) ==
    /\ drag.id # None /\ drag.over = None
    /\ id \in ToSet(tabs.ids)
    /\ drag' = [drag EXCEPT !.over = [id |-> id, before |-> before]]
    /\ UNCHANGED <<form, runAllBtn, saveBtn, calls, dialog, made, clicks>>

DragLeave ==
    /\ drag.over # None
    /\ drag' = [drag EXCEPT !.over = None]
    /\ UNCHANGED <<form, runAllBtn, saveBtn, calls, dialog, made, clicks>>

DragEnd ==
    /\ drag.id # None
    /\ drag' = NotDragging
    /\ UNCHANGED <<form, runAllBtn, saveBtn, calls, dialog, made, clicks>>

\* Mutant: the place the step leaves is not accounted for.
DropIndexUnshifted(from, target, before) == IF before THEN target ELSE target + 1

\* Where the step goes once it has left its place.
DropIndex(from, target, before) ==
    LET at == IF before THEN target ELSE target + 1
    IN  IF from < at THEN at - 1 ELSE at

Drop ==
    LET from == IndexOf(drag.id)
        target == IndexOf(drag.over.id)
    IN  /\ drag.over # None /\ drag.id # drag.over.id
        /\ from # 0 /\ target # 0
        /\ drag' = NotDragging
        /\ MoveStepTo(drag.id, DropIndex(from, target, drag.over.before))
        /\ setActiveStep(drag.id)
        /\ renderStepTabs
        /\ Disturb
        /\ UNCHANGED <<stepSeq, runAllBtn, saveBtn, dialog, made, clicks>>

-----------------------------------------------------------------------------
\* The builder's tab is clicked: resetBuilder.
ClickBuilder ==
    /\ Click
    /\ steps' = <<>> /\ stepSeq' = 0 /\ cards' = <<>>
    /\ activeStepId' = None /\ shown' = None
    /\ renderStepTabs /\ updateBtns
    /\ Disturb
    /\ UNCHANGED <<dialog, drag, made>>

\* loadInBuilder, which looks at neither the dialog nor a drag.
LoadInBuilder(n) ==
    /\ clicks < MaxClicks /\ clicks' = clicks + 1
    /\ n \in Opened /\ made + n <= MaxUid
    /\ made' = made + n /\ stepSeq' = n
    /\ steps' = [i \in 1..n |-> NewStep(i, made + i)]
    /\ cards' = [i \in 1..n |-> [id |-> i, busy |-> FALSE]]
    /\ setActiveStep(1)
    /\ renderStepTabs /\ updateBtns
    /\ Disturb
    /\ UNCHANGED <<dialog, drag>>

-----------------------------------------------------------------------------
Post(kind, uids) ==
    /\ Cardinality(calls) < MaxCalls
    /\ calls' = calls \cup {[kind |-> kind, uids |-> uids, sure |-> TRUE,
                             phase |-> "posted"]}

Busy(uid, on) ==
    cards' = [i \in DOMAIN cards |->
                 IF steps[i].uid = uid THEN [cards[i] EXCEPT !.busy = on] ELSE cards[i]]

\* runStep: the card's overlay covers its button.
RunStep(s) ==
    /\ Click
    /\ s.id = shown /\ ~cards[IndexOf(s.id)].busy
    /\ Post("step", <<s.uid>>)
    /\ Busy(s.uid, TRUE)
    /\ UNCHANGED <<steps, stepSeq, activeStepId, shown, tabs, runAllBtn, saveBtn, dialog,
                   drag, made>>

Put(i, of, sure) == [steps[i] EXCEPT !.result = [of |-> of, sure |-> sure]]

\* Mutant: the result goes to the step that is shown.
ShowOnActive(c) ==
    steps' = [i \in DOMAIN steps |-> IF steps[i].id = shown THEN Put(i, c.uids[1], TRUE)
                                     ELSE steps[i]]

\* The result goes to the step object the run began with, opened or not.
ShowOnStep(c) ==
    steps' = [i \in DOMAIN steps |-> IF steps[i].uid = c.uids[1] THEN Put(i, c.uids[1], TRUE)
                                     ELSE steps[i]]

StepAnswered(c) ==
    /\ c.kind = "step" /\ c.phase = "posted"
    /\ ShowOnStep(c) \/ UNCHANGED steps
    /\ calls' = (calls \ {c}) \cup {[c EXCEPT !.phase = "waiting"]}
    /\ UNCHANGED <<cards, runAllBtn, saveBtn>>

\* At least 220 ms after the click the button comes back.
StepOver(c) ==
    /\ c.kind = "step" /\ c.phase = "waiting"
    /\ Busy(c.uids[1], FALSE)
    /\ calls' = calls \ {c}
    /\ UNCHANGED <<steps, runAllBtn, saveBtn>>

RunAll ==
    /\ Click
    /\ runAllBtn
    /\ IF steps = <<>> THEN UNCHANGED <<calls, runAllBtn>>
       ELSE Post("all", [i \in DOMAIN steps |-> steps[i].uid]) /\ runAllBtn' = FALSE
    /\ UNCHANGED <<form, saveBtn, dialog, drag, made>>

\* Mutant: the button comes back with the results only.
AllAnsweredQuietly(c) ==
    /\ c.kind = "all"
    /\ calls' = calls \ {c}
    /\ \/ UNCHANGED <<steps, runAllBtn>>
       \/ \E k \in DOMAIN c.uids :
             /\ steps' = [i \in DOMAIN steps |-> IF i <= k THEN Put(i, c.uids[i], c.sure)
                                                 ELSE steps[i]]
             /\ runAllBtn' = TRUE
    /\ UNCHANGED <<cards, saveBtn>>

\* The first k steps ran, or none; the result with index i is shown on the step
\* that has index i by now.
AllAnswered(c) ==
    /\ c.kind = "all"
    /\ calls' = calls \ {c}
    /\ \/ UNCHANGED steps
       \/ \E k \in DOMAIN c.uids :
             steps' = [i \in DOMAIN steps |-> IF i <= k THEN Put(i, c.uids[i], c.sure)
                                              ELSE steps[i]]
    /\ runAllBtn' = TRUE
    /\ UNCHANGED <<cards, saveBtn>>

\* saveTC, unless the name is missing or a JSON editor does not parse.
SaveTC ==
    /\ Click
    /\ saveBtn
    /\ IF steps = <<>> THEN UNCHANGED <<calls, saveBtn>>
       ELSE \/ Post("save", [i \in DOMAIN steps |-> steps[i].uid]) /\ saveBtn' = FALSE
            \/ UNCHANGED <<calls, saveBtn>>
    /\ UNCHANGED <<form, runAllBtn, dialog, drag, made>>

Saved(c) ==
    /\ c.kind = "save"
    /\ calls' = calls \ {c}
    /\ saveBtn' = TRUE
    /\ UNCHANGED <<steps, cards, runAllBtn>>

Receive(c) ==
    /\ StepAnswered(c) \/ StepOver(c) \/ AllAnswered(c) \/ Saved(c)
    /\ UNCHANGED <<stepSeq, activeStepId, shown, tabs, dialog, drag, made, clicks>>

-----------------------------------------------------------------------------
Next ==
    \/ AddStep \/ CloseDialog \/ ClickBuilder \/ RunAll \/ SaveTC
    \/ \E s \in ToSet(steps) : AskRemove(s) \/ RunStep(s)
    \/ \E dir \in {-1, 1} : MoveStep(dir)
    \/ \E id \in ToSet(tabs.ids) :
          \/ ClickTab(id) \/ DragStart(id)
          \/ \E before \in BOOLEAN : DragOver(id, before)
    \/ DragLeave \/ DragEnd \/ Drop
    \/ \E n \in Opened : LoadInBuilder(n)
    \/ \E c \in calls : Receive(c)

Spec == Init /\ [][Next]_vars

\* The server answers, or the connection breaks.
FairSpec == Spec /\ WF_vars(\E c \in calls : Receive(c))

-----------------------------------------------------------------------------
\* Steps, cards and tabs are in one order, no two steps have one _id, and the step
\* that is marked active is there, whatever is added, removed, moved, dropped and
\* opened in between (app.js:2080, 2124, 2146, 2239, 3836).
TabsMatchSteps ==
    /\ IdsOf(cards) = IdsOf(steps) /\ tabs.ids = IdsOf(steps)
    /\ IsInjective(tabs.ids)
    /\ tabs.active = activeStepId /\ shown = activeStepId
    /\ IF steps = <<>> THEN activeStepId = None ELSE activeStepId \in ToSet(tabs.ids)

\* A result is shown on the step that produced it: that of one step always, those of
\* all steps only as long as the steps keep their places while they run
\* (app.js:3157, 3610).
ResultOfItsStep ==
    \A i \in DOMAIN steps : steps[i].result.of # None /\ steps[i].result.sure
                            => steps[i].result.of = steps[i].uid

\* A drop puts the step right before or after the tab that was marked, from
\* whichever side it comes (app.js:2227).
DropNextToTarget ==
    [][drag.over # None /\ drag' = NotDragging /\ steps' # steps =>
         LET at(id) == CHOOSE i \in DOMAIN steps' : steps'[i].id = id
         IN  at(drag.id) = at(drag.over.id) + (IF drag.over.before THEN -1 ELSE 1)]_vars

\* A button that a run or a save disabled comes back (app.js:3635, 3662).
ButtonsReturn ==
    /\ (steps # <<>> /\ ~runAllBtn) ~> (steps = <<>> \/ runAllBtn)
    /\ (steps # <<>> /\ ~saveBtn) ~> (steps = <<>> \/ saveBtn)
=============================================================================
