---------------------------- MODULE BuilderProofs ----------------------------
(***************************************************************************)
(* For every number of steps, and whatever is added, removed, moved,       *)
(* dropped, run and opened in whatever order: steps, cards and tabs stay   *)
(* in one order, a result is shown on the step that produced it, and a     *)
(* drop lands beside its target.                                           *)
(*                                                                         *)
(* A step keeps its number while other steps come and go, and new numbers  *)
(* are larger than all of them; this is why no two steps share one.  What  *)
(* is known of a run of all steps is that its steps are at their places as *)
(* long as nobody touched them.                                            *)
(***************************************************************************)
EXTENDS Builder, SequenceTheorems, TLAPS

StepType == [id : Nat, uid : Nat, result : [of : Nat \cup {None}, sure : BOOLEAN]]

CardType == [id : Nat, busy : BOOLEAN]

CallType ==
    [kind : {"step", "all", "save"}, uids : Seq(Nat), sure : BOOLEAN,
     phase : {"posted", "waiting"}]

BuilderTypeOK ==
    /\ steps \in Seq(StepType) /\ cards \in Seq(CardType)
    /\ stepSeq \in Nat /\ made \in Nat
    /\ {activeStepId, shown} \subseteq Nat \cup {None}
    /\ tabs \in [ids : Seq(Nat), active : Nat \cup {None}]
    /\ {runAllBtn, saveBtn} \subseteq BOOLEAN
    /\ \A c \in calls : c \in CallType /\ (c.kind = "step" => Len(c.uids) = 1)
    /\ dialog \in [id : Nat, uid : Nat] \cup {None}
    /\ drag \in [id : Nat \cup {None}, over : [id : Nat, before : BOOLEAN] \cup {None}]
    /\ clicks \in 0..MaxClicks

\* Numbers that are not used yet are larger.
NumbersFresh == \A i \in DOMAIN steps : steps[i].id \in 1..stepSeq

\* The steps of a run of all steps are at their places.
SureIsSure ==
    \A c \in calls : c.kind = "all" /\ c.sure =>
        \A i \in DOMAIN c.uids : i \in DOMAIN steps => steps[i].uid = c.uids[i]

BuilderInv ==
    /\ BuilderTypeOK
    /\ NumbersFresh
    /\ TabsMatchSteps
    /\ SureIsSure
    /\ ResultOfItsStep
-----------------------------------------------------------------------------
\* The smaller and the larger of two numbers.
LEMMA TwoNumbers ==
  ASSUME NEW a \in Int, NEW b \in Int
  PROVE  /\ Min({a, b}) = IF a <= b THEN a ELSE b
         /\ Max({a, b}) = IF a >= b THEN a ELSE b
<1>1. \A x \in {a, b} : (\A y \in {a, b} : x <= y) <=> x = IF a <= b THEN a ELSE b
  OBVIOUS
<1>2. \A x \in {a, b} : (\A y \in {a, b} : x >= y) <=> x = IF a >= b THEN a ELSE b
  OBVIOUS
<1>. QED
  BY <1>1, <1>2 DEF Min, Max

\* The index into a list whose numbers differ finds what has the number.
LEMMA IndexFacts ==
  ASSUME NEW S, NEW list \in Seq(S), IsInjective(IdsOf(list))
  PROVE  /\ \A i \in 1..Len(list) : IndexIn(list, list[i].id) = i
         /\ \A id : /\ IndexIn(list, id) \in 0..Len(list)
                    /\ IndexIn(list, id) # 0 => list[IndexIn(list, id)].id = id
                    /\ IndexIn(list, id) = 0 => \A i \in 1..Len(list) : list[i].id # id
<1>1. DOMAIN list = 1..Len(list) /\ Len(list) \in Nat
  OBVIOUS
<1>2. \A i, j \in 1..Len(list) : list[i].id = list[j].id => i = j
  BY <1>1 DEF IsInjective, IdsOf
<1>3. ASSUME NEW i \in 1..Len(list) PROVE IndexIn(list, list[i].id) = i
  <2>1. {j \in DOMAIN list : list[j].id = list[i].id} = {i}
    BY <1>1, <1>2
  <2>2. Min({i}) = i
    BY DEF Min
  <2>. QED
    BY <2>1, <2>2 DEF IndexIn
<1>4. ASSUME NEW id
      PROVE  /\ IndexIn(list, id) \in 0..Len(list)
             /\ IndexIn(list, id) # 0 => list[IndexIn(list, id)].id = id
             /\ IndexIn(list, id) = 0 => \A i \in 1..Len(list) : list[i].id # id
  <2>1. CASE \E i \in 1..Len(list) : list[i].id = id
    BY <1>1, <1>3, <2>1
  <2>2. CASE ~ \E i \in 1..Len(list) : list[i].id = id
    <3>1. {j \in DOMAIN list : list[j].id = id} = {}
      BY <1>1, <2>2
    <3>. QED
      BY <1>1, <2>2, <3>1 DEF IndexIn
  <2>. QED
    BY <2>1, <2>2
<1>. QED
  BY <1>3, <1>4

\* What is left of a list without one of its elements.
LEMMA RemoveAtFacts ==
  ASSUME NEW S, NEW s \in Seq(S), NEW i \in 1..Len(s)
  PROVE  /\ RemoveAt(s, i) \in Seq(S)
         /\ Len(RemoveAt(s, i)) = Len(s) - 1
         /\ \A k \in 1..(Len(s) - 1) : RemoveAt(s, i)[k] = IF k < i THEN s[k] ELSE s[k + 1]
<1> DEFINE left == SubSeq(s, 1, i - 1)
           right == SubSeq(s, i + 1, Len(s))
<1>1. /\ left \in Seq(S) /\ Len(left) = i - 1
      /\ \A k \in 1..(i - 1) : left[k] = s[k]
  OBVIOUS
<1>2. /\ right \in Seq(S) /\ Len(right) = Len(s) - i
      /\ \A k \in 1..(Len(s) - i) : right[k] = s[k + i]
  OBVIOUS
<1>3. RemoveAt(s, i) = left \o right
  BY DEF RemoveAt
<1>. HIDE DEF left, right
<1>4. /\ left \o right \in Seq(S)
      /\ Len(left \o right) = Len(left) + Len(right)
      /\ \A k \in 1..(Len(left) + Len(right)) :
            (left \o right)[k] = IF k <= Len(left) THEN left[k] ELSE right[k - Len(left)]
  BY <1>1, <1>2, ConcatProperties
<1>. QED
  BY <1>1, <1>2, <1>3, <1>4

\* t is the list s with e at place i.
HasAt(t, s, i, e) ==
    /\ Len(t) = Len(s) + 1
    /\ \A k \in 1..(Len(s) + 1) : t[k] = IF k < i THEN s[k] ELSE IF k = i THEN e ELSE s[k - 1]

LEMMA InsertAtFacts ==
  ASSUME NEW S, NEW s \in Seq(S), NEW i \in 1..(Len(s) + 1), NEW e \in S
  PROVE  InsertAt(s, i, e) \in Seq(S) /\ HasAt(InsertAt(s, i, e), s, i, e)
<1> DEFINE left == SubSeq(s, 1, i - 1)
           right == SubSeq(s, i, Len(s))
           head == left \o <<e>>
<1>1. /\ left \in Seq(S) /\ Len(left) = i - 1
      /\ \A k \in 1..(i - 1) : left[k] = s[k]
  OBVIOUS
<1>2. /\ right \in Seq(S) /\ Len(right) = Len(s) - i + 1
      /\ \A k \in 1..(Len(s) - i + 1) : right[k] = s[k + i - 1]
  OBVIOUS
<1>3. InsertAt(s, i, e) = head \o right
  BY DEF InsertAt
<1>. HIDE DEF left, right
<1>4. /\ head \in Seq(S) /\ Len(head) = i
      /\ \A k \in 1..i : head[k] = IF k < i THEN s[k] ELSE e
  BY <1>1
<1>. HIDE DEF head
<1>5. /\ head \o right \in Seq(S)
      /\ Len(head \o right) = Len(head) + Len(right)
      /\ \A k \in 1..(Len(head) + Len(right)) :
            (head \o right)[k] = IF k <= Len(head) THEN head[k] ELSE right[k - Len(head)]
  BY <1>2, <1>4, ConcatProperties
<1>. QED
  BY <1>2, <1>3, <1>4, <1>5 DEF HasAt

\* A list after one element went from one place to another: where each element
\* is found, and where it came from.
Shifted(k, from, to) ==
    LET j == IF k < to THEN k ELSE k - 1
    IN  IF k = to THEN from ELSE IF j < from THEN j ELSE j + 1

MovedIn(s, from, to) == InsertAt(RemoveAt(s, from), to, s[from])

LEMMA MovedFacts ==
  ASSUME NEW S, NEW s \in Seq(S), NEW from \in 1..Len(s), NEW to \in 1..Len(s)
  PROVE  /\ MovedIn(s, from, to) \in Seq(S) /\ Len(MovedIn(s, from, to)) = Len(s)
         /\ \A k \in 1..Len(s) : /\ Shifted(k, from, to) \in 1..Len(s)
                                 /\ MovedIn(s, from, to)[k] = s[Shifted(k, from, to)]
<1>0. PICK e \in S : e = s[from]
  OBVIOUS
<1>1. PICK r \in Seq(S) : /\ r = RemoveAt(s, from) /\ Len(r) = Len(s) - 1
                          /\ \A k \in 1..(Len(s) - 1) : r[k] = IF k < from THEN s[k] ELSE s[k + 1]
  BY RemoveAtFacts
<1> DEFINE m == MovedIn(s, from, to)
<1>2. /\ m \in Seq(S) /\ Len(m) = Len(s)
      /\ \A k \in 1..Len(s) :
            m[k] = IF k < to THEN r[k] ELSE IF k = to THEN e ELSE r[k - 1]
  <2>1. to \in 1..(Len(r) + 1) /\ Len(r) + 1 = Len(s)
    BY <1>1
  <2>2. InsertAt(r, to, e) \in Seq(S) /\ HasAt(InsertAt(r, to, e), r, to, e)
    BY <2>1, InsertAtFacts
  <2>3. m = InsertAt(r, to, e)
    BY <1>0, <1>1 DEF MovedIn
  <2>. HIDE DEF m
  <2>. QED
    BY <2>1, <2>2, <2>3 DEF HasAt
<1>. HIDE DEF m
<1>3. \A k \in 1..Len(s) : /\ Shifted(k, from, to) \in 1..Len(s)
                           /\ m[k] = s[Shifted(k, from, to)]
  <2> SUFFICES ASSUME NEW k \in 1..Len(s)
               PROVE  /\ Shifted(k, from, to) \in 1..Len(s)
                      /\ m[k] = s[Shifted(k, from, to)]
    OBVIOUS
  <2>1. CASE k < to
    BY <1>0, <1>1, <1>2, <2>1 DEF Shifted
  <2>2. CASE k = to
    BY <1>0, <1>1, <1>2, <2>2 DEF Shifted
  <2>3. CASE k > to
    BY <1>0, <1>1, <1>2, <2>3 DEF Shifted
  <2>. QED
    BY <2>1, <2>2, <2>3
<1>4. m = MovedIn(s, from, to)
  BY DEF m
<1>. QED
  BY <1>2, <1>3, <1>4

-----------------------------------------------------------------------------
\* The numbers of a list.
LEMMA IdsFacts ==
  ASSUME NEW list, list \in Seq(StepType) \/ list \in Seq(CardType)
  PROVE  /\ IdsOf(list) \in Seq(Nat)
         /\ Len(IdsOf(list)) = Len(list) /\ Len(list) \in Nat
         /\ DOMAIN IdsOf(list) = 1..Len(list) /\ DOMAIN list = 1..Len(list)
         /\ \A i \in 1..Len(list) : IdsOf(list)[i] = list[i].id /\ list[i].id \in Nat
<1>1. Len(list) \in Nat /\ DOMAIN list = 1..Len(list)
  OBVIOUS
<1>2. \A i \in 1..Len(list) : list[i].id \in Nat
  <2>1. CASE list \in Seq(StepType)
    <3>1. \A i \in 1..Len(list) : list[i] \in StepType
      BY <2>1
    <3>. QED
      BY <3>1 DEF StepType
  <2>2. CASE list \in Seq(CardType)
    <3>1. \A i \in 1..Len(list) : list[i] \in CardType
      BY <2>2
    <3>. QED
      BY <3>1 DEF CardType
  <2>. QED
    BY <2>1, <2>2
<1>3. IdsOf(list) = [i \in 1..Len(list) |-> list[i].id]
  BY <1>1 DEF IdsOf
<1>4. IdsOf(list) \in [1..Len(list) -> Nat]
  BY <1>2, <1>3
<1>5. IdsOf(list) \in Seq(Nat) /\ Len(IdsOf(list)) = Len(list)
  BY <1>1, <1>4
<1>. QED
  BY <1>1, <1>2, <1>3, <1>5

\* What the invariant says of the form, place by place.
LEMMA FormFacts ==
  ASSUME BuilderInv
  PROVE  /\ steps \in Seq(StepType) /\ cards \in Seq(CardType)
         /\ Len(steps) \in Nat /\ Len(cards) = Len(steps)
         /\ DOMAIN steps = 1..Len(steps) /\ DOMAIN cards = 1..Len(steps)
         /\ \A i \in 1..Len(steps) : cards[i].id = steps[i].id /\ steps[i].id \in Nat
         /\ \A i, j \in 1..Len(steps) : steps[i].id = steps[j].id => i = j
         /\ tabs.ids = IdsOf(steps) /\ tabs.active = activeStepId
         /\ IsInjective(IdsOf(steps)) /\ IsInjective(IdsOf(cards))
         /\ \A id : id \in ToSet(tabs.ids) <=> \E i \in 1..Len(steps) : id = steps[i].id
         /\ shown = activeStepId
         /\ IF steps = <<>> THEN activeStepId = None
            ELSE \E i \in 1..Len(steps) : activeStepId = steps[i].id
<1>1. /\ steps \in Seq(StepType) /\ cards \in Seq(CardType)
      /\ TabsMatchSteps
  BY DEF BuilderInv, BuilderTypeOK
<1>2. /\ DOMAIN IdsOf(steps) = 1..Len(steps) /\ DOMAIN steps = 1..Len(steps)
      /\ Len(steps) \in Nat
      /\ \A i \in 1..Len(steps) : IdsOf(steps)[i] = steps[i].id /\ steps[i].id \in Nat
      /\ Len(IdsOf(steps)) = Len(steps)
  BY <1>1, IdsFacts
<1>3. /\ DOMAIN IdsOf(cards) = 1..Len(cards) /\ DOMAIN cards = 1..Len(cards)
      /\ \A i \in 1..Len(cards) : IdsOf(cards)[i] = cards[i].id
      /\ Len(IdsOf(cards)) = Len(cards)
  BY <1>1, IdsFacts
<1>4. /\ IdsOf(cards) = IdsOf(steps) /\ tabs.ids = IdsOf(steps)
      /\ IsInjective(IdsOf(steps))
  BY <1>1 DEF TabsMatchSteps
<1>5. /\ Len(cards) = Len(steps)
      /\ \A i \in 1..Len(steps) : cards[i].id = steps[i].id
  BY <1>2, <1>3, <1>4
<1>6. \A i, j \in 1..Len(steps) : steps[i].id = steps[j].id => i = j
  BY <1>2, <1>4 DEF IsInjective
<1>7. \A id : id \in ToSet(tabs.ids) <=> \E i \in 1..Len(steps) : id = steps[i].id
  BY <1>2, <1>4 DEF ToSet
<1>. QED
  BY <1>1, <1>2, <1>3, <1>4, <1>5, <1>6, <1>7 DEF TabsMatchSteps

\* What a step has to do to keep the form in order.
LEMMA FormKept ==
  ASSUME NEW n \in Nat,
         steps' \in Seq(StepType), Len(steps') = n, cards' \in Seq(CardType), Len(cards') = n,
         \A i \in 1..n : cards'[i].id = steps'[i].id,
         \A i, j \in 1..n : steps'[i].id = steps'[j].id => i = j,
         renderStepTabs, shown' = activeStepId',
         IF n = 0 THEN activeStepId' = None
         ELSE \E i \in 1..n : activeStepId' = steps'[i].id
  PROVE  /\ TabsMatchSteps'
         /\ {activeStepId', shown'} \subseteq Nat \cup {None}
         /\ tabs' \in [ids : Seq(Nat), active : Nat \cup {None}]
<1>1. /\ IdsOf(steps') \in Seq(Nat) /\ Len(IdsOf(steps')) = n
      /\ DOMAIN IdsOf(steps') = 1..n
      /\ \A i \in 1..n : IdsOf(steps')[i] = steps'[i].id /\ steps'[i].id \in Nat
  BY IdsFacts
<1>2. /\ IdsOf(cards') \in Seq(Nat) /\ Len(IdsOf(cards')) = n
      /\ \A i \in 1..n : IdsOf(cards')[i] = cards'[i].id
  BY IdsFacts
<1>3. IdsOf(cards') = IdsOf(steps')
  <2> DEFINE a == IdsOf(cards')
             b == IdsOf(steps')
  <2>1. /\ a \in Seq(Nat) /\ b \in Seq(Nat) /\ Len(a) = Len(b)
        /\ \A i \in 1..Len(a) : a[i] = b[i]
    BY <1>1, <1>2
  <2>. HIDE DEF a, b
  <2>2. a = b
    BY <2>1, SeqEqual
  <2>. QED
    BY <2>2 DEF a, b
<1>4. /\ tabs' = [ids |-> IdsOf(steps'), active |-> activeStepId']
      /\ tabs'.ids = IdsOf(steps') /\ tabs'.active = activeStepId'
  BY DEF renderStepTabs
<1>5. IsInjective(tabs'.ids)
  BY <1>1, <1>4 DEF IsInjective
<1>6. n = 0 <=> steps' = <<>>
  OBVIOUS
<1>7. n # 0 => activeStepId' \in ToSet(tabs'.ids)
  BY <1>1, <1>4 DEF ToSet
<1>8. activeStepId' \in Nat \cup {None}
  BY <1>1
<1>9. tabs' \in [ids : Seq(Nat), active : Nat \cup {None}]
  BY <1>1, <1>4, <1>8
<1>. QED
  BY <1>3, <1>4, <1>5, <1>6, <1>7, <1>8, <1>9 DEF TabsMatchSteps

\* A new step has no result; the steps that stay keep theirs.
LEMMA StepsKept ==
  ASSUME BuilderInv, NEW n \in Nat, steps' \in Seq(StepType), Len(steps') = n,
         \A i \in 1..n :
            \/ stepSeq <= stepSeq' /\ \E k \in 1..Len(steps) : steps'[i] = steps[k]
            \/ \E id \in 1..stepSeq', uid \in Nat : steps'[i] = NewStep(id, uid),
         stepSeq' \in Nat
  PROVE  NumbersFresh' /\ ResultOfItsStep'
<1>1. DOMAIN steps' = 1..n /\ stepSeq \in Nat /\ DOMAIN steps = 1..Len(steps)
  BY DEF BuilderInv, BuilderTypeOK
<1>2. \A id, uid : NewStep(id, uid).id = id /\ NewStep(id, uid).result.of = None
  BY DEF NewStep, NoResult
<1>3. NumbersFresh'
  BY <1>1, <1>2 DEF BuilderInv, NumbersFresh
<1>4. ResultOfItsStep'
  BY <1>1, <1>2 DEF BuilderInv, ResultOfItsStep
<1>. QED
  BY <1>3, <1>4

\* Whoever touches the steps takes the certainty from the runs they were for.
LEMMA DisturbFacts ==
  ASSUME BuilderTypeOK, Disturb
  PROVE  /\ \A c \in calls' : c \in CallType /\ (c.kind = "step" => Len(c.uids) = 1)
         /\ SureIsSure'
<1> SUFFICES ASSUME NEW d \in calls'
             PROVE  /\ d \in CallType /\ (d.kind = "step" => Len(d.uids) = 1)
                    /\ d.sure => \A i \in DOMAIN d.uids :
                                    i \in DOMAIN steps' => steps'[i].uid = d.uids[i]
  BY DEF SureIsSure
<1>1. PICK c \in calls : d = Unsure(c)
  BY DEF Disturb
<1> DEFINE kept == \A i \in DOMAIN c.uids :
                      i \in DOMAIN steps' => steps'[i].uid = c.uids[i]
<1>2. c \in CallType /\ (c.kind = "step" => Len(c.uids) = 1)
  BY DEF BuilderTypeOK
<1>3. d = [c EXCEPT !.sure = c.sure /\ kept]
  BY <1>1 DEF Unsure
<1>4. (c.sure /\ kept) \in BOOLEAN
  OBVIOUS
<1>. HIDE DEF kept
<1>5. /\ d \in CallType /\ d.kind = c.kind /\ d.uids = c.uids
      /\ d.sure = (c.sure /\ kept)
  BY <1>2, <1>3, <1>4 DEF CallType
<1>. QED
  BY <1>2, <1>5 DEF kept
-----------------------------------------------------------------------------
LEMMA BuilderInit == Init => BuilderInv
<1> SUFFICES ASSUME Init PROVE BuilderInv
  OBVIOUS
<1>1. /\ steps = <<>> /\ cards = <<>> /\ calls = {}
      /\ tabs = [ids |-> <<>>, active |-> None] /\ activeStepId = None /\ shown = None
  BY DEF Init
<1>2. BuilderTypeOK
  <2>1. /\ clicks \in 0..MaxClicks /\ stepSeq \in Nat /\ made \in Nat
    BY BuilderAssumption DEF Init
  <2>2. drag \in [id : Nat \cup {None}, over : [id : Nat, before : BOOLEAN] \cup {None}]
    BY DEF Init, NotDragging
  <2>3. {runAllBtn, saveBtn} \subseteq BOOLEAN /\ dialog = None
    BY DEF Init
  <2>4. tabs \in [ids : Seq(Nat), active : Nat \cup {None}]
    BY <1>1
  <2>. QED
    BY <1>1, <2>1, <2>2, <2>3, <2>4 DEF BuilderTypeOK
<1>3. TabsMatchSteps
  <2>1. /\ DOMAIN steps = {} /\ DOMAIN cards = {}
        /\ tabs.ids = <<>> /\ DOMAIN tabs.ids = {}
    BY <1>1
  <2>2. IdsOf(steps) = <<>> /\ IdsOf(cards) = <<>>
    BY <2>1, <1>1 DEF IdsOf
  <2>. QED
    BY <1>1, <2>1, <2>2 DEF TabsMatchSteps, IsInjective
<1>4. NumbersFresh /\ SureIsSure /\ ResultOfItsStep
  BY <1>1 DEF NumbersFresh, SureIsSure, ResultOfItsStep
<1>. QED
  BY <1>2, <1>3, <1>4 DEF BuilderInv

LEMMA ClickCounts ==
  ASSUME BuilderInv, Click
  PROVE  clicks' \in 0..MaxClicks
BY BuilderAssumption DEF BuilderInv, BuilderTypeOK, Click

\* The form changed, and Disturb told the runs.
LEMMA ChangedKeepsBuilder ==
  ASSUME BuilderInv, Disturb, NEW n \in Nat,
         steps' \in Seq(StepType), Len(steps') = n, cards' \in Seq(CardType), Len(cards') = n,
         \A i \in 1..n : cards'[i].id = steps'[i].id,
         \A i, j \in 1..n : steps'[i].id = steps'[j].id => i = j,
         renderStepTabs, shown' = activeStepId',
         IF n = 0 THEN activeStepId' = None
         ELSE \E i \in 1..n : activeStepId' = steps'[i].id,
         \A i \in 1..n :
            \/ stepSeq <= stepSeq' /\ \E k \in 1..Len(steps) : steps'[i] = steps[k]
            \/ \E id \in 1..stepSeq', uid \in Nat : steps'[i] = NewStep(id, uid),
         stepSeq' \in Nat, made' \in Nat,
         updateBtns \/ UNCHANGED <<runAllBtn, saveBtn>>,
         dialog' \in {None, dialog}, drag' \in {NotDragging, drag},
         clicks' \in 0..MaxClicks
  PROVE  BuilderInv'
<1>1. /\ TabsMatchSteps'
      /\ {activeStepId', shown'} \subseteq Nat \cup {None}
      /\ tabs' \in [ids : Seq(Nat), active : Nat \cup {None}]
  BY FormKept
<1>2. NumbersFresh' /\ ResultOfItsStep'
  BY StepsKept
<1>3. BuilderTypeOK
  BY DEF BuilderInv
<1>4. {runAllBtn', saveBtn'} \subseteq BOOLEAN
  <2>1. (steps' # <<>>) \in BOOLEAN
    OBVIOUS
  <2>. QED
    BY <1>3, <2>1 DEF updateBtns, BuilderTypeOK
<1>5. /\ dialog' \in [id : Nat, uid : Nat] \cup {None}
      /\ drag' \in [id : Nat \cup {None}, over : [id : Nat, before : BOOLEAN] \cup {None}]
  BY <1>3 DEF BuilderTypeOK, NotDragging
<1>6. BuilderTypeOK'
  BY <1>1, <1>3, <1>4, <1>5, DisturbFacts DEF BuilderTypeOK
<1>. QED
  BY <1>1, <1>2, <1>3, <1>6, DisturbFacts DEF BuilderInv

\* Only what is around the form changed.
LEMMA AsideKeepsBuilder ==
  ASSUME BuilderInv, UNCHANGED <<form, calls, made>>,
         {runAllBtn', saveBtn'} \subseteq BOOLEAN,
         dialog' \in [id : Nat, uid : Nat] \cup {None},
         drag' \in [id : Nat \cup {None}, over : [id : Nat, before : BOOLEAN] \cup {None}],
         clicks' \in 0..MaxClicks
  PROVE  BuilderInv'
<1>1. UNCHANGED <<steps, stepSeq, activeStepId, cards, shown, tabs>>
  BY DEF form
<1>2. BuilderTypeOK'
  BY <1>1 DEF BuilderInv, BuilderTypeOK
<1>3. TabsMatchSteps'
  BY <1>1 DEF BuilderInv, TabsMatchSteps
<1>4. NumbersFresh' /\ ResultOfItsStep' /\ SureIsSure'
  BY <1>1 DEF BuilderInv, NumbersFresh, ResultOfItsStep, SureIsSure
<1>. QED
  BY <1>2, <1>3, <1>4 DEF BuilderInv

LEMMA AddStepKeepsBuilder ==
  ASSUME BuilderInv, AddStep
  PROVE  BuilderInv'
<1> DEFINE n == Len(steps)
<1>1. /\ made' = made + 1 /\ stepSeq' = stepSeq + 1
      /\ steps' = Append(steps, NewStep(stepSeq', made'))
      /\ cards' = Append(cards, [id |-> stepSeq', busy |-> FALSE])
      /\ activeStepId' = stepSeq' /\ shown' = stepSeq'
      /\ renderStepTabs /\ updateBtns /\ Disturb
      /\ UNCHANGED <<dialog, drag>> /\ clicks' \in 0..MaxClicks
  BY ClickCounts DEF AddStep, setActiveStep
<1>2. /\ stepSeq \in Nat /\ made \in Nat
      /\ \A i \in 1..n : steps[i].id \in 1..stepSeq
  BY FormFacts DEF BuilderInv, BuilderTypeOK, NumbersFresh
<1>3. NewStep(stepSeq', made') \in StepType /\ NewStep(stepSeq', made').id = stepSeq'
  BY <1>1, <1>2 DEF NewStep, NoResult, StepType
<1>4. [id |-> stepSeq', busy |-> FALSE] \in CardType
  BY <1>1, <1>2 DEF CardType
<1>5. /\ steps' \in Seq(StepType) /\ Len(steps') = n + 1
      /\ \A i \in 1..n : steps'[i] = steps[i]
      /\ steps'[n + 1] = NewStep(stepSeq', made')
  BY <1>1, <1>3, FormFacts
<1>6. /\ cards' \in Seq(CardType) /\ Len(cards') = n + 1
      /\ \A i \in 1..n : cards'[i] = cards[i]
      /\ cards'[n + 1].id = stepSeq'
  BY <1>1, <1>4, FormFacts
<1>7. n \in Nat /\ n + 1 # 0 /\ \A i \in 1..(n + 1) : i \in 1..n \/ i = n + 1
  BY FormFacts
<1>8. \A i \in 1..(n + 1) : cards'[i].id = steps'[i].id
  BY <1>3, <1>5, <1>6, <1>7, FormFacts
<1>9. \A i, j \in 1..(n + 1) : steps'[i].id = steps'[j].id => i = j
  BY <1>1, <1>2, <1>3, <1>5, <1>7, FormFacts
<1>10. \A i \in 1..(n + 1) :
          \/ stepSeq <= stepSeq' /\ \E k \in 1..Len(steps) : steps'[i] = steps[k]
          \/ \E id \in 1..stepSeq', uid \in Nat : steps'[i] = NewStep(id, uid)
  BY <1>1, <1>2, <1>5, <1>7
<1>11. \E i \in 1..(n + 1) : activeStepId' = steps'[i].id
  BY <1>1, <1>3, <1>5, <1>7
<1>. HIDE DEF n
<1>12. n + 1 \in Nat /\ stepSeq' \in Nat /\ made' \in Nat
  BY <1>1, <1>2, <1>7
<1>. QED
  BY <1>1, <1>5, <1>6, <1>7, <1>8, <1>9, <1>10, <1>11, <1>12, ChangedKeepsBuilder

\* Removing a step, its card and its tab; the step after it becomes the active one,
\* or the last.
LEMMA RemoveKeepsBuilder ==
  ASSUME BuilderInv, NEW id, RemoveStep(id), IndexOf(id) # 0, UNCHANGED <<drag, made, clicks>>,
         dialog' \in {None, dialog}
  PROVE  BuilderInv'
<1> DEFINE idx == IndexIn(steps, id)
           n == Len(steps) - 1
<1>1. /\ idx \in 1..Len(steps) /\ steps[idx].id = id /\ IndexIn(cards, id) = idx
      /\ idx \in 1..Len(cards)
  <2>1. idx \in 0..Len(steps) /\ idx # 0 /\ steps[idx].id = id
    BY FormFacts, IndexFacts DEF IndexOf
  <2>2. idx \in 1..Len(cards) /\ cards[idx].id = id
    BY <2>1, FormFacts
  <2>. QED
    BY <2>1, <2>2, FormFacts, IndexFacts
<1>2. /\ steps' = RemoveAt(steps, idx) /\ cards' = RemoveAt(cards, idx)
      /\ IF steps' = <<>> THEN activeStepId' = None /\ shown' = None
         ELSE setActiveStep(steps'[Min({idx, Len(steps')})].id)
      /\ renderStepTabs /\ updateBtns /\ Disturb /\ UNCHANGED stepSeq
  BY <1>1 DEF RemoveStep, IndexOf
<1>. HIDE DEF idx
<1>3. /\ n \in Nat /\ Len(steps) \in Nat
      /\ steps \in Seq(StepType) /\ cards \in Seq(CardType) /\ Len(cards) = Len(steps)
  BY <1>1, FormFacts
<1>4. /\ steps' \in Seq(StepType) /\ Len(steps') = n
      /\ \A k \in 1..n : steps'[k] = IF k < idx THEN steps[k] ELSE steps[k + 1]
  BY <1>1, <1>2, <1>3, RemoveAtFacts
<1>5. /\ cards' \in Seq(CardType) /\ Len(cards') = n
      /\ \A k \in 1..n : cards'[k] = IF k < idx THEN cards[k] ELSE cards[k + 1]
  BY <1>1, <1>2, <1>3, RemoveAtFacts
<1>6. \A i \in 1..n : cards'[i].id = steps'[i].id
  <2> SUFFICES ASSUME NEW i \in 1..n PROVE cards'[i].id = steps'[i].id
    OBVIOUS
  <2>1. \A k \in 1..Len(steps) : cards[k].id = steps[k].id
    BY FormFacts
  <2>2. i \in 1..Len(steps) /\ i + 1 \in 1..Len(steps)
    BY <1>3
  <2>. QED
    BY <1>4, <1>5, <2>1, <2>2
<1>7. \A i, j \in 1..n : steps'[i].id = steps'[j].id => i = j
  <2> SUFFICES ASSUME NEW i \in 1..n, NEW j \in 1..n, steps'[i].id = steps'[j].id
               PROVE  i = j
    OBVIOUS
  <2>1. \A k, l \in 1..Len(steps) : steps[k].id = steps[l].id => k = l
    BY FormFacts
  <2> DEFINE k == IF i < idx THEN i ELSE i + 1
             l == IF j < idx THEN j ELSE j + 1
  <2>2. k \in 1..Len(steps) /\ l \in 1..Len(steps)
    BY <1>1, <1>3
  <2>3. steps'[i] = steps[k] /\ steps'[j] = steps[l]
    BY <1>4
  <2>4. k = l => i = j
    BY <1>1
  <2>. HIDE DEF k, l
  <2>. QED
    BY <2>1, <2>2, <2>3, <2>4
<1>8. /\ shown' = activeStepId'
      /\ IF n = 0 THEN activeStepId' = None
         ELSE \E i \in 1..n : activeStepId' = steps'[i].id
  <2>1. CASE n = 0
    <3>0. steps' \in Seq(StepType) /\ Len(steps') = 0
      BY <1>4, <2>1
    <3>1. steps' = <<>>
      BY <3>0
    <3>. QED
      BY <1>2, <2>1, <3>1
  <2>2. CASE n # 0
    <3>1. steps' # <<>>
      BY <1>4, <2>2
    <3>2. Min({idx, n}) \in 1..n
      BY <1>1, <1>3, <2>2, TwoNumbers
    <3>. QED
      BY <1>2, <1>4, <2>2, <3>1, <3>2 DEF setActiveStep
  <2>. QED
    BY <2>1, <2>2
<1>9. stepSeq' \in Nat /\ made' \in Nat /\ clicks' \in 0..MaxClicks /\ stepSeq <= stepSeq'
  BY <1>2 DEF BuilderInv, BuilderTypeOK
<1>10. \A i \in 1..n : \E k \in 1..Len(steps) : steps'[i] = steps[k]
  BY <1>1, <1>3, <1>4
<1>. HIDE DEF n
<1>. QED
  BY <1>2, <1>3, <1>4, <1>5, <1>6, <1>7, <1>8, <1>9, <1>10, ChangedKeepsBuilder

LEMMA CloseDialogKeepsBuilder ==
  ASSUME BuilderInv, CloseDialog
  PROVE  BuilderInv'
<1>1. CASE RemoveStep(dialog.id) /\ IndexOf(dialog.id) # 0
  BY <1>1, RemoveKeepsBuilder DEF CloseDialog
<1>2. CASE UNCHANGED <<form, runAllBtn, saveBtn, calls>>
  BY <1>2, AsideKeepsBuilder DEF CloseDialog, BuilderInv, BuilderTypeOK
<1>. QED
  BY <1>1, <1>2 DEF CloseDialog, RemoveStep

-----------------------------------------------------------------------------
\* The steps are those they were, in the order Shifted tells, and the cards follow.
Reordered(from, to) ==
    /\ steps' \in Seq(StepType) /\ Len(steps') = Len(steps)
    /\ \A k \in 1..Len(steps) : steps'[k] = steps[Shifted(k, from, to)]
    /\ cards' \in Seq(CardType) /\ Len(cards') = Len(steps)
    /\ \A k \in 1..Len(steps) : cards'[k].id = steps'[k].id

\* An index that a list of n steps has.
Bounded(index, n) == IF index <= 1 THEN 1 ELSE IF index <= n THEN index ELSE n

\* moveStepTo does nothing, or it reorders.
LEMMA MoveFacts ==
  ASSUME BuilderInv, NEW id, NEW toIndex \in Int, MoveStepTo(id, toIndex), steps # <<>>
  PROVE  \/ UNCHANGED <<steps, cards>>
         \/ /\ Bounded(toIndex, Len(steps)) \in 1..Len(steps)
            /\ IndexOf(id) \in 1..Len(steps)
            /\ Reordered(IndexOf(id), Bounded(toIndex, Len(steps)))
<1> DEFINE n == Len(steps)
           from == IndexOf(id)
           to == Max({1, Min({toIndex, n})})
<1>1. /\ n \in Nat /\ n # 0 /\ steps \in Seq(StepType)
      /\ from \in 0..n
  BY FormFacts, IndexFacts DEF IndexOf
<1>2. to \in 1..n /\ to = Bounded(toIndex, n)
  <2>1. Min({toIndex, n}) = IF toIndex <= n THEN toIndex ELSE n
    BY <1>1, TwoNumbers
  <2> DEFINE least == Min({toIndex, n})
  <2>2. least \in Int
    BY <1>1, <2>1
  <2>. HIDE DEF least
  <2>3. Max({1, least}) = IF 1 >= least THEN 1 ELSE least
    BY <2>2, TwoNumbers
  <2>. QED
    BY <1>1, <2>1, <2>3 DEF Bounded, least
<1>3. CASE from \in {0, to}
  BY <1>3 DEF MoveStepTo
<1>4. CASE from \notin {0, to}
  <2>1. /\ steps' = InsertAt(RemoveAt(steps, from), to, steps[from])
        /\ cards' = InStepOrder(cards)
    BY <1>4 DEF MoveStepTo
  <2>2. from \in 1..n /\ from # to
    BY <1>1, <1>4
  <2>. HIDE DEF from, to
  <2>3. /\ steps' \in Seq(StepType) /\ Len(steps') = n
        /\ \A k \in 1..n : /\ Shifted(k, from, to) \in 1..n
                           /\ steps'[k] = steps[Shifted(k, from, to)]
    <3>1. steps' = MovedIn(steps, from, to)
      BY <2>1 DEF MovedIn
    <3>. QED
      BY <1>1, <1>2, <2>2, <3>1, MovedFacts
  <2>4. /\ DOMAIN cards = 1..n /\ \A j \in 1..n : cards[j] \in CardType
        /\ \A j \in 1..n : cards[j].id = steps[j].id
    BY FormFacts
  <2>. HIDE DEF n
  <2>5. \A k \in 1..n : \E j \in DOMAIN cards : cards[j].id = steps'[k].id
    BY <2>3, <2>4
  <2>6. cards' = [k \in 1..n |->
                    cards[CHOOSE j \in DOMAIN cards : cards[j].id = steps'[k].id]]
    BY <2>1, <2>4 DEF InStepOrder
  <2>7. \A k \in 1..n : cards'[k] \in CardType /\ cards'[k].id = steps'[k].id
    BY <2>4, <2>5, <2>6
  <2>8. cards' \in [1..n -> CardType]
    BY <2>6, <2>7
  <2>9. cards' \in Seq(CardType) /\ Len(cards') = n
    BY <1>1, <2>8
  <2>10. Reordered(from, to)
    BY <2>3, <2>7, <2>9 DEF Reordered, n
  <2>. QED
    BY <1>2, <2>2, <2>10 DEF from, n
<1>. QED
  BY <1>3, <1>4

\* A reordered list has each step once, at one place.
LEMMA ReorderedFacts ==
  ASSUME BuilderInv, NEW from \in 1..Len(steps), NEW to \in 1..Len(steps),
         Reordered(from, to)
  PROVE  /\ \A i, j \in 1..Len(steps) : steps'[i].id = steps'[j].id => i = j
         /\ \A i \in 1..Len(steps) : \E k \in 1..Len(steps) : steps'[i] = steps[k]
         /\ \A i \in 1..Len(steps) : \E k \in 1..Len(steps) : steps'[k] = steps[i]
<1> DEFINE n == Len(steps)
<1>1. n \in Nat /\ \A i, j \in 1..n : steps[i].id = steps[j].id => i = j
  BY FormFacts
<1>2. \A k \in 1..n : steps'[k] = steps[Shifted(k, from, to)]
  BY DEF Reordered
<1>. HIDE DEF n
<1>3. \A k \in 1..n : Shifted(k, from, to) \in 1..n
  BY <1>1 DEF Shifted, n
<1>4. \A j, k \in 1..n : Shifted(j, from, to) = Shifted(k, from, to) => j = k
  BY <1>1 DEF Shifted, n
<1>5. \A i \in 1..n : \E k \in 1..n : Shifted(k, from, to) = i
  <2> SUFFICES ASSUME NEW i \in 1..n PROVE \E k \in 1..n : Shifted(k, from, to) = i
    OBVIOUS
  <2> DEFINE j == IF i < from THEN i ELSE i - 1
             k == IF i = from THEN to ELSE IF j < to THEN j ELSE j + 1
  <2>1. k \in 1..n /\ Shifted(k, from, to) = i
    BY <1>1 DEF Shifted, n
  <2>. QED
    BY <2>1
<1>6. ASSUME NEW i \in 1..n, NEW j \in 1..n, steps'[i].id = steps'[j].id PROVE i = j
  <2>1. /\ Shifted(i, from, to) \in 1..n /\ Shifted(j, from, to) \in 1..n
        /\ steps[Shifted(i, from, to)].id = steps[Shifted(j, from, to)].id
    BY <1>2, <1>3, <1>6
  <2>2. Shifted(i, from, to) = Shifted(j, from, to)
    BY <1>1, <2>1
  <2>. QED
    BY <1>4, <2>2
<1>7. \A i \in 1..n : \E k \in 1..n : steps'[i] = steps[k]
  BY <1>2, <1>3
<1>8. \A i \in 1..n : \E k \in 1..n : steps'[k] = steps[i]
  BY <1>2, <1>5
<1>. QED
  BY <1>6, <1>7, <1>8 DEF n

\* A move keeps steps, cards and tabs together, whichever step is active after it.
LEMMA MoveKeepsBuilder ==
  ASSUME BuilderInv, NEW id, NEW toIndex \in Int, MoveStepTo(id, toIndex), steps # <<>>,
         renderStepTabs, Disturb, shown' = activeStepId',
         NEW active \in 1..Len(steps), activeStepId' = steps[active].id,
         UNCHANGED <<stepSeq, runAllBtn, saveBtn, dialog, made>>,
         drag' \in {NotDragging, drag}, clicks' \in 0..MaxClicks
  PROVE  BuilderInv'
<1> DEFINE n == Len(steps)
<1>1. n \in Nat /\ n # 0
  BY FormFacts
<1>2. stepSeq' \in Nat /\ made' \in Nat /\ stepSeq <= stepSeq'
  BY DEF BuilderInv, BuilderTypeOK
<1>3. /\ steps' \in Seq(StepType) /\ Len(steps') = n
      /\ cards' \in Seq(CardType) /\ Len(cards') = n
      /\ \A i \in 1..n : cards'[i].id = steps'[i].id
      /\ \A i, j \in 1..n : steps'[i].id = steps'[j].id => i = j
      /\ \A i \in 1..n : \E k \in 1..n : steps'[i] = steps[k]
      /\ \E k \in 1..n : steps'[k] = steps[active]
  <2>1. CASE UNCHANGED <<steps, cards>>
    BY <2>1, FormFacts
  <2>2. CASE ~ UNCHANGED <<steps, cards>>
    <3>1. PICK from \in 1..n, to \in 1..n : Reordered(from, to)
      BY <2>2, MoveFacts
    <3>2. /\ \A i, j \in 1..n : steps'[i].id = steps'[j].id => i = j
          /\ \A i \in 1..n : \E k \in 1..n : steps'[i] = steps[k]
          /\ \E k \in 1..n : steps'[k] = steps[active]
      BY <3>1, ReorderedFacts
    <3>. QED
      BY <3>1, <3>2 DEF Reordered
  <2>. QED
    BY <2>1, <2>2
<1>4. \E i \in 1..n : activeStepId' = steps'[i].id
  <2>1. PICK k \in 1..n : steps'[k] = steps[active]
    BY <1>3
  <2>. QED
    BY <2>1
<1>. HIDE DEF n
<1>5. \A i \in 1..n : \E k \in 1..Len(steps) : steps'[i] = steps[k]
  BY <1>3 DEF n
<1>. QED
  BY <1>1, <1>2, <1>3, <1>4, <1>5, ChangedKeepsBuilder

LEMMA MoveStepKeepsBuilder ==
  ASSUME BuilderInv, NEW dir \in {-1, 1}, MoveStep(dir)
  PROVE  BuilderInv'
<1>1. /\ IndexOf(shown) + dir \in 1..Len(steps) /\ Len(steps) \in Nat
      /\ MoveStepTo(shown, IndexOf(shown) + dir) /\ renderStepTabs /\ Disturb
      /\ UNCHANGED <<stepSeq, activeStepId, shown, runAllBtn, saveBtn, dialog, drag, made>>
      /\ clicks' \in 0..MaxClicks
  BY FormFacts, ClickCounts DEF MoveStep
<1>2. steps # <<>>
  BY <1>1
<1>3. PICK i \in 1..Len(steps) : activeStepId = steps[i].id
  BY <1>2, FormFacts
<1>4. shown' = activeStepId' /\ activeStepId' = steps[i].id
  BY <1>1, <1>3, FormFacts
<1>. QED
  BY <1>1, <1>2, <1>4, MoveKeepsBuilder

LEMMA DropKeepsBuilder ==
  ASSUME BuilderInv, Drop
  PROVE  BuilderInv'
<1> DEFINE from == IndexOf(drag.id)
           target == IndexOf(drag.over.id)
           to == DropIndex(from, target, drag.over.before)
<1>1. /\ from # 0 /\ target # 0
      /\ drag' = NotDragging /\ MoveStepTo(drag.id, to)
      /\ activeStepId' = drag.id /\ shown' = drag.id
      /\ renderStepTabs /\ Disturb
      /\ UNCHANGED <<stepSeq, runAllBtn, saveBtn, dialog, made>>
      /\ clicks' \in 0..MaxClicks
  BY DEF Drop, setActiveStep, BuilderInv, BuilderTypeOK
<1>2. /\ from \in 1..Len(steps) /\ target \in 1..Len(steps)
      /\ steps[from].id = drag.id
  BY <1>1, FormFacts, IndexFacts DEF IndexOf
<1>3. to \in Int /\ steps # <<>>
  BY <1>2 DEF DropIndex
<1>. HIDE DEF from, target, to
<1>. QED
  BY <1>1, <1>2, <1>3, MoveKeepsBuilder

LEMMA ClickTabKeepsBuilder ==
  ASSUME BuilderInv, NEW id, ClickTab(id)
  PROVE  BuilderInv'
<1>1. /\ id \in ToSet(tabs.ids) /\ activeStepId' = id /\ shown' = id
      /\ UNCHANGED <<steps, cards, stepSeq, runAllBtn, saveBtn, calls, dialog, drag, made>>
      /\ renderStepTabs /\ clicks' \in 0..MaxClicks
  BY ClickCounts DEF ClickTab, setActiveStep
<1>2. \E i \in 1..Len(steps) : id = steps[i].id
  BY <1>1, FormFacts
<1>3. /\ TabsMatchSteps'
      /\ {activeStepId', shown'} \subseteq Nat \cup {None}
      /\ tabs' \in [ids : Seq(Nat), active : Nat \cup {None}]
  <2> DEFINE n == Len(steps)
  <2>1. /\ n \in Nat /\ n # 0 /\ steps' \in Seq(StepType) /\ Len(steps') = n
        /\ cards' \in Seq(CardType) /\ Len(cards') = n
        /\ \A i \in 1..n : cards'[i].id = steps'[i].id
        /\ \A i, j \in 1..n : steps'[i].id = steps'[j].id => i = j
        /\ \E i \in 1..n : activeStepId' = steps'[i].id
        /\ shown' = activeStepId'
    BY <1>1, <1>2, FormFacts
  <2>. HIDE DEF n
  <2>. QED
    BY <1>1, <2>1, FormKept
<1>4. BuilderTypeOK'
  BY <1>1, <1>3 DEF BuilderInv, BuilderTypeOK
<1>5. NumbersFresh' /\ ResultOfItsStep' /\ SureIsSure'
  BY <1>1 DEF BuilderInv, NumbersFresh, ResultOfItsStep, SureIsSure
<1>. QED
  BY <1>3, <1>4, <1>5 DEF BuilderInv

\* Asking, and dragging until the drop, leave the form alone.
LEMMA HoverKeepsBuilder ==
  ASSUME BuilderInv,
         \/ \E s \in ToSet(steps) : AskRemove(s)
         \/ \E id \in ToSet(tabs.ids) :
               DragStart(id) \/ \E before \in BOOLEAN : DragOver(id, before)
         \/ DragLeave \/ DragEnd
  PROVE  BuilderInv'
<1>1. /\ UNCHANGED <<form, calls, made, runAllBtn, saveBtn>>
      /\ clicks' \in 0..MaxClicks
  BY ClickCounts DEF AskRemove, DragStart, DragOver, DragLeave, DragEnd, BuilderInv,
                     BuilderTypeOK
<1>2. {runAllBtn', saveBtn'} \subseteq BOOLEAN
  BY <1>1 DEF BuilderInv, BuilderTypeOK
<1>3. \A s \in ToSet(steps) : s \in StepType
  BY FormFacts DEF ToSet
<1>4. \A id \in ToSet(tabs.ids) : id \in Nat
  BY FormFacts
<1>5. dialog' \in [id : Nat, uid : Nat] \cup {None}
  BY <1>3 DEF AskRemove, DragStart, DragOver, DragLeave, DragEnd, BuilderInv,
              BuilderTypeOK, StepType
<1>6. drag' \in [id : Nat \cup {None}, over : [id : Nat, before : BOOLEAN] \cup {None}]
  BY <1>4 DEF AskRemove, DragStart, DragOver, DragLeave, DragEnd, BuilderInv,
              BuilderTypeOK, NotDragging
<1>. QED
  BY <1>1, <1>2, <1>5, <1>6, AsideKeepsBuilder

-----------------------------------------------------------------------------
LEMMA ClickBuilderKeepsBuilder ==
  ASSUME BuilderInv, ClickBuilder
  PROVE  BuilderInv'
<1>1. /\ steps' = <<>> /\ stepSeq' = 0 /\ cards' = <<>>
      /\ activeStepId' = None /\ shown' = None
      /\ renderStepTabs /\ updateBtns /\ Disturb
      /\ UNCHANGED <<dialog, drag, made>> /\ clicks' \in 0..MaxClicks
  BY ClickCounts DEF ClickBuilder
<1>2. /\ steps' \in Seq(StepType) /\ Len(steps') = 0
      /\ cards' \in Seq(CardType) /\ Len(cards') = 0
      /\ made' \in Nat
  BY <1>1 DEF BuilderInv, BuilderTypeOK
<1>. QED
  BY <1>1, <1>2, ChangedKeepsBuilder

LEMMA LoadKeepsBuilder ==
  ASSUME BuilderInv, NEW n \in Opened, LoadInBuilder(n)
  PROVE  BuilderInv'
<1>1. n \in Nat /\ n # 0 /\ made \in Nat
  BY BuilderAssumption DEF BuilderInv, BuilderTypeOK
<1>2. /\ made' = made + n /\ stepSeq' = n
      /\ steps' = [i \in 1..n |-> NewStep(i, made + i)]
      /\ cards' = [i \in 1..n |-> [id |-> i, busy |-> FALSE]]
      /\ activeStepId' = 1 /\ shown' = 1
      /\ renderStepTabs /\ updateBtns /\ Disturb
      /\ UNCHANGED <<dialog, drag>> /\ clicks' \in 0..MaxClicks
  BY BuilderAssumption DEF LoadInBuilder, setActiveStep, BuilderInv, BuilderTypeOK
<1>3. \A i \in 1..n : NewStep(i, made + i) \in StepType /\ NewStep(i, made + i).id = i
  BY <1>1 DEF NewStep, NoResult, StepType
<1>4. /\ steps' \in Seq(StepType) /\ Len(steps') = n
      /\ \A i \in 1..n : steps'[i] = NewStep(i, made + i) /\ steps'[i].id = i
  BY <1>1, <1>2, <1>3
<1>5. /\ cards' \in Seq(CardType) /\ Len(cards') = n
      /\ \A i \in 1..n : cards'[i].id = i
  BY <1>1, <1>2 DEF CardType
<1>6. 1 \in 1..n /\ activeStepId' = steps'[1].id
  BY <1>1, <1>2, <1>4
<1>7. \A i \in 1..n : \E id \in 1..stepSeq', uid \in Nat : steps'[i] = NewStep(id, uid)
  BY <1>1, <1>2, <1>4
<1>8. made' \in Nat /\ stepSeq' \in Nat
  BY <1>1, <1>2
<1>9. /\ \A i \in 1..n : cards'[i].id = steps'[i].id
      /\ \A i, j \in 1..n : steps'[i].id = steps'[j].id => i = j
      /\ \E i \in 1..n : activeStepId' = steps'[i].id
      /\ shown' = activeStepId'
  BY <1>2, <1>4, <1>5, <1>6
<1>10. /\ steps' \in Seq(StepType) /\ Len(steps') = n
       /\ cards' \in Seq(CardType) /\ Len(cards') = n
       /\ renderStepTabs /\ updateBtns /\ Disturb
       /\ UNCHANGED <<dialog, drag>> /\ clicks' \in 0..MaxClicks
  BY <1>2, <1>4, <1>5
<1>. QED
  BY <1>1, <1>7, <1>8, <1>9, <1>10, ChangedKeepsBuilder

-----------------------------------------------------------------------------
\* Runs and saves, and their answers, leave every step and card at its place.
LEMMA QuietKeepsBuilder ==
  ASSUME BuilderInv,
         steps' \in Seq(StepType), Len(steps') = Len(steps),
         \A i \in 1..Len(steps) : steps'[i].id = steps[i].id,
         cards' \in Seq(CardType), Len(cards') = Len(steps),
         \A i \in 1..Len(steps) : cards'[i].id = cards[i].id,
         ResultOfItsStep', SureIsSure',
         \A c \in calls' : c \in CallType /\ (c.kind = "step" => Len(c.uids) = 1),
         {runAllBtn', saveBtn'} \subseteq BOOLEAN,
         UNCHANGED <<stepSeq, activeStepId, shown, tabs, dialog, drag, made>>,
         clicks' \in 0..MaxClicks
  PROVE  BuilderInv'
<1> DEFINE n == Len(steps)
<1>1. /\ n \in Nat /\ \A i \in 1..n : steps'[i].id = steps[i].id
      /\ steps' \in Seq(StepType) /\ Len(steps') = n
      /\ \A i \in 1..n : cards'[i].id = steps'[i].id
      /\ \A i, j \in 1..n : steps'[i].id = steps'[j].id => i = j
  BY FormFacts
<1>2. IdsOf(steps') = IdsOf(steps)
  <2> DEFINE a == IdsOf(steps')
             b == IdsOf(steps)
  <2>1. /\ a \in Seq(Nat) /\ Len(a) = n /\ \A i \in 1..n : a[i] = steps'[i].id
    BY <1>1, IdsFacts
  <2>2. /\ b \in Seq(Nat) /\ Len(b) = n /\ \A i \in 1..n : b[i] = steps[i].id
    BY FormFacts, IdsFacts
  <2>3. Len(a) = Len(b) /\ \A i \in 1..Len(a) : a[i] = b[i]
    BY <1>1, <2>1, <2>2
  <2>. HIDE DEF a, b
  <2>4. a = b
    BY <2>1, <2>2, <2>3, SeqEqual
  <2>. QED
    BY <2>4 DEF a, b
<1>3. renderStepTabs /\ shown' = activeStepId'
  <2>1. tabs \in [ids : Seq(Nat), active : Nat \cup {None}]
    BY DEF BuilderInv, BuilderTypeOK
  <2>2. tabs = [ids |-> tabs.ids, active |-> tabs.active]
    BY <2>1
  <2>3. tabs.ids = IdsOf(steps) /\ tabs.active = activeStepId /\ shown = activeStepId
    BY FormFacts
  <2>. QED
    BY <1>2, <2>2, <2>3 DEF renderStepTabs
<1>4. IF n = 0 THEN activeStepId' = None
      ELSE \E i \in 1..n : activeStepId' = steps'[i].id
  <2>1. n = 0 <=> steps = <<>>
    BY FormFacts
  <2>. QED
    BY <1>1, <2>1, FormFacts
<1>5. TabsMatchSteps'
  <2>. HIDE DEF n
  <2>1. cards' \in Seq(CardType) /\ Len(cards') = n
    BY DEF n
  <2>. QED
    BY <1>1, <1>3, <1>4, <2>1, FormKept
<1>6. BuilderTypeOK'
  BY DEF BuilderInv, BuilderTypeOK
<1>7. NumbersFresh'
  <2>1. DOMAIN steps' = DOMAIN steps /\ DOMAIN steps = 1..n
    BY <1>1, FormFacts
  <2>. QED
    BY <1>1, <2>1 DEF BuilderInv, NumbersFresh
<1>. QED
  BY <1>5, <1>6, <1>7 DEF BuilderInv

\* A request that is sent is about the steps as they are.
LEMMA PostFacts ==
  ASSUME BuilderInv, UNCHANGED steps, NEW kind \in {"step", "all", "save"},
         NEW uids \in Seq(Nat), Post(kind, uids),
         kind = "step" => Len(uids) = 1,
         kind = "all" => \A i \in DOMAIN uids : i \in DOMAIN steps => steps[i].uid = uids[i]
  PROVE  /\ \A c \in calls' : c \in CallType /\ (c.kind = "step" => Len(c.uids) = 1)
         /\ SureIsSure'
<1>1. \A c \in calls' : \/ c \in calls
                        \/ /\ c \in CallType /\ c.kind = kind /\ c.uids = uids
  <2> DEFINE new == [kind |-> kind, uids |-> uids, sure |-> TRUE, phase |-> "posted"]
  <2>1. new \in CallType /\ new.kind = kind /\ new.uids = uids
    BY DEF CallType
  <2>2. calls' = calls \cup {new}
    BY DEF Post
  <2>. HIDE DEF new
  <2>. QED
    BY <2>1, <2>2
<1>2. /\ \A c \in calls : c \in CallType /\ (c.kind = "step" => Len(c.uids) = 1)
      /\ SureIsSure
  BY DEF BuilderInv, BuilderTypeOK
<1>3. \A c \in calls' : c \in CallType /\ (c.kind = "step" => Len(c.uids) = 1)
  BY <1>1, <1>2
<1>4. SureIsSure'
  BY <1>1, <1>2 DEF SureIsSure
<1>. QED
  BY <1>3, <1>4

\* The numbers for good of the steps, in order.
UidsInOrder == [i \in DOMAIN steps |-> steps[i].uid]

LEMMA UidsFacts ==
  ASSUME BuilderInv
  PROVE  /\ UidsInOrder \in Seq(Nat)
         /\ \A i \in DOMAIN UidsInOrder : i \in DOMAIN steps /\ UidsInOrder[i] = steps[i].uid
<1>1. /\ DOMAIN steps = 1..Len(steps) /\ Len(steps) \in Nat
      /\ \A i \in 1..Len(steps) : steps[i] \in StepType
  BY FormFacts
<1>2. UidsInOrder \in [1..Len(steps) -> Nat]
  BY <1>1 DEF UidsInOrder, StepType
<1>. QED
  BY <1>1, <1>2 DEF UidsInOrder

\* A card's overlay comes and goes without the card moving.
LEMMA BusyFacts ==
  ASSUME BuilderInv, NEW uid, NEW on \in BOOLEAN, Busy(uid, on)
  PROVE  /\ cards' \in Seq(CardType) /\ Len(cards') = Len(steps)
         /\ \A i \in 1..Len(steps) : cards'[i].id = cards[i].id
<1>1. /\ DOMAIN cards = 1..Len(steps) /\ Len(steps) \in Nat
      /\ \A i \in 1..Len(steps) : cards[i] \in CardType
  BY FormFacts
<1>2. \A i \in 1..Len(steps) : cards'[i] \in {cards[i], [cards[i] EXCEPT !.busy = on]}
  BY <1>1 DEF Busy
<1>3. \A i \in 1..Len(steps) : cards'[i] \in CardType /\ cards'[i].id = cards[i].id
  BY <1>1, <1>2 DEF CardType
<1>4. cards' \in [1..Len(steps) -> CardType]
  BY <1>1, <1>3 DEF Busy
<1>. QED
  BY <1>1, <1>3, <1>4

\* Results that come, each on the step that produced it or without certainty,
\* leave every step at its place.
LEMMA ResultFacts ==
  ASSUME BuilderInv,
         steps' = [i \in DOMAIN steps |-> steps'[i]],
         \A i \in DOMAIN steps :
            \/ steps'[i] = steps[i]
            \/ \E of \in Nat, sure \in BOOLEAN :
                  steps'[i] = Put(i, of, sure) /\ (sure => of = steps[i].uid)
  PROVE  /\ steps' \in Seq(StepType) /\ Len(steps') = Len(steps)
         /\ DOMAIN steps' = DOMAIN steps
         /\ \A i \in 1..Len(steps) : steps'[i].id = steps[i].id /\ steps'[i].uid = steps[i].uid
         /\ ResultOfItsStep'
<1>1. /\ DOMAIN steps = 1..Len(steps) /\ Len(steps) \in Nat
      /\ \A i \in 1..Len(steps) : steps[i] \in StepType
      /\ ResultOfItsStep
  BY FormFacts DEF BuilderInv
<1>2. ASSUME NEW i \in 1..Len(steps)
      PROVE  /\ steps'[i] \in StepType
             /\ steps'[i].id = steps[i].id /\ steps'[i].uid = steps[i].uid
             /\ steps'[i].result.of # None /\ steps'[i].result.sure
                => steps'[i].result.of = steps'[i].uid
  <2>1. CASE steps'[i] = steps[i]
    BY <1>1, <2>1 DEF ResultOfItsStep
  <2>2. ASSUME NEW of \in Nat, NEW sure \in BOOLEAN, steps'[i] = Put(i, of, sure),
               sure => of = steps[i].uid
        PROVE  /\ steps'[i] \in StepType
               /\ steps'[i].id = steps[i].id /\ steps'[i].uid = steps[i].uid
               /\ steps'[i].result.of = of /\ steps'[i].result.sure = sure
    BY <1>1, <2>2 DEF Put, StepType
  <2>. QED
    BY <1>1, <2>1, <2>2
<1>3. steps' \in [1..Len(steps) -> StepType]
  BY <1>1, <1>2
<1>4. steps' \in Seq(StepType) /\ Len(steps') = Len(steps) /\ DOMAIN steps' = DOMAIN steps
  BY <1>1, <1>3
<1>5. ResultOfItsStep'
  BY <1>1, <1>2, <1>4 DEF ResultOfItsStep
<1>. QED
  BY <1>2, <1>4, <1>5

\* Nobody touched the steps: who is certain stays certain.
LEMMA SureStays ==
  ASSUME BuilderInv, DOMAIN steps' = DOMAIN steps,
         \A i \in DOMAIN steps : steps'[i].uid = steps[i].uid,
         \A c \in calls' : c \in calls \/ c.kind # "all"
  PROVE  SureIsSure'
BY DEF BuilderInv, SureIsSure

LEMMA RunStepKeepsBuilder ==
  ASSUME BuilderInv, NEW s \in ToSet(steps), RunStep(s)
  PROVE  BuilderInv'
<1>1. /\ Post("step", <<s.uid>>) /\ Busy(s.uid, TRUE)
      /\ UNCHANGED <<steps, stepSeq, activeStepId, shown, tabs, runAllBtn, saveBtn, dialog,
                     drag, made>>
      /\ clicks' \in 0..MaxClicks
  BY ClickCounts DEF RunStep
<1>2. s.uid \in Nat
  <2>1. s \in StepType
    BY FormFacts DEF ToSet
  <2>. QED
    BY <2>1 DEF StepType
<1>3. /\ cards' \in Seq(CardType) /\ Len(cards') = Len(steps)
      /\ \A i \in 1..Len(steps) : cards'[i].id = cards[i].id
  BY <1>1, BusyFacts
<1>4. /\ \A c \in calls' : c \in CallType /\ (c.kind = "step" => Len(c.uids) = 1)
      /\ SureIsSure'
  <2> DEFINE uids == <<s.uid>>
  <2>1. uids \in Seq(Nat) /\ Len(uids) = 1
    BY <1>2
  <2>. HIDE DEF uids
  <2>2. Post("step", uids)
    BY <1>1 DEF uids
  <2>. QED
    BY <1>1, <2>1, <2>2, PostFacts
<1>5. ResultOfItsStep' /\ {runAllBtn', saveBtn'} \subseteq BOOLEAN
  BY <1>1 DEF BuilderInv, BuilderTypeOK, ResultOfItsStep
<1>6. /\ steps' \in Seq(StepType) /\ Len(steps') = Len(steps)
      /\ \A i \in 1..Len(steps) : steps'[i].id = steps[i].id
  BY <1>1, FormFacts
<1>. QED
  BY <1>1, <1>3, <1>4, <1>5, <1>6, QuietKeepsBuilder

\* The two buttons that send all steps.
LEMMA SendAllKeepsBuilder ==
  ASSUME BuilderInv, RunAll \/ SaveTC
  PROVE  BuilderInv'
<1>1. /\ UNCHANGED <<form, dialog, drag, made>> /\ clicks' \in 0..MaxClicks
      /\ {runAllBtn', saveBtn'} \subseteq BOOLEAN
  BY ClickCounts DEF RunAll, SaveTC, BuilderInv, BuilderTypeOK
<1>2. CASE UNCHANGED calls
  BY <1>1, <1>2, AsideKeepsBuilder DEF BuilderInv, BuilderTypeOK
<1>3. CASE Post("all", UidsInOrder) \/ Post("save", UidsInOrder)
  <2>1. UNCHANGED <<steps, stepSeq, activeStepId, cards, shown, tabs>>
    BY <1>1 DEF form
  <2>2. /\ UidsInOrder \in Seq(Nat)
        /\ \A i \in DOMAIN UidsInOrder : i \in DOMAIN steps => steps[i].uid = UidsInOrder[i]
    BY UidsFacts
  <2>3. /\ \A c \in calls' : c \in CallType /\ (c.kind = "step" => Len(c.uids) = 1)
        /\ SureIsSure'
    <3>1. CASE Post("all", UidsInOrder)
      BY <2>1, <2>2, <3>1, PostFacts
    <3>2. CASE Post("save", UidsInOrder)
      BY <2>1, <2>2, <3>2, PostFacts
    <3>. QED
      BY <1>3, <3>1, <3>2
  <2>4. ResultOfItsStep'
    BY <2>1 DEF BuilderInv, ResultOfItsStep
  <2>5. /\ steps' \in Seq(StepType) /\ Len(steps') = Len(steps)
        /\ \A i \in 1..Len(steps) : steps'[i].id = steps[i].id
        /\ cards' \in Seq(CardType) /\ Len(cards') = Len(steps)
        /\ \A i \in 1..Len(steps) : cards'[i].id = cards[i].id
    BY <2>1, FormFacts
  <2>. QED
    BY <1>1, <2>1, <2>3, <2>4, <2>5, QuietKeepsBuilder
<1>. QED
  BY <1>2, <1>3 DEF RunAll, SaveTC, UidsInOrder

\* An answer puts its results on the steps that produced them, as far as that is
\* certain, and removes no step.
LEMMA AnswerKeepsSteps ==
  ASSUME BuilderInv, NEW c \in calls, StepAnswered(c) \/ AllAnswered(c)
  PROVE  /\ steps' \in Seq(StepType) /\ Len(steps') = Len(steps)
         /\ DOMAIN steps' = DOMAIN steps
         /\ \A i \in 1..Len(steps) : steps'[i].id = steps[i].id /\ steps'[i].uid = steps[i].uid
         /\ ResultOfItsStep'
<1>1. /\ DOMAIN steps = 1..Len(steps) /\ Len(steps) \in Nat /\ steps \in Seq(StepType)
      /\ ResultOfItsStep
  BY FormFacts DEF BuilderInv
<1>2. c \in CallType /\ (c.kind = "step" => Len(c.uids) = 1)
  BY DEF BuilderInv, BuilderTypeOK
<1>3. CASE UNCHANGED steps
  BY <1>1, <1>3 DEF ResultOfItsStep
<1>4. CASE c.kind = "step" /\ ShowOnStep(c)
  <2>1. c.uids[1] \in Nat
    BY <1>2, <1>4 DEF CallType
  <2>2. /\ steps' = [i \in DOMAIN steps |-> steps'[i]]
        /\ \A i \in DOMAIN steps :
              \/ steps'[i] = steps[i]
              \/ steps'[i] = Put(i, c.uids[1], TRUE) /\ c.uids[1] = steps[i].uid
    BY <1>4 DEF ShowOnStep
  <2>3. \A i \in DOMAIN steps :
           \/ steps'[i] = steps[i]
           \/ \E of \in Nat, sure \in BOOLEAN :
                 steps'[i] = Put(i, of, sure) /\ (sure => of = steps[i].uid)
    BY <2>1, <2>2
  <2>. QED
    BY <2>2, <2>3, ResultFacts
<1>5. ASSUME c.kind = "all", NEW k \in DOMAIN c.uids,
             steps' = [i \in DOMAIN steps |-> IF i <= k THEN Put(i, c.uids[i], c.sure)
                                              ELSE steps[i]]
      PROVE  /\ steps' \in Seq(StepType) /\ Len(steps') = Len(steps)
             /\ DOMAIN steps' = DOMAIN steps
             /\ \A i \in 1..Len(steps) :
                   steps'[i].id = steps[i].id /\ steps'[i].uid = steps[i].uid
             /\ ResultOfItsStep'
  <2>1. /\ k \in Nat /\ c.sure \in BOOLEAN
        /\ \A i \in DOMAIN steps : i <= k => i \in DOMAIN c.uids /\ c.uids[i] \in Nat
    <3>1. c.uids \in Seq(Nat) /\ c.sure \in BOOLEAN
      BY <1>2 DEF CallType
    <3>2. /\ DOMAIN c.uids = 1..Len(c.uids) /\ Len(c.uids) \in Nat
          /\ \A i \in 1..Len(c.uids) : c.uids[i] \in Nat
      BY <3>1
    <3>. QED
      BY <1>1, <3>1, <3>2
  <2>2. \A i \in DOMAIN steps : i \in DOMAIN c.uids /\ c.sure => steps[i].uid = c.uids[i]
    BY <1>5 DEF BuilderInv, SureIsSure
  <2>3. /\ steps' = [i \in DOMAIN steps |-> steps'[i]]
        /\ \A i \in DOMAIN steps :
              steps'[i] = IF i <= k THEN Put(i, c.uids[i], c.sure) ELSE steps[i]
    BY <1>5
  <2>4. \A i \in DOMAIN steps :
           \/ steps'[i] = steps[i]
           \/ \E of \in Nat, sure \in BOOLEAN :
                 steps'[i] = Put(i, of, sure) /\ (sure => of = steps[i].uid)
    BY <2>1, <2>2, <2>3
  <2>. QED
    BY <2>3, <2>4, ResultFacts
<1>. QED
  BY <1>3, <1>4, <1>5 DEF StepAnswered, AllAnswered

LEMMA ReceiveKeepsBuilder ==
  ASSUME BuilderInv, NEW c \in calls, Receive(c)
  PROVE  BuilderInv'
<1>1. /\ UNCHANGED <<stepSeq, activeStepId, shown, tabs, dialog, drag, made, clicks>>
      /\ clicks' \in 0..MaxClicks
  BY DEF Receive, BuilderInv, BuilderTypeOK
<1>2. c \in CallType /\ (c.kind = "step" => Len(c.uids) = 1)
  BY DEF BuilderInv, BuilderTypeOK
<1>3. /\ steps' \in Seq(StepType) /\ Len(steps') = Len(steps)
      /\ DOMAIN steps' = DOMAIN steps
      /\ \A i \in 1..Len(steps) : steps'[i].id = steps[i].id /\ steps'[i].uid = steps[i].uid
      /\ ResultOfItsStep'
  <2>1. CASE StepAnswered(c) \/ AllAnswered(c)
    BY <2>1, AnswerKeepsSteps
  <2>2. CASE UNCHANGED steps
    BY <2>2, FormFacts DEF BuilderInv, ResultOfItsStep
  <2>. QED
    BY <2>1, <2>2 DEF Receive, StepOver, Saved
<1>4. /\ cards' \in Seq(CardType) /\ Len(cards') = Len(steps)
      /\ \A i \in 1..Len(steps) : cards'[i].id = cards[i].id
  <2>1. CASE UNCHANGED cards
    BY <2>1, FormFacts
  <2>2. CASE Busy(c.uids[1], FALSE)
    <3> DEFINE uid == c.uids[1]
    <3>1. Busy(uid, FALSE)
      BY <2>2
    <3>. HIDE DEF uid
    <3>. QED
      BY <3>1, BusyFacts
  <2>. QED
    BY <2>1, <2>2 DEF Receive, StepAnswered, StepOver, AllAnswered, Saved
<1> DEFINE waiting == [c EXCEPT !.phase = "waiting"]
<1>5. waiting \in CallType /\ waiting.kind = c.kind /\ waiting.uids = c.uids
  BY <1>2 DEF CallType
<1>6. \/ calls' = calls \ {c}
      \/ c.kind = "step" /\ calls' = (calls \ {c}) \cup {waiting}
  <2>1. StepAnswered(c) => c.kind = "step" /\ calls' = (calls \ {c}) \cup {waiting}
    BY Zenon DEF StepAnswered
  <2>2. StepOver(c) \/ AllAnswered(c) \/ Saved(c) => calls' = calls \ {c}
    BY Zenon DEF StepOver, AllAnswered, Saved
  <2>. QED
    BY <2>1, <2>2 DEF Receive
<1>. HIDE DEF waiting
<1>7. /\ \A d \in calls' : d \in CallType /\ (d.kind = "step" => Len(d.uids) = 1)
      /\ \A d \in calls' : d \in calls \/ d.kind # "all"
  BY <1>2, <1>5, <1>6 DEF BuilderInv, BuilderTypeOK
<1>8. SureIsSure'
  <2>1. \A i \in DOMAIN steps : steps'[i].uid = steps[i].uid
    BY <1>3, FormFacts
  <2>. QED
    BY <1>3, <1>7, <2>1, SureStays
<1>9. {runAllBtn', saveBtn'} \subseteq BOOLEAN
  BY DEF Receive, StepAnswered, StepOver, AllAnswered, Saved, BuilderInv, BuilderTypeOK
<1>. QED
  BY <1>1, <1>3, <1>4, <1>7, <1>8, <1>9, QuietKeepsBuilder

-----------------------------------------------------------------------------
LEMMA NextKeepsBuilder == BuilderInv /\ [Next]_vars => BuilderInv'
<1> SUFFICES ASSUME BuilderInv, [Next]_vars PROVE BuilderInv'
  OBVIOUS
<1>1. CASE UNCHANGED vars
  BY <1>1, AsideKeepsBuilder DEF vars, BuilderInv, BuilderTypeOK
<1>2. CASE AddStep \/ CloseDialog \/ ClickBuilder
  BY <1>2, AddStepKeepsBuilder, CloseDialogKeepsBuilder, ClickBuilderKeepsBuilder
<1>3. CASE RunAll \/ SaveTC
  BY <1>3, SendAllKeepsBuilder
<1>4. ASSUME NEW s \in ToSet(steps), AskRemove(s) \/ RunStep(s) PROVE BuilderInv'
  BY <1>4, HoverKeepsBuilder, RunStepKeepsBuilder
<1>5. ASSUME NEW dir \in {-1, 1}, MoveStep(dir) PROVE BuilderInv'
  BY <1>5, MoveStepKeepsBuilder
<1>6. ASSUME NEW id \in ToSet(tabs.ids),
             ClickTab(id) \/ DragStart(id) \/ \E before \in BOOLEAN : DragOver(id, before)
      PROVE  BuilderInv'
  BY <1>6, ClickTabKeepsBuilder, HoverKeepsBuilder
<1>7. CASE DragLeave \/ DragEnd
  BY <1>7, HoverKeepsBuilder
<1>8. CASE Drop
  BY <1>8, DropKeepsBuilder
<1>9. ASSUME NEW n \in Opened, LoadInBuilder(n) PROVE BuilderInv'
  BY <1>9, LoadKeepsBuilder
<1>10. ASSUME NEW c \in calls, Receive(c) PROVE BuilderInv'
  BY <1>10, ReceiveKeepsBuilder
<1>. QED
  BY <1>1, <1>2, <1>3, <1>4, <1>5, <1>6, <1>7, <1>8, <1>9, <1>10 DEF Next

LEMMA BuilderInvHolds == Spec => []BuilderInv
<1>. QED
  BY BuilderInit, NextKeepsBuilder, PTL DEF Spec

\* Every variable of the builder keeps its type; a run of one step is for one step.
THEOREM BuilderTypeSafe == Spec => []BuilderTypeOK
<1>1. BuilderInv => BuilderTypeOK
  BY DEF BuilderInv
<1>. QED
  BY <1>1, BuilderInvHolds, PTL

\* Steps, cards and tabs are in one order, no two steps share a number, and the
\* step marked active is one of them.
THEOREM TabsStayInOrder == Spec => []TabsMatchSteps
<1>1. BuilderInv => TabsMatchSteps
  BY DEF BuilderInv
<1>. QED
  BY <1>1, BuilderInvHolds, PTL

\* The result of a run of one step is shown on that step, whatever was added, removed,
\* moved and opened meanwhile, and so are those of a run of all steps unless a step
\* left its place while they ran (app.js:3157, 3610).
THEOREM ResultStaysOnItsStep == Spec => []ResultOfItsStep
<1>1. BuilderInv => ResultOfItsStep
  BY DEF BuilderInv
<1>. QED
  BY <1>1, BuilderInvHolds, PTL

\* The place a drop asks for exists, and the step ends up there, beside the step
\* whose tab was marked.
LEMMA DropPlaces ==
  ASSUME NEW n \in Nat, NEW from \in 1..n, NEW target \in 1..n, from # target,
         NEW before \in BOOLEAN
  PROVE  /\ DropIndex(from, target, before) \in 1..n
         /\ Bounded(DropIndex(from, target, before), n) = DropIndex(from, target, before)
         /\ Shifted(DropIndex(from, target, before), from,
                    DropIndex(from, target, before)) = from
         /\ \E k \in 1..n : /\ Shifted(k, from, DropIndex(from, target, before)) = target
                            /\ DropIndex(from, target, before) = k + (IF before THEN -1 ELSE 1)
<1> DEFINE to == DropIndex(from, target, before)
<1>1. to = IF before THEN IF from < target THEN target - 1 ELSE target
           ELSE IF from < target THEN target ELSE target + 1
  BY DEF DropIndex
<1>2. to \in 1..n
  BY <1>1
<1> DEFINE k == IF from < target
                THEN IF before THEN target ELSE target - 1
                ELSE IF before THEN target + 1 ELSE target
<1>3. k \in 1..n /\ to = k + (IF before THEN -1 ELSE 1)
  BY <1>1
<1>4. Shifted(k, from, to) = target
  BY <1>1, <1>2, <1>3 DEF Shifted
<1>. HIDE DEF k
<1>. HIDE DEF to
<1>5. Bounded(to, n) = to /\ Shifted(to, from, to) = from
  BY <1>2 DEF Bounded, Shifted
<1>. QED
  BY <1>2, <1>3, <1>4, <1>5 DEF to

\* A drop puts the step right before or after the tab that was marked.
THEOREM DropLandsBeside == Spec => DropNextToTarget
<1>1. BuilderInv /\ BuilderInv' /\ [Next]_vars =>
        [drag.over # None /\ drag' = NotDragging /\ steps' # steps =>
         LET at(id) == CHOOSE i \in DOMAIN steps' : steps'[i].id = id
         IN  at(drag.id) = at(drag.over.id) + (IF drag.over.before THEN -1 ELSE 1)]_vars
  <2> DEFINE at(id) == CHOOSE i \in DOMAIN steps' : steps'[i].id = id
             n == Len(steps)
             from == IndexOf(drag.id)
             target == IndexOf(drag.over.id)
             to == DropIndex(from, target, drag.over.before)
  <2> SUFFICES ASSUME BuilderInv, BuilderInv', Next,
                      drag.over # None, drag' = NotDragging, steps' # steps
               PROVE  at(drag.id) = at(drag.over.id) + (IF drag.over.before THEN -1 ELSE 1)
    OBVIOUS
  <2>1. Drop
    <3>1. drag' # drag
      BY DEF NotDragging
    <3>. QED
      BY <3>1 DEF Next, AddStep, CloseDialog, ClickBuilder, RunAll, SaveTC, AskRemove, RunStep,
                  MoveStep, ClickTab, DragStart, DragOver, DragLeave, DragEnd, LoadInBuilder,
                  Receive, form
  <2>2. /\ from \in 1..n /\ target \in 1..n /\ n \in Nat
        /\ steps[from].id = drag.id /\ steps[target].id = drag.over.id
        /\ from # target /\ MoveStepTo(drag.id, to) /\ steps # <<>>
    <3>1. from # 0 /\ target # 0 /\ drag.id # drag.over.id /\ MoveStepTo(drag.id, to)
      BY <2>1 DEF Drop
    <3>. QED
      BY <3>1, FormFacts, IndexFacts DEF IndexOf
  <2>3. drag.over.before \in BOOLEAN
    BY DEF BuilderInv, BuilderTypeOK
  <2>4. /\ \A i, j \in 1..n : steps'[i].id = steps'[j].id => i = j
        /\ DOMAIN steps' = 1..n
        /\ Reordered(from, Bounded(to, n))
    <3>1. to \in Int
      BY <2>2 DEF DropIndex
    <3>2. Reordered(from, Bounded(to, n))
      <4>. HIDE DEF to
      <4>. QED
        BY <2>2, <3>1, MoveFacts
    <3>3. steps' \in Seq(StepType) /\ Len(steps') = n
      BY <3>2 DEF Reordered
    <3>4. /\ DOMAIN IdsOf(steps') = 1..n
          /\ \A i \in 1..n : IdsOf(steps')[i] = steps'[i].id
      BY <3>3, IdsFacts
    <3>5. IsInjective(IdsOf(steps'))
      BY DEF BuilderInv, TabsMatchSteps
    <3>. QED
      BY <3>2, <3>3, <3>4, <3>5 DEF IsInjective
  <2>. HIDE DEF n, from, target, at
  <2>5. /\ to \in 1..n /\ Bounded(to, n) = to /\ Shifted(to, from, to) = from
        /\ \E k \in 1..n : /\ Shifted(k, from, to) = target
                           /\ to = k + (IF drag.over.before THEN -1 ELSE 1)
    <3> DEFINE before == drag.over.before
    <3>1. before \in BOOLEAN /\ to = DropIndex(from, target, before)
      BY <2>3
    <3>. HIDE DEF before, to
    <3>2. /\ DropIndex(from, target, before) \in 1..n
          /\ Bounded(DropIndex(from, target, before), n) = DropIndex(from, target, before)
          /\ Shifted(DropIndex(from, target, before), from,
                     DropIndex(from, target, before)) = from
          /\ \E k \in 1..n : /\ Shifted(k, from, DropIndex(from, target, before)) = target
                             /\ DropIndex(from, target, before) =
                                   k + (IF before THEN -1 ELSE 1)
      BY <2>2, <3>1, DropPlaces
    <3>. QED
      BY <3>1, <3>2 DEF before
  <2>. HIDE DEF to
  <2>6. PICK k \in 1..n : /\ Shifted(k, from, to) = target
                          /\ to = k + (IF drag.over.before THEN -1 ELSE 1)
    BY <2>5
  <2>7. steps'[to].id = drag.id /\ steps'[k].id = drag.over.id
    <3>1. \A i \in 1..n : steps'[i] = steps[Shifted(i, from, to)]
      BY <2>4, <2>5 DEF Reordered, n
    <3>. QED
      BY <2>2, <2>5, <2>6, <3>1
  <2>8. at(drag.id) = to
    BY <2>4, <2>5, <2>7 DEF at
  <2>9. at(drag.over.id) = k
    BY <2>4, <2>6, <2>7 DEF at
  <2>. QED
    BY <2>6, <2>8, <2>9
<1>. QED
  BY <1>1, BuilderInvHolds, PTL DEF Spec, DropNextToTarget
=============================================================================
