------------------------- MODULE BatchRunnerProofs -------------------------
(***************************************************************************)
(* For every set of test cases and every number of clicks on "Run          *)
(* selected", however many batches run over one another: no selected item  *)
(* is skipped unless somebody asked to stop, nothing is begun after a      *)
(* stop, and batches that follow one another show each verdict in the row  *)
(* of its own item.                                                        *)
(*                                                                         *)
(* What carries the first is that unfinished work always has a chain: an   *)
(* item that is marked running is the one some chain waits for, and as     *)
(* long as an item is not begun some chain is going to look for it.        *)
(***************************************************************************)
EXTENDS BatchRunner, SequenceTheorems, FiniteSetTheorems, WellFoundedInduction, TLAPS

Status == {"none", "running"} \cup Final

Row == [item : Item, status : Status]

Counters == [total : Nat, passed : Nat, failed : Nat, pending : Nat]

BatchTypeOK ==
    /\ running \in BOOLEAN /\ stopRequested \in BOOLEAN /\ overlapped \in BOOLEAN
    /\ queue \in Seq(Item)
    /\ results \in [Item -> Status]
    /\ stage \in [Chain -> {"new", "fetch", "timer", "ended"}]
    /\ item \in [Chain -> Item \cup {None}]
    /\ row \in [Chain -> Nat]
    /\ rows \in Seq(Row)
    /\ stats \in Counters
    /\ stopButton \in {"ready", "disabled"}

Active(c) == stage[c] \in {"fetch", "timer"}

\* Every piece of work that is not done has a chain.
WorkHasChain ==
    /\ \A c \in Chain : stage[c] = "fetch" => item[c] \in Item
    /\ \A x \in Item : results[x] = "running" =>
          \E c \in Chain : stage[c] = "fetch" /\ item[c] = x
    /\ ~stopRequested /\ Unstarted(queue, results) # {} => \E c \in Chain : Active(c)

\* A chain alone: the row it took is its item's.
RowsInOrder ==
    /\ \A c, d \in Chain : Active(c) /\ Active(d) => c = d
    /\ \A c \in Chain : stage[c] = "fetch" =>
          row[c] \in DOMAIN queue /\ queue[row[c]] = item[c]
    /\ DOMAIN rows = DOMAIN queue
    /\ \A k \in DOMAIN rows : rows[k] = [item |-> queue[k], status |-> results[queue[k]]]

BatchInv ==
    /\ BatchTypeOK
    /\ \A i, j \in DOMAIN queue : queue[i] = queue[j] => i = j
    /\ WorkHasChain
    /\ ~overlapped => RowsInOrder
-----------------------------------------------------------------------------
Below == {ss \in Nat \X Nat : ss[1] < ss[2]}

\* A set of positions has a first one.
LEMMA MinOfPositions ==
  ASSUME NEW S \in SUBSET Nat, S # {}
  PROVE  Min(S) \in S
<1>1. IsWellFoundedOn(Below, Nat)
  BY NatLessThanWellFounded DEF OpToRel, Below
<1>2. PICK m \in S : \A k \in S : ~ (<<k, m>> \in Below)
  BY <1>1, WFMin
<1>3. \A k \in S : m =< k
  <2> SUFFICES ASSUME NEW k \in S, k < m PROVE FALSE
    OBVIOUS
  <2>1. <<k, m>> \in Below
    BY DEF Below
  <2>. QED
    BY <1>2, <2>1
<1>. QED
  BY <1>3 DEF Min

\* The counters are numbers.
LEMMA StatsType ==
  ASSUME NEW q \in Seq(Item), NEW res
  PROVE  Stats(q, res) \in Counters
<1>1. IsFiniteSet(1..Len(q)) /\ DOMAIN q = 1..Len(q) /\ Len(q) \in Nat
  BY FS_Interval
<1>2. \A T \in SUBSET (DOMAIN q) : Cardinality(T) \in Nat
  BY <1>1, FS_Subset, FS_CardinalityType
<1>. QED
  BY <1>1, <1>2 DEF Stats, Counters

\* What a selection is: test cases, none of them twice.
LEMMA SelectionFacts ==
  ASSUME NEW q \in Selections
  PROVE  /\ q \in Seq(Item)
         /\ \A i, j \in DOMAIN q : q[i] = q[j] => i = j
<1>1. Cardinality(Item) \in Nat
  BY BatchAssumption, FS_CardinalityType
<1>2. PICK n \in 1..Cardinality(Item) : q \in [1..n -> Item]
  BY DEF Selections
<1>. QED
  BY <1>1, <1>2 DEF Selections

\* The chain finds nothing to begin.
Ends(c, q, res, list, stop) ==
    /\ Unstarted(q, res) = {} \/ stop
    /\ running' = FALSE /\ stopButton' = "disabled" /\ stats' = Stats(q, res)
    /\ results' = res /\ rows' = list
    /\ stage' = [stage EXCEPT ![c] = "ended"]
    /\ UNCHANGED <<item, row>>

\* The chain marks item k and draws it in its row.
Takes(c, q, res, list, counts, on, stop, button, k) ==
    /\ res[q[k]] = "none" /\ ~stop
    /\ running' = on /\ stopButton' = button /\ stats' = counts
    /\ results' = [res EXCEPT ![q[k]] = "running"]
    /\ rows' = Draw(list, k, q[k], results')
    /\ stage' = [stage EXCEPT ![c] = "fetch"]
    /\ item' = [item EXCEPT ![c] = q[k]]
    /\ row' = [row EXCEPT ![c] = k]

\* Looking for the next item is one or the other.
LEMMA ExecuteCases ==
  ASSUME NEW c \in Chain, NEW q \in Seq(Item), NEW res \in [Item -> Status],
         NEW list, NEW counts, NEW on, NEW stop, NEW button,
         ExecuteNext(c, q, res, list, counts, on, stop, button)
  PROVE  \/ Ends(c, q, res, list, stop)
         \/ \E k \in DOMAIN q : Takes(c, q, res, list, counts, on, stop, button, k)
<1> DEFINE k == Min(Unstarted(q, res))
<1>1. CASE Unstarted(q, res) = {} \/ stop
  BY <1>1 DEF ExecuteNext, Ends
<1>2. CASE ~ (Unstarted(q, res) = {} \/ stop)
  <2>1. Unstarted(q, res) \in SUBSET Nat
    BY DEF Unstarted
  <2>2. k \in Unstarted(q, res)
    BY <1>2, <2>1, MinOfPositions
  <2>3. k \in DOMAIN q /\ res[q[k]] = "none"
    BY <2>2 DEF Unstarted
  <2>. QED
    BY <1>2, <2>3 DEF ExecuteNext, Takes
<1>. QED
  BY <1>1, <1>2

LEMMA DrawType ==
  ASSUME NEW list \in Seq(Row), NEW k, NEW it \in Item, NEW res \in [Item -> Status]
  PROVE  Draw(list, k, it, res) \in Seq(Row)
<1>1. [item |-> it, status |-> res[it]] \in Row
  BY DEF Row
<1>. QED
  BY <1>1 DEF Draw

LEMMA ExecuteType ==
  ASSUME BatchTypeOK,
         NEW c \in Chain, NEW q \in Seq(Item), NEW res \in [Item -> Status],
         NEW list \in Seq(Row), NEW counts \in Counters, NEW on \in BOOLEAN,
         NEW stop, NEW button \in {"ready", "disabled"},
         ExecuteNext(c, q, res, list, counts, on, stop, button),
         stopRequested' \in BOOLEAN, overlapped' \in BOOLEAN, queue' \in Seq(Item)
  PROVE  BatchTypeOK'
<1>1. CASE Ends(c, q, res, list, stop)
  <2>1. stats' \in Counters
    BY <1>1, StatsType DEF Ends
  <2>. QED
    BY <1>1, <2>1 DEF Ends, BatchTypeOK
<1>2. ASSUME NEW k \in DOMAIN q, Takes(c, q, res, list, counts, on, stop, button, k)
      PROVE  BatchTypeOK'
  <2>1. q[k] \in Item /\ k \in Nat
    OBVIOUS
  <2>2. results' \in [Item -> Status]
    BY <1>2, <2>1 DEF Takes, Status
  <2>3. rows' \in Seq(Row)
    BY <1>2, <2>1, <2>2, DrawType DEF Takes
  <2>4. /\ item' \in [Chain -> Item \cup {None}] /\ row' \in [Chain -> Nat]
        /\ stage' \in [Chain -> {"new", "fetch", "timer", "ended"}]
    BY <1>2, <2>1 DEF Takes, BatchTypeOK
  <2>. QED
    BY <1>2, <2>2, <2>3, <2>4 DEF Takes, BatchTypeOK
<1>. QED
  BY <1>1, <1>2, ExecuteCases

\* A chain that looks for its next item leaves no work without a chain.
LEMMA ExecuteKeepsWork ==
  ASSUME BatchTypeOK,
         NEW c \in Chain, NEW q \in Seq(Item), NEW res \in [Item -> Status],
         NEW list, NEW counts, NEW on, NEW stop, NEW button,
         ExecuteNext(c, q, res, list, counts, on, stop, button),
         queue' = q, stopRequested' = stop,
         \A d \in Chain \ {c} : stage[d] = "fetch" => item[d] \in Item,
         \A x \in Item : res[x] = "running" =>
            \E d \in Chain \ {c} : stage[d] = "fetch" /\ item[d] = x
  PROVE  WorkHasChain'
<1>1. CASE Ends(c, q, res, list, stop)
  <2>1. stage'[c] = "ended" /\ \A d \in Chain \ {c} : stage'[d] = stage[d]
    BY <1>1 DEF Ends, BatchTypeOK
  <2>2. results' = res /\ item' = item
    BY <1>1 DEF Ends
  <2>3. ~stopRequested' => Unstarted(queue', results') = {}
    BY <1>1 DEF Ends
  <2>. QED
    BY <2>1, <2>2, <2>3 DEF WorkHasChain
<1>2. ASSUME NEW k \in DOMAIN q, Takes(c, q, res, list, counts, on, stop, button, k)
      PROVE  WorkHasChain'
  <2>1. q[k] \in Item
    OBVIOUS
  <2>2. stage'[c] = "fetch" /\ item'[c] = q[k]
    BY <1>2 DEF Takes, BatchTypeOK
  <2>3. \A d \in Chain \ {c} : stage'[d] = stage[d] /\ item'[d] = item[d]
    BY <1>2 DEF Takes, BatchTypeOK
  <2>4. \A x \in Item \ {q[k]} : results'[x] = res[x]
    BY <1>2, <2>1 DEF Takes
  <2>. QED
    BY <2>1, <2>2, <2>3, <2>4 DEF WorkHasChain, Active
<1>. QED
  BY <1>1, <1>2, ExecuteCases

\* A chain that is alone draws the item it takes in that item's row.
LEMMA ExecuteKeepsRows ==
  ASSUME BatchTypeOK,
         NEW c \in Chain, NEW q \in Seq(Item), NEW res \in [Item -> Status],
         NEW list \in Seq(Row), NEW counts, NEW on, NEW stop, NEW button,
         ExecuteNext(c, q, res, list, counts, on, stop, button),
         queue' = q,
         \A i, j \in DOMAIN q : q[i] = q[j] => i = j,
         \A d \in Chain \ {c} : ~Active(d),
         DOMAIN list = DOMAIN q,
         \A k \in DOMAIN list : list[k] = [item |-> q[k], status |-> res[q[k]]]
  PROVE  RowsInOrder'
<1>1. CASE Ends(c, q, res, list, stop)
  <2>1. \A d \in Chain : ~Active(d)'
    BY <1>1 DEF Ends, BatchTypeOK, Active
  <2>. QED
    BY <1>1, <2>1 DEF Ends, RowsInOrder, Active
<1>2. ASSUME NEW k \in DOMAIN q, Takes(c, q, res, list, counts, on, stop, button, k)
      PROVE  RowsInOrder'
  <2>1. \A d \in Chain : Active(d)' => d = c
    BY <1>2 DEF Takes, BatchTypeOK, Active
  <2>2. row'[c] = k /\ item'[c] = q[k]
    BY <1>2 DEF Takes, BatchTypeOK
  <2>3. DOMAIN rows' = DOMAIN q
    BY <1>2 DEF Takes, Draw
  <2>4. \A i \in DOMAIN q : rows'[i] = [item |-> q[i], status |-> results'[q[i]]]
    <3> SUFFICES ASSUME NEW i \in DOMAIN q
                 PROVE  rows'[i] = [item |-> q[i], status |-> results'[q[i]]]
      OBVIOUS
    <3>1. CASE i = k
      BY <1>2, <3>1 DEF Takes, Draw
    <3>2. CASE i # k
      <4>1. q[i] # q[k] /\ q[i] \in Item /\ q[k] \in Item
        BY <3>2
      <4>2. results'[q[i]] = res[q[i]] /\ rows'[i] = list[i]
        BY <1>2, <3>2, <4>1 DEF Takes, Draw
      <4>. QED
        BY <4>2
    <3>. QED
      BY <3>1, <3>2
  <2>. QED
    BY <2>1, <2>2, <2>3, <2>4 DEF RowsInOrder, Active
<1>. QED
  BY <1>1, <1>2, ExecuteCases
-----------------------------------------------------------------------------
LEMMA BatchInit == Init => BatchInv
<1> SUFFICES ASSUME Init PROVE BatchInv
  OBVIOUS
<1>1. stats \in Counters
  <2>1. stats = Stats(<<>>, results) /\ <<>> \in Seq(Item)
    BY DEF Init
  <2>. QED
    BY <2>1, StatsType
<1>2. /\ queue \in Seq(Item) /\ rows \in Seq(Row)
      /\ DOMAIN queue = {} /\ DOMAIN rows = {}
  BY DEF Init
<1>3. BatchTypeOK
  BY <1>1, <1>2 DEF Init, BatchTypeOK, Status
<1>4. WorkHasChain
  BY <1>2 DEF Init, WorkHasChain, Unstarted
<1>5. RowsInOrder
  BY <1>2 DEF Init, RowsInOrder, Active
<1>. QED
  BY <1>2, <1>3, <1>4, <1>5 DEF BatchInv

\* A new batch forgets the results of the last one, whoever still works on it.
LEMMA StartKeepsBatch ==
  ASSUME BatchInv, NEW c \in Chain, NEW selected \in Selections,
         StartBatchRun(c, selected)
  PROVE  BatchInv'
<1> DEFINE cleared == [i \in Item |-> "none"]
           list == [k \in DOMAIN selected |-> [item |-> selected[k], status |-> "none"]]
           counts == Stats(selected, cleared)
<1>1. /\ selected \in Seq(Item)
      /\ \A i, j \in DOMAIN selected : selected[i] = selected[j] => i = j
  BY SelectionFacts
<1>2. /\ queue' = selected /\ stopRequested' = FALSE
      /\ overlapped' = (overlapped \/ Overlaps)
      /\ ExecuteNext(c, selected, cleared, list, counts, TRUE, FALSE, "ready")
      /\ stage[c] = "new"
  BY DEF StartBatchRun
<1>3. BatchTypeOK /\ overlapped' \in BOOLEAN
  BY <1>2 DEF BatchInv, BatchTypeOK
<1>4. cleared \in [Item -> Status]
  BY DEF Status
<1>5. list \in Seq(Row)
  <2>1. /\ DOMAIN selected = 1..Len(selected) /\ Len(selected) \in Nat
        /\ \A k \in DOMAIN selected : [item |-> selected[k], status |-> "none"] \in Row
    BY <1>1 DEF Row, Status
  <2>. QED
    BY <2>1
<1>6. /\ counts \in Counters
      /\ \A x \in Item : cleared[x] # "running"
      /\ DOMAIN list = DOMAIN selected
      /\ \A k \in DOMAIN list :
            list[k] = [item |-> selected[k], status |-> cleared[selected[k]]]
  BY <1>1, StatsType
<1>. HIDE DEF cleared, list, counts
<1>7. BatchTypeOK'
  BY <1>1, <1>2, <1>3, <1>4, <1>5, <1>6, ExecuteType
<1>8. WorkHasChain'
  <2>1. \A d \in Chain \ {c} : stage[d] = "fetch" => item[d] \in Item
    BY DEF BatchInv, WorkHasChain
  <2>2. \A x \in Item : cleared[x] = "running" =>
           \E d \in Chain \ {c} : stage[d] = "fetch" /\ item[d] = x
    BY <1>6
  <2>. QED
    BY <1>1, <1>2, <1>3, <1>4, <2>1, <2>2, ExecuteKeepsWork
<1>9. ~overlapped' => RowsInOrder'
  BY <1>1, <1>2, <1>3, <1>4, <1>5, <1>6, ExecuteKeepsRows DEF Overlaps, Active
<1>. QED
  BY <1>1, <1>2, <1>7, <1>8, <1>9 DEF BatchInv

\* The chain whose timer fires waits for no run.
LEMMA TimerKeepsBatch ==
  ASSUME BatchInv, NEW c \in Chain, Timer(c)
  PROVE  BatchInv'
<1>1. /\ ExecuteNext(c, queue, results, rows, stats, running, stopRequested, stopButton)
      /\ UNCHANGED <<stopRequested, queue, overlapped>>
      /\ stage[c] = "timer"
  BY DEF Timer
<1>2. /\ BatchTypeOK /\ queue \in Seq(Item) /\ results \in [Item -> Status]
      /\ rows \in Seq(Row) /\ stats \in Counters /\ running \in BOOLEAN
      /\ stopButton \in {"ready", "disabled"}
      /\ stopRequested' \in BOOLEAN /\ overlapped' \in BOOLEAN /\ queue' \in Seq(Item)
      /\ \A i, j \in DOMAIN queue : queue[i] = queue[j] => i = j
  BY <1>1 DEF BatchInv, BatchTypeOK
<1>3. BatchTypeOK'
  BY <1>1, <1>2, ExecuteType
<1>4. WorkHasChain'
  <2>1. \A x \in Item : results[x] = "running" =>
           \E d \in Chain \ {c} : stage[d] = "fetch" /\ item[d] = x
    BY <1>1 DEF BatchInv, WorkHasChain
  <2>2. \A d \in Chain \ {c} : stage[d] = "fetch" => item[d] \in Item
    BY DEF BatchInv, WorkHasChain
  <2>. QED
    BY <1>1, <1>2, <2>1, <2>2, ExecuteKeepsWork
<1>5. ~overlapped' => RowsInOrder'
  <2> SUFFICES ASSUME ~overlapped PROVE RowsInOrder'
    BY <1>1
  <2>1. RowsInOrder
    BY DEF BatchInv
  <2>2. \A d \in Chain \ {c} : ~Active(d)
    BY <1>1, <2>1 DEF RowsInOrder, Active
  <2>. QED
    BY <1>1, <1>2, <2>1, <2>2, ExecuteKeepsRows DEF RowsInOrder
<1>. QED
  BY <1>1, <1>2, <1>3, <1>4, <1>5 DEF BatchInv

\* The verdict goes to the item the chain took, and to the row it took with it.
LEMMA SettledKeepsBatch ==
  ASSUME BatchInv, NEW c \in Chain, NEW status \in Final, ItemSettled(c, status)
  PROVE  BatchInv'
<1>1. /\ stage[c] = "fetch"
      /\ results' = [results EXCEPT ![item[c]] = status]
      /\ rows' = Draw(rows, row[c], item[c], results')
      /\ stats' = Stats(queue, results')
      /\ stage' = [stage EXCEPT ![c] = "timer"]
      /\ UNCHANGED <<running, stopRequested, queue, item, row, stopButton, overlapped>>
  BY DEF ItemSettled
<1>2. BatchTypeOK /\ item[c] \in Item /\ queue \in Seq(Item)
  BY <1>1 DEF BatchInv, WorkHasChain, BatchTypeOK
<1>3. results' \in [Item -> Status]
  BY <1>1, <1>2 DEF BatchTypeOK, Status
<1>4. rows' \in Seq(Row) /\ stats' \in Counters
  BY <1>1, <1>2, <1>3, DrawType, StatsType DEF BatchTypeOK
<1>5. BatchTypeOK'
  BY <1>1, <1>2, <1>3, <1>4 DEF BatchTypeOK
<1>6. /\ stage'[c] = "timer" /\ \A d \in Chain \ {c} : stage'[d] = stage[d]
      /\ results'[item[c]] \in Final
      /\ \A x \in Item \ {item[c]} : results'[x] = results[x]
  BY <1>1, <1>2 DEF BatchTypeOK
<1>7. WorkHasChain'
  BY <1>1, <1>2, <1>6 DEF BatchInv, WorkHasChain, Active, Final
<1>8. ~overlapped' => RowsInOrder'
  <2> SUFFICES ASSUME ~overlapped PROVE RowsInOrder'
    BY <1>1
  <2>1. RowsInOrder /\ row[c] \in DOMAIN queue /\ queue[row[c]] = item[c]
    BY <1>1 DEF BatchInv, RowsInOrder
  <2>2. \A d, e \in Chain : Active(d)' /\ Active(e)' => d = e
    BY <1>1, <1>6, <2>1 DEF RowsInOrder, Active
  <2>3. \A d \in Chain : stage'[d] = "fetch" =>
          row'[d] \in DOMAIN queue' /\ queue'[row'[d]] = item'[d]
    BY <1>1, <1>6, <2>1 DEF RowsInOrder
  <2>4. DOMAIN rows' = DOMAIN queue'
    BY <1>1, <2>1 DEF RowsInOrder, Draw
  <2>5. \A i \in DOMAIN queue : rows'[i] = [item |-> queue[i], status |-> results'[queue[i]]]
    <3> SUFFICES ASSUME NEW i \in DOMAIN queue
                 PROVE  rows'[i] = [item |-> queue[i], status |-> results'[queue[i]]]
      OBVIOUS
    <3>1. CASE i = row[c]
      BY <1>1, <2>1, <3>1 DEF Draw, RowsInOrder
    <3>2. CASE i # row[c]
      <4>1. queue[i] \in Item \ {item[c]}
        BY <1>2, <2>1, <3>2 DEF BatchInv
      <4>2. rows'[i] = rows[i]
        BY <1>1, <2>1, <3>2 DEF Draw, RowsInOrder
      <4>. QED
        BY <1>6, <2>1, <4>1, <4>2 DEF RowsInOrder
    <3>. QED
      BY <3>1, <3>2
  <2>. QED
    BY <1>1, <2>2, <2>3, <2>4, <2>5 DEF RowsInOrder
<1>. QED
  BY <1>1, <1>5, <1>7, <1>8 DEF BatchInv

LEMMA NextKeepsBatch == BatchInv /\ [Next]_vars => BatchInv'
<1> SUFFICES ASSUME BatchInv, [Next]_vars PROVE BatchInv'
  OBVIOUS
<1>1. CASE Stop
  <2>1. /\ stopRequested' = TRUE /\ stopButton' = "disabled"
        /\ UNCHANGED <<running, queue, results, stage, item, row, rows, stats, overlapped>>
    BY <1>1 DEF Stop
  <2>. QED
    BY <2>1 DEF BatchInv, BatchTypeOK, WorkHasChain, RowsInOrder, Active
<1>2. ASSUME NEW c \in Chain, NEW selected \in Selections, StartBatchRun(c, selected)
      PROVE  BatchInv'
  BY <1>2, StartKeepsBatch
<1>3. ASSUME NEW c \in Chain, NEW status \in Final, ItemSettled(c, status)
      PROVE  BatchInv'
  BY <1>3, SettledKeepsBatch
<1>4. ASSUME NEW c \in Chain, Timer(c) PROVE BatchInv'
  BY <1>4, TimerKeepsBatch
<1>5. CASE UNCHANGED vars
  BY <1>5 DEF vars, BatchInv, BatchTypeOK, WorkHasChain, RowsInOrder, Active
<1>. QED
  BY <1>1, <1>2, <1>3, <1>4, <1>5 DEF Next

-----------------------------------------------------------------------------
\* The state of the batch tab keeps its types: a row is never drawn for no item, and
\* a chain that waits has one.
THEOREM BatchTypeSafe == Spec => []BatchTypeOK
<1>1. BatchInv => BatchTypeOK
  BY DEF BatchInv
<1>. QED
  BY <1>1, BatchInit, NextKeepsBatch, PTL DEF Spec

\* When no chain is left and nobody asked to stop, every selected item has a
\* verdict, however many batches were started over one another
\* (app.js:1400, 1422-1431, 1475).
THEOREM BatchSkipsNothing == Spec => []NothingSkipped
<1>1. BatchInv => NothingSkipped
  <2> SUFFICES ASSUME BatchInv, AtRest, ~stopRequested, NEW k \in DOMAIN queue
               PROVE  results[queue[k]] \in Final
    BY DEF NothingSkipped
  <2>1. \A c \in Chain : ~Active(c)
    BY DEF AtRest, Active
  <2>2. queue[k] \in Item
    BY DEF BatchInv, BatchTypeOK
  <2>3. results[queue[k]] # "none"
    BY <2>1 DEF BatchInv, WorkHasChain, Unstarted
  <2>4. results[queue[k]] # "running"
    BY <2>1, <2>2 DEF BatchInv, WorkHasChain, Active
  <2>. QED
    BY <2>2, <2>3, <2>4 DEF BatchInv, BatchTypeOK, Status
<1>. QED
  BY <1>1, BatchInit, NextKeepsBatch, PTL DEF Spec

\* As long as batches follow one another, every row shows the verdict of its own
\* item (app.js:1434, 1480).
THEOREM BatchRowsCurrent == Spec => []RowsCurrent
<1>1. BatchInv => RowsCurrent
  BY DEF BatchInv, RowsInOrder, RowsCurrent
<1>. QED
  BY <1>1, BatchInit, NextKeepsBatch, PTL DEF Spec

\* After a stop no chain, of however many batches, begins another item
\* (app.js:1422).
THEOREM StopIsKept == Spec => StopHolds
<1>1. BatchInv /\ [Next]_vars =>
        [(stopRequested /\ stopRequested') =>
            \A c \in Chain : stage'[c] = "fetch" => stage[c] = "fetch"]_vars
  <2> SUFFICES ASSUME BatchInv, Next, stopRequested, stopRequested',
                      NEW c \in Chain, stage'[c] = "fetch"
               PROVE  stage[c] = "fetch"
    OBVIOUS
  <2>1. CASE Stop
    BY <2>1 DEF Stop
  <2>2. ASSUME NEW d \in Chain, NEW selected \in Selections, StartBatchRun(d, selected)
        PROVE  FALSE
    BY <2>2 DEF StartBatchRun
  <2>3. ASSUME NEW d \in Chain, NEW status \in Final, ItemSettled(d, status)
        PROVE  stage[c] = "fetch"
    BY <2>3 DEF ItemSettled, BatchInv, BatchTypeOK
  <2>4. ASSUME NEW d \in Chain, Timer(d)
        PROVE  stage[c] = "fetch"
    BY <2>4 DEF Timer, ExecuteNext, BatchInv, BatchTypeOK
  <2>. QED
    BY <2>1, <2>2, <2>3, <2>4 DEF Next
<1>. QED
  BY <1>1, BatchInit, NextKeepsBatch, PTL DEF Spec, StopHolds
=============================================================================
