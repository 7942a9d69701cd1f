---------------------------- MODULE BatchRunner ----------------------------
(***************************************************************************)
(* The batch tab of the web UI (internal/api/web/app.js:1374-1561).  One   *)
(* click on "Run selected" starts a chain: executeNextBatchItem takes the  *)
(* first item without a result, awaits its run, and calls itself again     *)
(* 100 ms later.  Every code between two awaits is one step; the chains of *)
(* several clicks interleave at the awaits and share batchState.           *)
(***************************************************************************)
EXTENDS Naturals, Sequences, FiniteSets, SequencesExt

CONSTANTS
    Item,               \* test cases that can be selected
    Chain,              \* one per click on "Run selected"
    None                \* no item yet

ASSUME BatchAssumption == IsFiniteSet(Item) /\ None \notin Item

VARIABLES
    running,            \* batchState.running
    stopRequested,      \* batchState.stopRequested
    queue,              \* batchState.queue
    results,            \* batchState.results; "none" where the map has no entry
    stage,              \* each chain: "new", "fetch", "timer", "ended"
    item,               \* the item and the row a chain took before its await
    row,
    rows,               \* what each row of the list shows: [item, status]
    stats,              \* the counters shown
    stopButton,         \* "ready" or "disabled"
    overlapped          \* history: a batch was started over a running one

vars == <<running, stopRequested, queue, results, stage, item, row, rows, stats,
          stopButton, overlapped>>

Final == {"passed", "failed"}

\* Selections: the keys of selectedCatalogItems, in the order they were picked.
Selections == {s \in UNION {[1..n -> Item] : n \in 1..Cardinality(Item)} :
                  \A i, j \in DOMAIN s : s[i] = s[j] => i = j}

Stats(q, res) ==
    [total |-> Len(q),
     passed |-> Cardinality({k \in DOMAIN q : res[q[k]] = "passed"}),
     failed |-> Cardinality({k \in DOMAIN q : res[q[k]] = "failed"}),
     pending |-> Cardinality({k \in DOMAIN q : res[q[k]] \notin Final})]

\* Mutants: a failed item is taken up again; the search starts after the first.
RetryFailed(q, res) == {k \in DOMAIN q : res[q[k]] \in {"none", "failed"}}

SkipFirst(q, res) == {k \in DOMAIN q : k > 1 /\ res[q[k]] = "none"}

\* The items of the queue without an entry in results.
Unstarted(q, res) == {k \in DOMAIN q : res[q[k]] = "none"}

\* A row that the list no longer has is not drawn.
Draw(list, k, it, res) ==
    IF k \in DOMAIN list THEN [list EXCEPT ![k] = [item |-> it, status |-> res[it]]]
    ELSE list

\* executeNextBatchItem up to its first await.  The parameters are batchState,
\* the list, the counters and the button as the caller left them.
ExecuteNext(c, q, res, list, shown, on, stop, button) ==
    IF Unstarted(q, res) = {} \/ stop
    THEN /\ running' = FALSE
         /\ stopButton' = "disabled"
         /\ stats' = Stats(q, res)
         /\ results' = res
         /\ rows' = list
         /\ stage' = [stage EXCEPT ![c] = "ended"]
         /\ UNCHANGED <<item, row>>
    ELSE LET k == Min(Unstarted(q, res))
             marked == [res EXCEPT ![q[k]] = "running"]
         IN  /\ running' = on
             /\ stopButton' = button
             /\ stats' = shown
             /\ results' = marked
             /\ rows' = Draw(list, k, q[k], marked)
             /\ stage' = [stage EXCEPT ![c] = "fetch"]
             /\ item' = [item EXCEPT ![c] = q[k]]
             /\ row' = [row EXCEPT ![c] = k]

-----------------------------------------------------------------------------
Init ==
    /\ running = FALSE /\ stopRequested = FALSE
    /\ queue = <<>>
    /\ results = [i \in Item |-> "none"]
    /\ stage = [c \in Chain |-> "new"]
    /\ item = [c \in Chain |-> None]
    /\ row = [c \in Chain |-> 0]
    /\ rows = <<>>
    /\ stats = Stats(<<>>, results)
    /\ stopButton = "disabled"
    /\ overlapped = FALSE

Overlaps == \E c \in Chain : stage[c] \in {"fetch", "timer"}

\* The click is not refused while another batch runs.
StartBatchRun(c, selected) ==
    /\ stage[c] = "new"
    /\ stopRequested' = FALSE
    /\ queue' = selected
    /\ LET cleared == [i \in Item |-> "none"]
           list == [k \in DOMAIN selected |-> [item |-> selected[k], status |-> "none"]]
       IN  ExecuteNext(c, selected, cleared, list, Stats(selected, cleared), TRUE,
                       FALSE, "ready")
    /\ overlapped' = (overlapped \/ Overlaps)

\* The button works while it is not disabled.
Stop ==
    /\ stopButton = "ready"
    /\ running
    /\ stopRequested' = TRUE
    /\ stopButton' = "disabled"
    /\ UNCHANGED <<running, queue, results, stage, item, row, rows, stats, overlapped>>

\* Mutant: the row is not redrawn.
SettledNoRow(c, status) ==
    /\ stage[c] = "fetch"
    /\ results' = [results EXCEPT ![item[c]] = status]
    /\ stats' = Stats(queue, results')
    /\ stage' = [stage EXCEPT ![c] = "timer"]
    /\ UNCHANGED <<running, stopRequested, queue, item, row, rows, stopButton,
                   overlapped>>

\* The stream of the item's run is read to its end, or the fetch failed.
ItemSettled(c, status) ==
    /\ stage[c] = "fetch"
    /\ results' = [results EXCEPT ![item[c]] = status]
    /\ rows' = Draw(rows, row[c], item[c], results')
    /\ stats' = Stats(queue, results')
    /\ stage' = [stage EXCEPT ![c] = "timer"]
    /\ UNCHANGED <<running, stopRequested, queue, item, row, stopButton, overlapped>>

\* Mutant: the stop request is not looked at.
TimerUnstopped(c) ==
    /\ stage[c] = "timer"
    /\ ExecuteNext(c, queue, results, rows, stats, running, FALSE, stopButton)
    /\ UNCHANGED <<stopRequested, queue, overlapped>>

\* setTimeout(executeNextBatchItem, 100) fires.
Timer(c) ==
    /\ stage[c] = "timer"
    /\ ExecuteNext(c, queue, results, rows, stats, running, stopRequested, stopButton)
    /\ UNCHANGED <<stopRequested, queue, overlapped>>

Next ==
    \/ Stop
    \/ \E c \in Chain :
          \/ \E selected \in Selections : StartBatchRun(c, selected)
          \/ \E status \in Final : ItemSettled(c, status)
          \/ Timer(c)

Spec == Init /\ [][Next]_vars

\* A run that was posted ends (Runner!RunEnds, or the connection breaks), and a
\* timer fires.  Nothing is assumed of the user.
FairSpec ==
    /\ Spec
    /\ \A c \in Chain :
          /\ WF_vars(\E status \in Final : ItemSettled(c, status))
          /\ WF_vars(Timer(c))

-----------------------------------------------------------------------------
AtRest == \A c \in Chain : stage[c] \in {"new", "ended"}

\* When no chain is left and nobody asked to stop, every selected item has a
\* verdict, however many batches were started over one another
\* (app.js:1400, 1422-1431, 1475).
NothingSkipped ==
    (AtRest /\ ~stopRequested) => \A k \in DOMAIN queue : results[queue[k]] \in Final

\* While batches follow one another, each row shows the verdict of its own item:
\* the row index taken before the await still is the item's (app.js:1434, 1480).
RowsCurrent ==
    ~overlapped =>
        \A k \in DOMAIN rows :
            rows[k] = [item |-> queue[k], status |-> results[queue[k]]]

\* After a stop the batch finishes the item in flight and begins no other.
StopHolds ==
    [][(stopRequested /\ stopRequested') =>
            \A c \in Chain : stage'[c] = "fetch" => stage[c] = "fetch"]_vars

\* Every batch comes to an end, and with it the running state of the tab.
BatchEnds == running ~> ~running
=============================================================================
