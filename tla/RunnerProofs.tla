---------------------------- MODULE RunnerProofs ----------------------------
(***************************************************************************)
(* For every test case, however deep its files nest, and whatever its      *)
(* steps answer: nothing is begun after a failure, a run that is over      *)
(* failed exactly if some step failed, which then is its last, and a step  *)
(* is given what the steps before it exported last.                        *)
(*                                                                         *)
(* What carries the first two is that a failure is always on top of the    *)
(* stack: the frames below the top one wait in the middle of a step, with  *)
(* nothing failed so far, until the top one is returned from.  The third   *)
(* rests on the context holding, at every moment, what the innermost frame *)
(* that exported a variable exported last.                                 *)
(***************************************************************************)
EXTENDS Runner, SequenceTheorems, WellFoundedInduction, TLAPS

Below == {ss \in Nat \X Nat : ss[1] < ss[2]}

\* There is no endless descent in the naturals.
LEMMA BelowWellFounded == IsWellFoundedOn(Below, Nat)
  BY NatLessThanWellFounded DEF OpToRel, Below

\* A set of positions has a last one.
LEMMA MaxOfPositions ==
  ASSUME NEW n \in Nat, NEW S \in SUBSET (1..n), S # {}
  PROVE  Max(S) \in S /\ \A k \in S : k <= Max(S)
<1> DEFINE T == {n - k : k \in S}
<1>1. T \subseteq Nat /\ T # {}
  <2>1. PICK k \in S : TRUE
    OBVIOUS
  <2>2. n - k \in T
    BY <2>1
  <2>3. \A j \in S : n - j \in Nat
    OBVIOUS
  <2>. QED
    BY <2>2, <2>3
<1>2. PICK t \in T : \A u \in T : ~ (<<u, t>> \in Below)
  <2>. HIDE DEF T
  <2>. QED
    BY <1>1, BelowWellFounded, WFMin
<1>3. PICK m \in S : t = n - m
  BY <1>2
<1>4. \A k \in S : k <= m
  <2> SUFFICES ASSUME NEW k \in S, k > m PROVE FALSE
    OBVIOUS
  <2>1. n - k \in T /\ n - k < t /\ n - k \in Nat /\ t \in Nat
    BY <1>1, <1>2, <1>3
  <2>2. <<n - k, t>> \in Below
    BY <2>1 DEF Below
  <2>. QED
    BY <2>1, <2>2, <1>2
<1>. QED
  BY <1>4 DEF Max

-----------------------------------------------------------------------------
\* A run's frames: those below the top wait inside a step, and a failed result
\* is the last one of a failed frame.
Waiting(frame) ==
    frame.status = "passed" /\ Len(frame.results) < Len(frame.steps)

FailedLast(frame) ==
    \A k \in DOMAIN frame.results :
        frame.results[k].status = "failed" <=>
            frame.status = "failed" /\ k = Len(frame.results)

Event == [index : Nat \ {0}, status : {"running", "passed", "failed"}]

StepIn(frame) == frame.steps[Len(frame.results) + 1]

FramesOK(frames) ==
    /\ frames \in Seq(FrameType) /\ frames # <<>>
    /\ \A f \in 1..Len(frames) :
          /\ frames[f].steps \in TestCases \cup {Body[g] : g \in File}
          /\ Len(frames[f].results) <= Len(frames[f].steps)
          /\ FailedLast(frames[f])
    /\ \A f \in 1..(Len(frames) - 1) : Waiting(frames[f]) /\ IsSub(StepIn(frames[f]))

RunInv ==
    /\ TypeOK
    /\ FramesOK(stack)
    /\ broken = (Top.status = "failed")
    /\ pc = "exec" => Waiting(Top)
    /\ pc = "done" => Len(stack) = 1 /\ Over(Top)

-----------------------------------------------------------------------------
\* Values stay values when other values are written over them.
LEMMA OverrideType ==
  ASSUME NEW old \in Values, NEW new \in Values
  PROVE  Override(old, new) \in Values
BY DEF Override, Values

\* The values that a sub-run's results leave are values.
LEMMA MergeType ==
  ASSUME NEW results \in Seq(ResultType)
  PROVE  MergeValues(results) \in Values
<1> SUFFICES ASSUME NEW n \in Name
             PROVE  MergeValues(results)[n] \in Value \cup {Null}
  BY DEF MergeValues, Values
<1> DEFINE S == {k \in DOMAIN results : results[k].values[n] # Null}
<1>1. S \in SUBSET (1..Len(results)) /\ Len(results) \in Nat
  OBVIOUS
<1>2. \A k \in S : results[k].values[n] \in Value \cup {Null}
  <2>1. \A k \in 1..Len(results) : results[k] \in ResultType
    OBVIOUS
  <2>2. \A r \in ResultType : r.values \in [Name -> Value \cup {Null}]
    BY DEF ResultType, Values
  <2>. QED
    BY <1>1, <2>1, <2>2
<1>3. MergeValues(results)[n] = IF S = {} THEN Null ELSE results[Max(S)].values[n]
  BY DEF MergeValues
<1>. HIDE DEF S
<1>4. S # {} => Max(S) \in S
  BY <1>1, MaxOfPositions
<1>. QED
  BY <1>2, <1>3, <1>4

\* What a step exports from a response are values.
LEMMA ExportsType ==
  ASSUME NEW step \in Step, NEW resp \in Response
  PROVE  ExportsOf(step, resp) \in Values
<1> SUFFICES ASSUME NEW n \in Name
             PROVE  ExportsOf(step, resp)[n] \in Value \cup {Null}
  BY DEF ExportsOf, Values
<1> DEFINE S == {k \in DOMAIN step.exports :
                    step.exports[k].as = n /\ resp[step.exports[k].path] # Null}
<1>1. step.exports \in Seq(Export)
  BY DEF Step
<1>2. S \in SUBSET (1..Len(step.exports)) /\ Len(step.exports) \in Nat
  BY <1>1
<1>3. \A k \in S : resp[step.exports[k].path] \in Value \cup {Null}
  <2>1. \A k \in 1..Len(step.exports) : step.exports[k] \in Export
    BY <1>1
  <2>2. \A e \in Export : resp[e.path] \in Value \cup {Null}
    BY DEF Export, Response
  <2>. QED
    BY <1>2, <2>1, <2>2
<1>4. ExportsOf(step, resp)[n] = IF S = {} THEN Null ELSE resp[step.exports[Max(S)].path]
  BY DEF ExportsOf
<1>. HIDE DEF S
<1>5. S # {} => Max(S) \in S
  BY <1>2, MaxOfPositions
<1>. QED
  BY <1>3, <1>4, <1>5

\* Recording the result of the step a frame waits in.
LEMMA ResultKeepsFrames ==
  ASSUME NEW frames, FramesOK(frames), Waiting(frames[Len(frames)]),
         NEW result \in ResultType
  PROVE  /\ FramesOK(WithResult(frames, result))
         /\ Len(WithResult(frames, result)) = Len(frames)
         /\ WithResult(frames, result)[Len(frames)].status = result.status
<1> DEFINE n == Len(frames)
           new == WithResult(frames, result)
           old == frames[n]
<1>1. frames \in Seq(FrameType) /\ n \in Nat \ {0} /\ n \in DOMAIN frames /\ old \in FrameType
  BY DEF FramesOK
<1>2. /\ old.results \in Seq(ResultType)
      /\ old.steps \in Seq(Step)
      /\ Append(old.results, result) \in Seq(ResultType)
      /\ Len(Append(old.results, result)) = Len(old.results) + 1
  BY <1>1 DEF FrameType
<1>3. new = [frames EXCEPT ![n] = [old EXCEPT !.results = Append(old.results, result),
                                              !.status = result.status]]
  BY <1>1 DEF WithResult, FrameType
<1>4. /\ new[n].steps = old.steps
      /\ new[n].results = Append(old.results, result)
      /\ new[n].status = result.status
      /\ new[n] \in FrameType
  <2>1. new[n] = [old EXCEPT !.results = Append(old.results, result),
                             !.status = result.status]
    BY <1>1, <1>3
  <2>2. result.status \in {"passed", "failed"}
    BY DEF ResultType
  <2>. HIDE DEF new, old
  <2>. QED
    BY <1>1, <1>2, <2>1, <2>2 DEF FrameType
<1>5. /\ new \in Seq(FrameType) /\ Len(new) = n
      /\ \A f \in 1..n : f # n => new[f] = frames[f]
  BY <1>1, <1>3, <1>4
<1>6. FailedLast(new[n])
  <2>1. \A k \in 1..Len(old.results) : old.results[k].status # "failed"
    BY <1>1, <1>2 DEF FramesOK, FailedLast, Waiting
  <2>2. \A k \in 1..Len(old.results) : new[n].results[k] = old.results[k]
    BY <1>2, <1>4
  <2>3. new[n].results[Len(old.results) + 1] = result
    BY <1>2, <1>4
  <2>4. DOMAIN new[n].results = 1..(Len(old.results) + 1) /\ Len(old.results) \in Nat
    BY <1>2, <1>4
  <2>. QED
    BY <1>2, <1>4, <2>1, <2>2, <2>3, <2>4 DEF FailedLast
<1>7. Len(new[n].results) <= Len(new[n].steps)
  BY <1>1, <1>2, <1>4 DEF Waiting
<1>. HIDE DEF n, new, old
<1>8. FramesOK(new)
  <2>1. new # <<>>
    BY <1>1, <1>5
  <2>2. ASSUME NEW f \in 1..n
        PROVE  /\ new[f].steps \in TestCases \cup {Body[g] : g \in File}
               /\ Len(new[f].results) <= Len(new[f].steps)
               /\ FailedLast(new[f])
    BY <1>4, <1>5, <1>6, <1>7 DEF FramesOK, n, old
  <2>3. ASSUME NEW f \in 1..(n - 1)
        PROVE  Waiting(new[f]) /\ IsSub(StepIn(new[f]))
    <3>1. f # n /\ f \in 1..n
      BY <1>1
    <3>. QED
      BY <1>5, <3>1 DEF FramesOK, n
  <2>. QED
    BY <1>5, <2>1, <2>2, <2>3 DEF FramesOK
<1>. QED
  BY <1>4, <1>5, <1>8 DEF n, new

\* The callback's calls are events.
LEMMA EmitType ==
  ASSUME TypeOK, NEW frames, FramesOK(frames),
         NEW status \in {"running", "passed", "failed"}
  PROVE  Emit(frames, status) \in Seq(Event)
<1> DEFINE frame == frames[Len(frames)]
           event == [index |-> Len(frame.results) + 1, status |-> status]
<1>1. frames \in Seq(FrameType) /\ frames # <<>>
  BY DEF FramesOK
<1>2. frame \in FrameType
  BY <1>1
<1>3. event \in Event
  BY <1>2 DEF Event, FrameType
<1>4. Emit(frames, status) = events \/ Emit(frames, status) = Append(events, event)
  BY DEF Emit
<1>5. events \in Seq(Event)
  BY DEF TypeOK, Event
<1>. HIDE DEF event
<1>. QED
  BY <1>3, <1>4, <1>5

\* The context and the callback's calls after a step is settled, whatever its
\* outcome, and the frames by the lemma above.
LEMMA SettleKeepsInv ==
  ASSUME TypeOK,
         NEW frames, FramesOK(frames), Waiting(frames[Len(frames)]),
         NEW passed \in BOOLEAN, NEW resp \in Response,
         NEW recorded \in Values, NEW exported \in Values,
         broken => ~passed,
         Settle(frames, passed, resp, recorded, exported)
  PROVE  RunInv'
<1> DEFINE n == Len(frames)
           frame == frames[n]
           step == frame.steps[Len(frame.results) + 1]
           ok == passed /\ Holds(step.asserts, resp)
           found == IF ok THEN ExportsOf(step, resp) ELSE NoValues
           status == IF ok THEN "passed" ELSE "failed"
           result == Result(status, Override(recorded, found), frame.request)
<1>1. /\ frames \in Seq(FrameType) /\ n \in Nat \ {0} /\ frame \in FrameType
      /\ Len(frame.results) \in Nat
  <2>1. frames \in Seq(FrameType) /\ frames # <<>>
    BY DEF FramesOK
  <2>2. n \in Nat \ {0}
    BY <2>1
  <2>3. frame \in FrameType
    BY <2>1, <2>2
  <2>4. Len(frame.results) \in Nat
    BY <2>3 DEF FrameType
  <2>. QED
    BY <2>1, <2>2, <2>3, <2>4
<1>2. step \in Step
  BY <1>1 DEF FrameType, Waiting
<1>3. found \in Values
  BY <1>2, ExportsType DEF NoValues, Values
<1>4. result \in ResultType
  <2>1. Override(recorded, found) \in Values
    BY <1>3, OverrideType
  <2>2. frame.request \in Value \cup {Null}
    BY <1>1 DEF FrameType
  <2>3. status \in {"passed", "failed"}
    OBVIOUS
  <2>. HIDE DEF found, status, frame
  <2>. QED
    BY <2>1, <2>2, <2>3 DEF Result, ResultType
<1>5. /\ stack' = WithResult(frames, result)
      /\ runCtx' = Override(Override(runCtx, exported), found)
      /\ events' = Emit(frames, status)
      /\ broken' = (broken \/ ~ok)
      /\ pc' = "loop"
      /\ ctxDone' = ctxDone
  BY DEF Settle
<1>6. result.status = status
  BY DEF Result
<1>. HIDE DEF found, result
<1>7. /\ FramesOK(stack')
      /\ Len(stack') = n
      /\ stack'[n].status = status
  BY <1>4, <1>5, <1>6, ResultKeepsFrames DEF n
<1>8. runCtx' \in Values
  BY <1>3, <1>5, OverrideType DEF TypeOK
<1>9. events' \in Seq(Event)
  BY <1>5, EmitType
<1>10. broken' = (stack'[n].status = "failed")
  BY <1>5, <1>7
<1>11. TypeOK'
  <2>1. stack' \in Seq(FrameType) /\ stack' # <<>>
    BY <1>7 DEF FramesOK
  <2>2. \A f \in DOMAIN stack' : Len(stack'[f].results) <= Len(stack'[f].steps)
    BY <1>7, <2>1 DEF FramesOK
  <2>3. broken' \in BOOLEAN
    BY <1>10
  <2>4. ctxDone' \in BOOLEAN
    BY <1>5 DEF TypeOK
  <2>. QED
    BY <1>5, <1>8, <1>9, <2>1, <2>2, <2>3, <2>4 DEF TypeOK, Event
<1>. HIDE DEF n, frame, step, ok, status
<1>12. (Top.status = "failed")' = (stack'[n].status = "failed")
  BY <1>7 DEF Top
<1>13. FramesOK(stack)' /\ pc' = "loop"
  BY <1>5, <1>7 DEF FramesOK, FailedLast, Waiting
<1>. QED
  BY <1>10, <1>11, <1>12, <1>13 DEF RunInv

-----------------------------------------------------------------------------
\* The frames of the other actions: Begin writes the request of the top one, a
\* sub-run puts one on top, and takes it off again.
Begun(frames, request, late) ==
    [frames EXCEPT ![Len(frames)].request = request, ![Len(frames)].late = late]

LEMMA BeginKeepsFrames ==
  ASSUME NEW frames, FramesOK(frames), Waiting(frames[Len(frames)]),
         NEW request \in Value \cup {Null}, NEW late \in BOOLEAN,
         NEW new, new = Begun(frames, request, late)
  PROVE  /\ FramesOK(new)
         /\ Len(new) = Len(frames)
         /\ new[Len(frames)].status = frames[Len(frames)].status
         /\ Waiting(new[Len(frames)])
<1> DEFINE n == Len(frames)
           old == frames[n]
<1>1. frames \in Seq(FrameType) /\ n \in Nat \ {0} /\ n \in DOMAIN frames /\ old \in FrameType
  <2>1. frames \in Seq(FrameType) /\ frames # <<>>
    BY DEF FramesOK
  <2>. QED
    BY <2>1
<1>2. new = [frames EXCEPT ![n] = [old EXCEPT !.request = request, !.late = late]]
  BY <1>1 DEF Begun
<1>3. new[n] = [old EXCEPT !.request = request, !.late = late]
  BY <1>1, <1>2
<1>4. /\ new[n].steps = old.steps
      /\ new[n].results = old.results
      /\ new[n].status = old.status
      /\ new[n] \in FrameType
  <2>. HIDE DEF old
  <2>. QED
    BY <1>1, <1>3 DEF FrameType
<1>5. /\ new \in Seq(FrameType) /\ Len(new) = n
      /\ \A f \in 1..n : f # n => new[f] = frames[f]
  <2>1. new = [frames EXCEPT ![n] = new[n]]
    BY <1>2, <1>3
  <2>. HIDE DEF n, old
  <2>. QED
    BY <1>1, <1>4, <2>1 DEF n
<1>6. /\ old.steps \in TestCases \cup {Body[g] : g \in File}
      /\ Len(old.results) <= Len(old.steps)
      /\ FailedLast(old)
      /\ Waiting(old)
  BY <1>1 DEF FramesOK
<1>. HIDE DEF n, old
<1>7. /\ new[n].steps \in TestCases \cup {Body[g] : g \in File}
      /\ Len(new[n].results) <= Len(new[n].steps)
      /\ FailedLast(new[n])
      /\ Waiting(new[n])
  BY <1>4, <1>6 DEF FailedLast, Waiting
<1>8. FramesOK(new)
  <2>1. new # <<>>
    BY <1>1, <1>5
  <2>2. ASSUME NEW f \in 1..n
        PROVE  /\ new[f].steps \in TestCases \cup {Body[g] : g \in File}
               /\ Len(new[f].results) <= Len(new[f].steps)
               /\ FailedLast(new[f])
    BY <1>5, <1>7 DEF FramesOK, n
  <2>3. ASSUME NEW f \in 1..(n - 1)
        PROVE  Waiting(new[f]) /\ IsSub(StepIn(new[f]))
    <3>1. f # n /\ f \in 1..n
      BY <1>1
    <3>. QED
      BY <1>5, <3>1 DEF FramesOK, n
  <2>. QED
    BY <1>5, <2>1, <2>2, <2>3 DEF FramesOK
<1>. QED
  BY <1>4, <1>5, <1>7, <1>8 DEF n, old

\* A group or an include step is where its frame waits.
LEMMA EnterKeepsFrames ==
  ASSUME NEW frames, FramesOK(frames), Waiting(frames[Len(frames)]),
         IsSub(StepIn(frames[Len(frames)])),
         NEW new, new = Append(frames, Frame(Body[StepIn(frames[Len(frames)]).file]))
  PROVE  /\ FramesOK(new)
         /\ new[Len(new)].status = "passed"
<1> DEFINE n == Len(frames)
           file == StepIn(frames[n]).file
           top == Frame(Body[file])
<1>1. frames \in Seq(FrameType) /\ n \in Nat \ {0} /\ frames[n] \in FrameType
  <2>1. frames \in Seq(FrameType) /\ frames # <<>>
    BY DEF FramesOK
  <2>. QED
    BY <2>1
<1>2. file \in File
  <2>1. frames[n].steps \in TestCases \cup {Body[g] : g \in File}
    BY <1>1 DEF FramesOK
  <2>2. Len(frames[n].results) + 1 \in DOMAIN frames[n].steps
    BY <1>1 DEF Waiting, FrameType
  <2>. QED
    BY <2>1, <2>2, StepAssumption DEF StepIn, IsSub
<1>3. Body[file] \in Seq(Step)
  BY <1>2, StepAssumption
<1>4. top \in FrameType /\ top.results = <<>> /\ top.steps = Body[file] /\ top.status = "passed"
  BY <1>3 DEF Frame, FrameType
<1>. HIDE DEF top, file
<1>5. /\ new \in Seq(FrameType) /\ Len(new) = n + 1 /\ new[n + 1] = top
      /\ \A f \in 1..n : new[f] = frames[f]
  BY <1>1, <1>4 DEF top, file
<1>6. FailedLast(top) /\ Len(top.results) <= Len(top.steps)
  BY <1>3, <1>4 DEF FailedLast
<1>7. FramesOK(new)
  <2>1. new # <<>>
    BY <1>1, <1>5
  <2>2. ASSUME NEW f \in 1..(n + 1)
        PROVE  /\ new[f].steps \in TestCases \cup {Body[g] : g \in File}
               /\ Len(new[f].results) <= Len(new[f].steps)
               /\ FailedLast(new[f])
    <3>1. CASE f = n + 1
      BY <1>2, <1>4, <1>5, <1>6, <3>1
    <3>2. CASE f \in 1..n
      BY <1>5, <3>2 DEF FramesOK
    <3>. QED
      BY <1>1, <3>1, <3>2
  <2>3. ASSUME NEW f \in 1..n
        PROVE  Waiting(new[f]) /\ IsSub(StepIn(new[f]))
    <3>1. CASE f = n
      BY <1>1, <1>5, <3>1
    <3>2. CASE f \in 1..(n - 1)
      BY <1>1, <1>5, <3>2 DEF FramesOK
    <3>. QED
      BY <1>1, <3>1, <3>2
  <2>. HIDE DEF n
  <2>4. Len(new) - 1 = n
    BY <1>1, <1>5
  <2>. QED
    BY <1>5, <2>1, <2>2, <2>3, <2>4 DEF FramesOK
<1>. QED
  BY <1>4, <1>5, <1>7

\* The frame returned to waits in its group or include step.
LEMMA ReturnKeepsFrames ==
  ASSUME NEW frames, FramesOK(frames), Len(frames) > 1
  PROVE  /\ FramesOK(Front(frames))
         /\ Waiting(Front(frames)[Len(Front(frames))])
         /\ IsSub(StepIn(Front(frames)[Len(Front(frames))]))
         /\ Front(frames)[Len(Front(frames))] \in FrameType
<1> DEFINE n == Len(frames)
           outer == Front(frames)
<1>1. frames \in Seq(FrameType) /\ n \in Nat \ {0, 1}
  <2>1. frames \in Seq(FrameType)
    BY DEF FramesOK
  <2>2. n \in Nat /\ n > 1
    BY <2>1
  <2>. HIDE DEF n
  <2>. QED
    BY <2>1, <2>2
<1>2. /\ outer \in Seq(FrameType) /\ Len(outer) = n - 1
      /\ \A f \in 1..(n - 1) : outer[f] = frames[f]
  BY <1>1 DEF Front
<1>. HIDE DEF outer, n
<1>3. FramesOK(outer)
  <2>1. outer # <<>>
    BY <1>1, <1>2
  <2>2. ASSUME NEW f \in 1..(n - 1)
        PROVE  /\ outer[f].steps \in TestCases \cup {Body[g] : g \in File}
               /\ Len(outer[f].results) <= Len(outer[f].steps)
               /\ FailedLast(outer[f])
    BY <1>1, <1>2 DEF FramesOK, n
  <2>3. ASSUME NEW f \in 1..(n - 2)
        PROVE  Waiting(outer[f]) /\ IsSub(StepIn(outer[f]))
    <3>1. f \in 1..(n - 1)
      BY <1>1
    <3>. QED
      BY <1>2, <3>1 DEF FramesOK, n
  <2>4. Len(outer) - 1 = n - 2
    BY <1>1, <1>2
  <2>. QED
    BY <1>2, <2>1, <2>2, <2>3, <2>4 DEF FramesOK
<1>4. /\ Waiting(outer[n - 1]) /\ IsSub(StepIn(outer[n - 1]))
      /\ outer[n - 1] \in FrameType
  <2>1. n - 1 \in 1..(n - 1)
    BY <1>1
  <2>. QED
    BY <1>2, <2>1 DEF FramesOK, n
<1>. QED
  BY <1>2, <1>3, <1>4 DEF outer

-----------------------------------------------------------------------------
\* What the actions may assume of the top frame.
LEMMA TopFacts ==
  ASSUME RunInv
  PROVE  /\ Top \in FrameType /\ Top = stack[Len(stack)] /\ Len(stack) \in Nat \ {0}
         /\ Current = StepIn(Top)
         /\ ~Over(Top) => Waiting(Top)
         /\ Waiting(Top) => Current \in Step /\ ~broken
<1>1. stack \in Seq(FrameType) /\ stack # <<>>
  BY DEF RunInv, TypeOK
<1>2. Top \in FrameType /\ Top = stack[Len(stack)] /\ Len(stack) \in Nat \ {0}
  BY <1>1 DEF Top
<1>3. Len(Top.results) <= Len(Top.steps)
  BY <1>2 DEF RunInv, FramesOK
<1>4. ~Over(Top) => Waiting(Top)
  BY <1>2, <1>3 DEF Over, Waiting, FrameType
<1>5. Waiting(Top) => Current \in Step
  BY <1>2 DEF Waiting, FrameType, Current
<1>6. Waiting(Top) => ~broken
  BY DEF RunInv, Waiting
<1>. QED
  BY <1>2, <1>4, <1>5, <1>6 DEF Current, StepIn

\* What is left to show of RunInv' once the frames are known to be right.
LEMMA FramesGiveInv ==
  ASSUME RunInv, FramesOK(stack'), events' \in Seq(Event),
         runCtx' \in Values, ctxDone' \in BOOLEAN,
         pc' \in {"loop", "exec", "done", "aborted"},
         broken' = (stack'[Len(stack')].status = "failed"),
         pc' = "exec" => Waiting(stack'[Len(stack')]),
         pc' = "done" => Len(stack') = 1 /\ Over(stack'[Len(stack')])
  PROVE  RunInv'
<1>1. stack' \in Seq(FrameType) /\ stack' # <<>>
  BY DEF FramesOK
<1>2. \A f \in DOMAIN stack' : Len(stack'[f].results) <= Len(stack'[f].steps)
  BY <1>1 DEF FramesOK
<1>3. TypeOK'
  BY <1>1, <1>2 DEF TypeOK, Event
<1>4. Top' = stack'[Len(stack')]
  BY DEF Top
<1>5. FramesOK(stack)'
  BY DEF FramesOK, FailedLast, Waiting
<1>6. (pc = "exec" => Waiting(Top))'
  BY <1>4 DEF Waiting
<1>7. (pc = "done" => Len(stack) = 1 /\ Over(Top))'
  BY <1>4 DEF Over
<1>8. (broken = (Top.status = "failed"))'
  BY <1>4
<1>. QED
  BY <1>3, <1>5, <1>6, <1>7, <1>8 DEF RunInv

\* The context and the end of a run leave the frames alone.
LEMMA StutterKeepsInv ==
  ASSUME RunInv, UNCHANGED <<stack, runCtx, events, broken>>, ctxDone' \in BOOLEAN,
         \/ pc' = pc
         \/ pc' = "aborted"
         \/ pc' = "done" /\ Len(stack) = 1 /\ Over(Top)
  PROVE  RunInv'
<1>1. /\ FramesOK(stack) /\ TypeOK /\ Top = stack[Len(stack)]
      /\ broken = (Top.status = "failed")
      /\ pc = "exec" => Waiting(Top)
      /\ pc = "done" => Len(stack) = 1 /\ Over(Top)
  BY DEF RunInv, Top
<1>2. stack' = stack /\ runCtx' = runCtx /\ events' = events /\ broken' = broken
  OBVIOUS
<1>3. /\ runCtx' \in Values /\ events' \in Seq(Event)
      /\ pc' \in {"loop", "exec", "done", "aborted"}
  BY <1>1, <1>2 DEF TypeOK, Event
<1>4. /\ FramesOK(stack') /\ broken' = (stack'[Len(stack')].status = "failed")
      /\ pc' = "exec" => Waiting(stack'[Len(stack')])
      /\ pc' = "done" => Len(stack') = 1 /\ Over(stack'[Len(stack')])
  BY <1>1, <1>2
<1>. QED
  BY <1>3, <1>4, FramesGiveInv

\* A run starts with one frame in which nothing failed.
LEMMA InitEstablishesRunInv == Init => RunInv
<1> SUFFICES ASSUME Init PROVE RunInv
  OBVIOUS
<1>1. PICK tc \in TestCases : stack = <<Frame(tc)>>
  BY DEF Init
<1>2. /\ Frame(tc) \in FrameType /\ Frame(tc).results = <<>>
      /\ Frame(tc).steps = tc /\ Frame(tc).status = "passed"
  BY StepAssumption DEF Frame, FrameType
<1>3. /\ stack \in Seq(FrameType) /\ Len(stack) = 1 /\ stack[1] = Frame(tc)
      /\ stack # <<>>
  BY <1>1, <1>2
<1>4. Len(stack[1].results) <= Len(stack[1].steps) /\ FailedLast(stack[1])
  BY <1>2, <1>3, StepAssumption DEF FailedLast
<1>5. FramesOK(stack)
  BY <1>2, <1>3, <1>4 DEF FramesOK
<1>6. TypeOK
  <2>1. \A f \in DOMAIN stack : Len(stack[f].results) <= Len(stack[f].steps)
    BY <1>3, <1>4
  <2>2. runCtx \in Values
    BY DEF Init, NoValues, Values
  <2>3. events \in Seq(Event)
    BY DEF Init
  <2>4. pc = "loop" /\ ctxDone = FALSE /\ broken = FALSE
    BY DEF Init
  <2>. QED
    BY <1>3, <2>1, <2>2, <2>3, <2>4 DEF TypeOK, Event
<1>7. Top.status = "passed"
  BY <1>2, <1>3 DEF Top
<1>. QED
  BY <1>5, <1>6, <1>7 DEF Init, RunInv

\* Every action keeps a failure on top of the stack.
LEMMA NextKeepsRunInv == RunInv /\ [Next]_vars => RunInv'
<1> SUFFICES ASSUME RunInv, [Next]_vars PROVE RunInv'
  OBVIOUS
<1>0. /\ TypeOK /\ FramesOK(stack) /\ Top = stack[Len(stack)]
      /\ runCtx \in Values /\ ctxDone \in BOOLEAN
      /\ NoValues \in Values /\ NoResponse \in Response
      /\ pc = "exec" => Waiting(Top)
  BY TopFacts DEF RunInv, TypeOK, NoValues, Values, NoResponse, Response
<1>1. CASE Begin
  <2>1. Waiting(Top) /\ pc' = "exec" /\ UNCHANGED <<runCtx, ctxDone, broken>>
    BY <1>1, TopFacts DEF Begin
  <2>2. Injected(Current.uses) \in Value \cup {Null}
    <3>1. Current.uses \in Name \cup {Null}
      BY <2>1, TopFacts DEF Step
    <3>. QED
      BY <1>0, <3>1 DEF Injected, Values
  <2>3. stack' = Begun(stack, Injected(Current.uses), ctxDone)
    BY <1>1 DEF Begin, Begun
  <2>4. /\ FramesOK(stack')
        /\ Len(stack') = Len(stack)
        /\ stack'[Len(stack)].status = Top.status
        /\ Waiting(stack'[Len(stack)])
    BY <1>0, <2>1, <2>2, <2>3, BeginKeepsFrames
  <2>5. events' \in Seq(Event)
    BY <1>0, <1>1, EmitType DEF Begin
  <2>6. broken' = (stack'[Len(stack')].status = "failed")
    BY <2>1, <2>4 DEF RunInv
  <2>. QED
    BY <1>0, <2>1, <2>4, <2>5, <2>6, FramesGiveInv
<1>2. CASE Unregistered
  <2>1. Waiting(Top) /\ pc = "loop" /\ UNCHANGED <<pc, runCtx, ctxDone>> /\ broken' = TRUE
    BY <1>2, TopFacts DEF Unregistered
  <2>2. /\ Result("failed", NoValues, Null) \in ResultType
        /\ Result("failed", NoValues, Null).status = "failed"
    BY <1>0 DEF Result, ResultType
  <2>3. stack' = WithResult(stack, Result("failed", NoValues, Null))
    BY <1>2 DEF Unregistered
  <2>4. /\ FramesOK(stack') /\ Len(stack') = Len(stack)
        /\ stack'[Len(stack)].status = "failed"
    BY <1>0, <2>1, <2>2, <2>3, ResultKeepsFrames
  <2>5. events' \in Seq(Event)
    BY <1>0, <1>2, EmitType DEF Unregistered
  <2>. QED
    BY <1>0, <2>1, <2>4, <2>5, FramesGiveInv
<1>3. CASE ExecutePass
  <2>1. PICK resp \in Responses, mid \in MidExports \cup {NoValues} :
            Settle(stack, TRUE, resp, mid, mid)
    BY <1>3 DEF ExecutePass
  <2>2. resp \in Response /\ mid \in Values
    BY <1>0, <2>1, ValueAssumption
  <2>3. Waiting(stack[Len(stack)]) /\ ~broken
    BY <1>0, <1>3, TopFacts DEF ExecutePass
  <2>. QED
    BY <1>0, <2>1, <2>2, <2>3, SettleKeepsInv
<1>4. CASE ExecuteFail
  <2>1. PICK mid \in MidExports \cup {NoValues} :
            Settle(stack, FALSE, NoResponse, mid, mid)
    BY <1>4 DEF ExecuteFail
  <2>2. mid \in Values
    BY <1>0, <2>1, ValueAssumption
  <2>3. Waiting(stack[Len(stack)])
    BY <1>0, <1>4 DEF ExecuteFail
  <2>. QED
    BY <1>0, <2>1, <2>2, <2>3, SettleKeepsInv
<1>5. CASE ExecutePanic
  <2>1. pc' = "aborted" /\ UNCHANGED <<stack, runCtx, ctxDone, events, broken>>
    BY <1>5 DEF ExecutePanic
  <2>. QED
    BY <1>0, <2>1, StutterKeepsInv
<1>6. CASE SubUnreadable
  <2>1. Waiting(stack[Len(stack)]) /\ Settle(stack, FALSE, NoResponse, NoValues, NoValues)
    BY <1>0, <1>6 DEF SubUnreadable
  <2>. QED
    BY <1>0, <2>1, SettleKeepsInv
<1>7. CASE SubEnter
  <2>1. Waiting(Top) /\ IsSub(StepIn(Top)) /\ ~broken
    BY <1>0, <1>7, TopFacts DEF SubEnter
  <2>2. stack' = Append(stack, Frame(Body[StepIn(Top).file]))
    BY <1>7, TopFacts DEF SubEnter
  <2>3. FramesOK(stack') /\ stack'[Len(stack')].status = "passed"
    BY <1>0, <2>1, <2>2, EnterKeepsFrames
  <2>4. pc' = "loop" /\ UNCHANGED <<runCtx, ctxDone, events, broken>>
    BY <1>7 DEF SubEnter
  <2>5. events' \in Seq(Event)
    BY <1>0, <2>4 DEF TypeOK, Event
  <2>6. broken' = (stack'[Len(stack')].status = "failed")
    BY <1>0, <2>1, <2>3, <2>4 DEF TypeOK
  <2>. QED
    BY <1>0, <2>3, <2>4, <2>5, <2>6, FramesGiveInv
<1>8. CASE SubReturn
  <2> DEFINE outer == Front(stack)
             frame == outer[Len(outer)]
             passed == Top.status = "passed"
             values == MergeValues(Top.results)
  <2>1. PICK resp \in SubResponses[StepIn(frame).kind] :
            Settle(outer, passed, resp, values, NoValues)
    BY <1>8 DEF SubReturn, StepIn
  <2>2. /\ FramesOK(outer) /\ Waiting(frame) /\ IsSub(StepIn(frame))
    BY <1>0, <1>8, ReturnKeepsFrames DEF SubReturn
  <2>3. resp \in Response
    BY <2>1, <2>2, ValueAssumption DEF IsSub
  <2>4. values \in Values
    BY TopFacts, MergeType DEF FrameType
  <2>5. broken => ~passed
    BY DEF RunInv
  <2>6. passed \in BOOLEAN
    OBVIOUS
  <2>. HIDE DEF outer, passed, values
  <2>. QED
    BY <1>0, <2>1, <2>2, <2>3, <2>4, <2>5, <2>6, SettleKeepsInv DEF frame
<1>9. CASE Finish
  <2>1. pc' = "done" /\ UNCHANGED <<stack, runCtx, ctxDone, events, broken>>
    BY <1>9 DEF Finish
  <2>2. Len(stack) = 1 /\ Over(Top)
    BY <1>9 DEF Finish
  <2>. QED
    BY <1>0, <2>1, <2>2, StutterKeepsInv
<1>10. CASE CtxDone
  <2>1. ctxDone' = TRUE /\ UNCHANGED <<stack, pc, runCtx, events, broken>>
    BY <1>10 DEF CtxDone
  <2>2. pc \in {"loop", "exec", "aborted"}
    BY <1>10 DEF CtxDone
  <2>. QED
    BY <1>0, <2>1, <2>2, StutterKeepsInv
<1>11. CASE UNCHANGED vars
  <2>1. UNCHANGED <<stack, pc, runCtx, ctxDone, events, broken>>
    BY <1>11 DEF vars
  <2>. QED
    BY <2>1 DEF RunInv, TypeOK, FramesOK, FailedLast, Waiting, Top, Over
<1>. QED
  BY <1>1, <1>2, <1>3, <1>4, <1>5, <1>6, <1>7, <1>8, <1>9, <1>10, <1>11 DEF Next, Run

-----------------------------------------------------------------------------
\* The variables of a run always have their types (runner.go:23-146).
THEOREM RunTypeSafe == Spec => []TypeOK
<1>1. RunInv => TypeOK
  BY DEF RunInv
<1>. QED
  BY <1>1, InitEstablishesRunInv, NextKeepsRunInv, PTL DEF Spec

\* Once a step failed, in the test case or in whatever file it is nested, no step
\* of the run is begun (runner.go:119-122, group.go:76-77, include.go:98-99).
THEOREM FailureStopsRun == Spec => NothingAfterFailure
<1>1. RunInv /\ [Next]_vars => [(Begin \/ Unregistered) => ~broken]_vars
  BY TopFacts DEF Begin, Unregistered
<1>. QED
  BY <1>1, InitEstablishesRunInv, NextKeepsRunInv, PTL DEF Spec, NothingAfterFailure

\* A run that is over failed exactly if some step failed, however deep, and that
\* step's result, or the one of the step it was nested in, is the last.
THEOREM FailureReachesRun == Spec => []FailurePropagates
<1>1. RunInv => FailurePropagates
  <2> SUFFICES ASSUME RunInv, pc = "done"
               PROVE  /\ (stack[1].status = "failed") = broken
                      /\ \A k \in DOMAIN Results :
                            Results[k].status = "failed" <=> (broken /\ k = Len(Results))
                      /\ ~broken => Len(Results) = Len(stack[1].steps)
    BY DEF FailurePropagates
  <2>1. Len(stack) = 1 /\ Over(Top) /\ Top = stack[1] /\ broken = (Top.status = "failed")
    BY DEF RunInv, Top
  <2>2. FailedLast(stack[1])
    BY <2>1 DEF RunInv, FramesOK
  <2>. QED
    BY <2>1, <2>2 DEF FailedLast, Over, Results
<1>. QED
  BY <1>1, InitEstablishesRunInv, NextKeepsRunInv, PTL DEF Spec

-----------------------------------------------------------------------------
(* What steps are given *)

\* What a step is given after these results.
Given(step, results) ==
    IF step.uses = Null \/ step.kind = "unregistered" THEN Null
    ELSE MergeValues(results)[step.uses]

GivenOK(frame) ==
    \A k \in DOMAIN frame.results :
        frame.results[k].request = Given(frame.steps[k], SubSeq(frame.results, 1, k - 1))

\* The step a frame waits in was given what it should be.
StepGiven(frame) == frame.request = Given(StepIn(frame), frame.results)

\* A variable holds what the innermost frame that exported it exported last.
Latest(frames, n, v) ==
    \/ /\ v = Null
       /\ \A g \in 1..Len(frames) : MergeValues(frames[g].results)[n] = Null
    \/ /\ v # Null
       /\ \E g \in 1..Len(frames) :
             /\ MergeValues(frames[g].results)[n] = v
             /\ \A h \in (g + 1)..Len(frames) : MergeValues(frames[h].results)[n] = Null

GivenInv ==
    /\ \A n \in Name : Latest(stack, n, runCtx[n])
    /\ GivenOK(stack[1])
    /\ pc = "exec" \/ Len(stack) > 1 => StepGiven(stack[1])

-----------------------------------------------------------------------------
\* One more result: its values go over those of the results before it.
LEMMA MergeAppend ==
  ASSUME NEW results \in Seq(ResultType), NEW r \in ResultType
  PROVE  MergeValues(Append(results, r)) = Override(MergeValues(results), r.values)
<1> DEFINE more == Append(results, r)
           last == Len(results) + 1
<1>1. /\ Len(results) \in Nat /\ DOMAIN results = 1..Len(results) /\ DOMAIN more = 1..last
      /\ more[last] = r /\ \A k \in 1..Len(results) : more[k] = results[k]
  OBVIOUS
<1> HIDE DEF more
<1> SUFFICES ASSUME NEW n \in Name
             PROVE  MergeValues(more)[n] =
                        IF r.values[n] # Null THEN r.values[n] ELSE MergeValues(results)[n]
  BY DEF MergeValues, Override, more
<1> DEFINE S == {k \in DOMAIN results : results[k].values[n] # Null}
           T == {k \in DOMAIN more : more[k].values[n] # Null}
<1>2. /\ MergeValues(results)[n] = IF S = {} THEN Null ELSE results[Max(S)].values[n]
      /\ MergeValues(more)[n] = IF T = {} THEN Null ELSE more[Max(T)].values[n]
  BY DEF MergeValues
<1>3. S \in SUBSET (1..Len(results)) /\ T \in SUBSET (1..last)
  BY <1>1
<1>4. CASE r.values[n] # Null
  <2>1. last \in T
    BY <1>1, <1>4
  <2>0. last \in Nat /\ T \in SUBSET (1..last)
    BY <1>1, <1>3
  <2> HIDE DEF T, last
  <2>2. Max(T) \in T /\ \A k \in T : k <= Max(T)
    BY <2>0, <2>1, MaxOfPositions
  <2>3. Max(T) = last
    <3> DEFINE m == Max(T)
    <3>1. m \in 1..last /\ last <= m
      BY <2>0, <2>1, <2>2
    <3> HIDE DEF m
    <3>2. m = last
      BY <2>0, <3>1
    <3> QED
      BY <3>2 DEF m
  <2> QED
    BY <1>1, <1>2, <1>4, <2>1, <2>3
<1>5. CASE r.values[n] = Null
  <2>1. T = S
    BY <1>1, <1>5
  <2> HIDE DEF S, T
  <2>2. S # {} => Max(S) \in S
    BY <1>1, <1>3, MaxOfPositions
  <2> QED
    BY <1>1, <1>2, <1>3, <1>5, <2>1, <2>2
<1> QED
  BY <1>4, <1>5

\* What recording a result does to the frame it is recorded in, and to no other.
LEMMA WithResultFacts ==
  ASSUME NEW frames, FramesOK(frames), NEW result \in ResultType,
         NEW new, new = WithResult(frames, result)
  PROVE  /\ Len(new) = Len(frames) /\ Len(frames) \in Nat \ {0}
         /\ frames[Len(frames)] \in FrameType
         /\ new[Len(frames)].steps = frames[Len(frames)].steps
         /\ new[Len(frames)].results = Append(frames[Len(frames)].results, result)
         /\ \A f \in 1..Len(frames) : f # Len(frames) => new[f] = frames[f]
<1>1. frames \in Seq(FrameType) /\ frames # <<>>
  BY DEF FramesOK
<1> DEFINE n == Len(frames)
           old == frames[n]
           top == [old EXCEPT !.results = Append(old.results, result), !.status = result.status]
<1>2. n \in Nat \ {0} /\ n \in DOMAIN frames /\ old \in FrameType
  BY <1>1
<1>3. new = [frames EXCEPT ![n] = top]
  BY <1>2 DEF WithResult, FrameType
<1>4. top.steps = old.steps /\ top.results = Append(old.results, result)
  BY <1>2 DEF FrameType
<1> HIDE DEF top, old
<1>5. Len(new) = n /\ new[n] = top /\ \A f \in 1..n : f # n => new[f] = frames[f]
  BY <1>1, <1>2, <1>3
<1> QED
  BY <1>2, <1>4, <1>5 DEF old

\* A step that was given what it should be is recorded so.
LEMMA ResultIsGiven ==
  ASSUME NEW old \in FrameType, GivenOK(old), NEW result,
         result.request = Given(StepIn(old), old.results),
         NEW new, new.steps = old.steps, new.results = Append(old.results, result)
  PROVE  GivenOK(new)
<1> DEFINE results == old.results
           last == Len(results) + 1
<1>1. results \in Seq(ResultType) /\ Len(results) \in Nat
  BY DEF FrameType
<1>2. /\ DOMAIN new.results = 1..last /\ new.results[last] = result
      /\ \A k \in 1..Len(results) : new.results[k] = results[k]
  BY <1>1
<1>3. \A k \in 1..last : SubSeq(new.results, 1, k - 1) = SubSeq(results, 1, k - 1)
  BY <1>1
<1>4. SubSeq(results, 1, last - 1) = results
  BY <1>1
<1> SUFFICES ASSUME NEW k \in 1..last
             PROVE  new.results[k].request =
                        Given(new.steps[k], SubSeq(new.results, 1, k - 1))
  BY <1>2 DEF GivenOK
<1>5. CASE k = last
  BY <1>2, <1>3, <1>4, <1>5 DEF StepIn
<1>6. CASE k \in 1..Len(results)
  <2>1. results[k].request = Given(old.steps[k], SubSeq(results, 1, k - 1))
    BY <1>1, <1>6 DEF GivenOK
  <2> QED
    BY <1>2, <1>3, <1>6, <2>1
<1> QED
  BY <1>1, <1>5, <1>6

\* A recorded export is the latest one; what is not exported stays what it was.
LEMMA RecordedIsLatest ==
  ASSUME NEW frames, FramesOK(frames), NEW result \in ResultType,
         NEW new, new = WithResult(frames, result),
         NEW n \in Name, NEW v,
         IF result.values[n] # Null THEN v = result.values[n] ELSE Latest(frames, n, v)
  PROVE  Latest(new, n, v)
<1> DEFINE t == Len(frames)
           M(f, g) == MergeValues(f[g].results)[n]
<1>1. /\ Len(new) = t /\ t \in Nat \ {0}
      /\ frames[t].results \in Seq(ResultType)
      /\ new[t].results = Append(frames[t].results, result)
      /\ \A f \in 1..t : f # t => new[f] = frames[f]
  <2>1. frames[t] \in FrameType
    BY WithResultFacts
  <2>2. frames[t].results \in Seq(ResultType)
    BY <2>1 DEF FrameType
  <2> QED
    BY <2>2, WithResultFacts
<1>2. M(new, t) = IF result.values[n] # Null THEN result.values[n] ELSE M(frames, t)
  BY <1>1, MergeAppend DEF Override
<1>3. \A g \in 1..t : g # t => M(new, g) = M(frames, g)
  BY <1>1
<1>4. CASE result.values[n] # Null
  <2>1. t \in 1..t /\ M(new, t) = v /\ v # Null /\ \A h \in (t + 1)..t : FALSE
    BY <1>1, <1>2, <1>4
  <2> QED
    BY <1>1, <2>1 DEF Latest
<1>5. CASE result.values[n] = Null
  <2>1. \A g \in 1..t : M(new, g) = M(frames, g)
    BY <1>2, <1>3, <1>5
  <2>2. Latest(frames, n, v)
    BY <1>5
  <2>3. CASE v = Null /\ \A g \in 1..t : M(frames, g) = Null
    <3>1. \A g \in 1..Len(new) : MergeValues(new[g].results)[n] = Null
      BY <1>1, <2>1, <2>3
    <3> QED
      BY <2>3, <3>1 DEF Latest
  <2>4. ASSUME NEW g \in 1..t, v # Null, M(frames, g) = v,
               \A h \in (g + 1)..t : M(frames, h) = Null
        PROVE  Latest(new, n, v)
    <3>1. \A h \in (g + 1)..t : h \in 1..t
      BY <1>1
    <3>2. M(new, g) = v /\ \A h \in (g + 1)..t : M(new, h) = Null
      BY <2>1, <2>4, <3>1
    <3> QED
      BY <1>1, <2>4, <3>2 DEF Latest
  <2> QED
    BY <2>2, <2>3, <2>4 DEF Latest
<1> QED
  BY <1>4, <1>5

\* Without its top frame: what that exported last, or what held before it.
LEMMA ReturnedIsLatest ==
  ASSUME NEW frames, FramesOK(frames), Len(frames) > 1, NEW n \in Name, NEW v,
         Latest(frames, n, v), NEW top, top = MergeValues(frames[Len(frames)].results)[n]
  PROVE  /\ top # Null => v = top
         /\ top = Null => Latest(Front(frames), n, v)
<1> DEFINE t == Len(frames)
           outer == Front(frames)
<1>1. frames \in Seq(FrameType) /\ t \in Nat \ {0, 1}
  <2>1. frames \in Seq(FrameType) /\ t \in Nat /\ t > 1
    BY DEF FramesOK
  <2> QED
    BY <2>1
<1>2. /\ Len(outer) = t - 1 /\ t \in 1..t
      /\ \A f \in 1..(t - 1) : outer[f] = frames[f] /\ f \in 1..t
  BY <1>1 DEF Front
<1>3. CASE v = Null /\ \A g \in 1..Len(frames) : MergeValues(frames[g].results)[n] = Null
  BY <1>2, <1>3 DEF Latest
<1>4. ASSUME NEW g \in 1..t, v # Null, MergeValues(frames[g].results)[n] = v,
             \A h \in (g + 1)..t : MergeValues(frames[h].results)[n] = Null
      PROVE  /\ top # Null => v = top
             /\ top = Null => Latest(outer, n, v)
  <2>1. CASE g = t
    BY <1>4, <2>1
  <2>2. CASE g \in 1..(t - 1)
    <3>1. t \in (g + 1)..t /\ \A h \in (g + 1)..(t - 1) : h \in 1..(t - 1) /\ h \in (g + 1)..t
      BY <1>1, <2>2
    <3>2. /\ MergeValues(outer[g].results)[n] = v
          /\ \A h \in (g + 1)..(t - 1) : MergeValues(outer[h].results)[n] = Null
      BY <1>2, <1>4, <2>2, <3>1
    <3>3. Latest(outer, n, v)
      BY <1>2, <1>4, <2>2, <3>2 DEF Latest
    <3>4. top = Null
      BY <1>4, <3>1
    <3> QED
      BY <3>3, <3>4
  <2> QED
    BY <1>1, <2>1, <2>2
<1> QED
  BY <1>3, <1>4 DEF Latest

\* A settled step: the frames it is recorded in hold what the context then holds.
LEMMA SettleKeepsGiven ==
  ASSUME TypeOK,
         NEW frames, FramesOK(frames), Waiting(frames[Len(frames)]),
         NEW passed \in BOOLEAN, NEW resp \in Response,
         NEW recorded \in Values, NEW exported \in Values,
         \A n \in Name :
            IF recorded[n] # Null THEN Override(runCtx, exported)[n] = recorded[n]
            ELSE Latest(frames, n, Override(runCtx, exported)[n]),
         GivenOK(frames[1]), StepGiven(frames[1]),
         Settle(frames, passed, resp, recorded, exported)
  PROVE  GivenInv'
<1> DEFINE t == Len(frames)
           frame == frames[t]
           step == frame.steps[Len(frame.results) + 1]
           ok == passed /\ Holds(step.asserts, resp)
           found == IF ok THEN ExportsOf(step, resp) ELSE NoValues
           status == IF ok THEN "passed" ELSE "failed"
           result == Result(status, Override(recorded, found), frame.request)
<1>1. /\ frames \in Seq(FrameType) /\ t \in Nat \ {0} /\ frame \in FrameType
      /\ Len(frame.results) \in Nat
  <2>1. frames \in Seq(FrameType) /\ frames # <<>>
    BY DEF FramesOK
  <2>2. t \in Nat \ {0}
    BY <2>1
  <2>3. frame \in FrameType
    BY <2>1, <2>2
  <2> QED
    BY <2>1, <2>2, <2>3 DEF FrameType
<1>2. step \in Step
  BY <1>1 DEF FrameType, Waiting
<1>3. found \in Values
  BY <1>2, ExportsType DEF NoValues, Values
<1>4. /\ stack' = WithResult(frames, result)
      /\ runCtx' = Override(Override(runCtx, exported), found)
      /\ pc' = "loop"
  BY DEF Settle
<1> HIDE DEF found
<1>5. /\ result \in ResultType /\ result.values = Override(recorded, found)
      /\ result.request = frame.request
  <2>1. Override(recorded, found) \in Values
    BY <1>3, OverrideType
  <2>2. frame.request \in Value \cup {Null}
    BY <1>1 DEF FrameType
  <2>3. status \in {"passed", "failed"}
    OBVIOUS
  <2> HIDE DEF status, frame
  <2> QED
    BY <2>1, <2>2, <2>3 DEF Result, ResultType
<1> HIDE DEF result
<1>6. ASSUME NEW n \in Name
      PROVE  Latest(stack', n, runCtx'[n])
  <2> DEFINE held == Override(runCtx, exported)
  <2>1. /\ result.values[n] = IF found[n] # Null THEN found[n] ELSE recorded[n]
        /\ runCtx'[n] = IF found[n] # Null THEN found[n] ELSE held[n]
    BY <1>4, <1>5 DEF Override
  <2>2. IF recorded[n] # Null THEN held[n] = recorded[n] ELSE Latest(frames, n, held[n])
    OBVIOUS
  <2> HIDE DEF held
  <2>3. IF result.values[n] # Null THEN runCtx'[n] = result.values[n]
        ELSE Latest(frames, n, runCtx'[n])
    BY <2>1, <2>2
  <2> QED
    BY <1>4, <1>5, <2>3, RecordedIsLatest
<1>7. /\ Len(stack') = t
      /\ stack'[t].steps = frame.steps
      /\ stack'[t].results = Append(frame.results, result)
      /\ \A f \in 1..t : f # t => stack'[f] = frames[f]
  BY <1>4, <1>5, WithResultFacts
<1>8. GivenOK(stack'[1])
  <2>1. CASE t = 1
    <3>1. GivenOK(frame) /\ result.request = Given(StepIn(frame), frame.results)
      BY <1>5, <2>1 DEF StepGiven
    <3>2. stack'[1].steps = frame.steps /\ stack'[1].results = Append(frame.results, result)
      BY <1>7, <2>1
    <3> HIDE DEF frame
    <3> QED
      BY <1>1, <3>1, <3>2, ResultIsGiven
  <2>2. CASE t # 1
    BY <1>1, <1>7, <2>2
  <2> QED
    BY <2>1, <2>2
<1>9. Len(stack') > 1 => StepGiven(stack'[1])
  BY <1>1, <1>7
<1> HIDE DEF t, frame, step, ok, status
<1>10. \A n \in Name : Latest(stack, n, runCtx[n])'
  BY <1>6 DEF Latest
<1>11. GivenOK(stack[1])' /\ (Len(stack) > 1 => StepGiven(stack[1]))'
  BY <1>8, <1>9 DEF GivenOK, StepGiven, StepIn
<1> QED
  BY <1>4, <1>10, <1>11 DEF GivenInv

\* A variable holds the same after the frames' results.
LEMMA SameResults ==
  ASSUME NEW frames, NEW new, Len(new) = Len(frames),
         \A g \in 1..Len(frames) : new[g].results = frames[g].results,
         Len(frames) \in Nat, NEW n \in Name, NEW v, Latest(frames, n, v)
  PROVE  Latest(new, n, v)
<1> DEFINE t == Len(frames)
<1>1. CASE v = Null /\ \A g \in 1..t : MergeValues(frames[g].results)[n] = Null
  BY <1>1 DEF Latest
<1>2. ASSUME NEW g \in 1..t, v # Null, MergeValues(frames[g].results)[n] = v,
             \A h \in (g + 1)..t : MergeValues(frames[h].results)[n] = Null
      PROVE  Latest(new, n, v)
  <2>1. \A h \in (g + 1)..t : h \in 1..t
    OBVIOUS
  <2> QED
    BY <1>2, <2>1 DEF Latest
<1> QED
  BY <1>1, <1>2 DEF Latest

\* A sub-run begins with no results.
LEMMA EnteredIsLatest ==
  ASSUME NEW frames \in Seq(FrameType), NEW steps, Frame(steps) \in FrameType,
         NEW n \in Name, NEW v, Latest(frames, n, v)
  PROVE  Latest(Append(frames, Frame(steps)), n, v)
<1> DEFINE t == Len(frames)
           new == Append(frames, Frame(steps))
<1>1. /\ t \in Nat /\ Len(new) = t + 1 /\ new[t + 1] = Frame(steps)
      /\ \A g \in 1..t : new[g] = frames[g]
  OBVIOUS
<1>2. MergeValues(new[t + 1].results)[n] = Null
  <2>1. new[t + 1].results = <<>>
    BY <1>1 DEF Frame
  <2>2. {k \in DOMAIN <<>> : <<>>[k].values[n] # Null} = {}
    OBVIOUS
  <2>3. MergeValues(<<>>)[n] = Null
    BY <2>2 DEF MergeValues
  <2> HIDE DEF new
  <2> QED
    BY <2>1, <2>3
<1> HIDE DEF new
<1>3. CASE v = Null /\ \A g \in 1..t : MergeValues(frames[g].results)[n] = Null
  <2>1. \A g \in 1..(t + 1) : g \in 1..t \/ g = t + 1
    BY <1>1
  <2>2. \A g \in 1..(t + 1) : MergeValues(new[g].results)[n] = Null
    BY <1>1, <1>2, <1>3, <2>1
  <2> QED
    BY <1>1, <1>3, <2>2 DEF Latest, new
<1>4. ASSUME NEW g \in 1..t, v # Null, MergeValues(frames[g].results)[n] = v,
             \A h \in (g + 1)..t : MergeValues(frames[h].results)[n] = Null
      PROVE  Latest(new, n, v)
  <2>1. /\ g \in 1..(t + 1)
        /\ \A h \in (g + 1)..(t + 1) : (h \in (g + 1)..t /\ h \in 1..t) \/ h = t + 1
    BY <1>1
  <2>2. /\ MergeValues(new[g].results)[n] = v
        /\ \A h \in (g + 1)..(t + 1) : MergeValues(new[h].results)[n] = Null
    BY <1>1, <1>2, <1>4, <2>1
  <2> QED
    BY <1>1, <1>4, <2>1, <2>2 DEF Latest
<1> QED
  BY <1>3, <1>4 DEF Latest, new

\* What Begin does to the frame whose step it begins, and to no other.
LEMMA BegunFacts ==
  ASSUME NEW frames, FramesOK(frames), NEW request, NEW late,
         NEW new, new = Begun(frames, request, late)
  PROVE  /\ Len(new) = Len(frames) /\ Len(frames) \in Nat \ {0}
         /\ new[Len(frames)].steps = frames[Len(frames)].steps
         /\ new[Len(frames)].results = frames[Len(frames)].results
         /\ new[Len(frames)].request = request
         /\ \A f \in 1..Len(frames) : f # Len(frames) => new[f] = frames[f]
<1>1. frames \in Seq(FrameType) /\ frames # <<>>
  BY DEF FramesOK
<1> DEFINE n == Len(frames)
           old == frames[n]
           top == [old EXCEPT !.request = request, !.late = late]
<1>2. n \in Nat \ {0} /\ n \in DOMAIN frames /\ old \in FrameType
  BY <1>1
<1>3. new = [frames EXCEPT ![n] = top]
  BY <1>2 DEF Begun
<1>4. top.steps = old.steps /\ top.results = old.results /\ top.request = request
  BY <1>2 DEF FrameType
<1> HIDE DEF top, old
<1>5. Len(new) = n /\ new[n] = top /\ \A f \in 1..n : f # n => new[f] = frames[f]
  BY <1>1, <1>2, <1>3
<1> QED
  BY <1>2, <1>4, <1>5 DEF old

LEMMA GivenInit == Init => GivenInv
<1> SUFFICES ASSUME Init PROVE GivenInv
  OBVIOUS
<1>1. PICK tc \in TestCases : stack = <<Frame(tc)>>
  BY DEF Init
<1>2. /\ Len(stack) = 1 /\ stack[1].results = <<>> /\ pc = "loop"
      /\ \A n \in Name : runCtx[n] = Null
  BY <1>1 DEF Frame, Init, NoValues
<1>3. ASSUME NEW n \in Name PROVE Latest(stack, n, runCtx[n])
  <2>1. {k \in DOMAIN <<>> : <<>>[k].values[n] # Null} = {}
    OBVIOUS
  <2>2. MergeValues(<<>>)[n] = Null
    BY <2>1 DEF MergeValues
  <2>3. \A g \in 1..Len(stack) : g = 1
    BY <1>2
  <2> QED
    BY <1>2, <2>2, <2>3 DEF Latest
<1>4. GivenOK(stack[1])
  BY <1>2 DEF GivenOK
<1> QED
  BY <1>2, <1>3, <1>4 DEF GivenInv

LEMMA StutterKeepsGiven ==
  ASSUME GivenInv, UNCHANGED <<stack, runCtx>>, pc' = "exec" => pc = "exec"
  PROVE  GivenInv'
<1>1. \A n \in Name : Latest(stack, n, runCtx[n])'
  BY DEF GivenInv, Latest
<1> QED
  BY <1>1 DEF GivenInv, GivenOK, StepGiven, StepIn

LEMMA BeginKeepsGiven ==
  ASSUME RunInv, GivenInv, Begin
  PROVE  GivenInv'
<1> DEFINE t == Len(stack)
           request == Injected(Current.uses)
<1>1. /\ FramesOK(stack) /\ Waiting(Top) /\ Current \in Step /\ Current = StepIn(Top)
      /\ Top = stack[t] /\ t \in Nat \ {0}
      /\ Current.kind # "unregistered" /\ runCtx' = runCtx
      /\ stack' = Begun(stack, request, ctxDone)
  BY TopFacts DEF RunInv, Begin, Begun
<1>2. /\ Len(stack') = t /\ stack'[t].steps = stack[t].steps
      /\ stack'[t].results = stack[t].results /\ stack'[t].request = request
      /\ \A f \in 1..t : f # t => stack'[f] = stack[f]
  BY <1>1, BegunFacts
<1>3. ASSUME NEW n \in Name PROVE Latest(stack', n, runCtx'[n])
  <2>1. Latest(stack, n, runCtx'[n])
    BY <1>1 DEF GivenInv
  <2>2. \A g \in 1..t : stack'[g].results = stack[g].results
    BY <1>2
  <2> QED
    BY <1>1, <1>2, <2>1, <2>2, SameResults
<1>4. stack'[1].steps = stack[1].steps /\ stack'[1].results = stack[1].results
  BY <1>1, <1>2
<1>5. StepGiven(stack'[1])
  <2>1. CASE t = 1
    <3>1. request = Given(StepIn(stack[1]), stack[1].results)
      <4>1. Current.uses \in Name \cup {Null} /\ StepIn(stack[1]) = Current
        BY <1>1, <2>1 DEF Step
      <4>2. ASSUME Current.uses # Null
            PROVE  runCtx[Current.uses] = MergeValues(stack[1].results)[Current.uses]
        <5>1. Current.uses \in Name
          BY <4>1, <4>2
        <5>2. \A n \in Name : Latest(stack, n, runCtx[n])
          BY DEF GivenInv
        <5>3. \A g \in 1..Len(stack) : g = 1
          BY <2>1
        <5>4. 1 \in 1..Len(stack)
          BY <2>1
        <5> QED
          BY <5>1, <5>2, <5>3, <5>4 DEF Latest
      <4> QED
        BY <1>1, <4>1, <4>2 DEF Given, Injected
    <3> HIDE DEF request
    <3> QED
      BY <1>2, <1>4, <2>1, <3>1 DEF StepGiven, StepIn
  <2>2. CASE t # 1
    <3>1. stack'[1] = stack[1] /\ Len(stack) > 1
      BY <1>1, <1>2, <2>2
    <3> QED
      BY <3>1 DEF GivenInv
  <2> QED
    BY <2>1, <2>2
<1>6. \A n \in Name : Latest(stack, n, runCtx[n])'
  BY <1>3 DEF Latest
<1>7. GivenOK(stack[1])'
  BY <1>4 DEF GivenInv, GivenOK
<1>8. StepGiven(stack[1])'
  BY <1>5 DEF StepGiven, StepIn
<1> QED
  BY <1>6, <1>7, <1>8 DEF GivenInv

LEMMA UnregisteredKeepsGiven ==
  ASSUME RunInv, GivenInv, Unregistered
  PROVE  GivenInv'
<1> DEFINE t == Len(stack)
           result == Result("failed", NoValues, Null)
<1>1. /\ FramesOK(stack) /\ Waiting(Top) /\ Current = StepIn(Top)
      /\ Top = stack[t] /\ t \in Nat \ {0} /\ Top \in FrameType
      /\ Current.kind = "unregistered" /\ runCtx' = runCtx /\ pc' = "loop"
      /\ stack' = WithResult(stack, result)
  BY TopFacts DEF RunInv, Unregistered
<1>2. /\ result \in ResultType /\ result.request = Null
      /\ \A n \in Name : result.values[n] = Null
  BY DEF Result, ResultType, NoValues, Values
<1> HIDE DEF result
<1>3. ASSUME NEW n \in Name PROVE Latest(stack', n, runCtx'[n])
  <2>1. Latest(stack, n, runCtx'[n])
    BY <1>1 DEF GivenInv
  <2> QED
    BY <1>1, <1>2, <2>1, RecordedIsLatest
<1>4. /\ Len(stack') = t
      /\ stack'[t].steps = stack[t].steps
      /\ stack'[t].results = Append(stack[t].results, result)
      /\ \A f \in 1..t : f # t => stack'[f] = stack[f]
  BY <1>1, <1>2, WithResultFacts
<1>5. GivenOK(stack'[1])
  <2>1. CASE t = 1
    <3>1. /\ GivenOK(stack[1]) /\ stack[1] \in FrameType
          /\ result.request = Given(StepIn(stack[1]), stack[1].results)
      BY <1>1, <1>2, <2>1 DEF GivenInv, Given
    <3> QED
      BY <1>4, <2>1, <3>1, ResultIsGiven
  <2>2. CASE t # 1
    BY <1>1, <1>4, <2>2 DEF GivenInv
  <2> QED
    BY <2>1, <2>2
<1>6. Len(stack') > 1 => StepGiven(stack'[1])
  BY <1>1, <1>4 DEF GivenInv
<1>7. \A n \in Name : Latest(stack, n, runCtx[n])'
  BY <1>3 DEF Latest
<1>8. GivenOK(stack[1])' /\ (Len(stack) > 1 => StepGiven(stack[1]))'
  BY <1>5, <1>6 DEF GivenOK, StepGiven, StepIn
<1> QED
  BY <1>1, <1>7, <1>8 DEF GivenInv

LEMMA SubEnterKeepsGiven ==
  ASSUME RunInv, GivenInv, SubEnter
  PROVE  GivenInv'
<1> DEFINE t == Len(stack)
           file == Current.file
<1>1. /\ stack \in Seq(FrameType) /\ t \in Nat \ {0} /\ runCtx' = runCtx
      /\ stack' = Append(stack, Frame(Body[file])) /\ StepGiven(stack[1])
  BY TopFacts DEF RunInv, TypeOK, SubEnter, GivenInv
<1>2. Frame(Body[file]) \in FrameType
  <2>1. /\ FramesOK(stack) /\ Waiting(stack[t]) /\ IsSub(StepIn(stack[t]))
        /\ stack' = Append(stack, Frame(Body[StepIn(stack[t]).file]))
    BY TopFacts DEF RunInv, SubEnter
  <2>2. FramesOK(stack')
    BY <2>1, EnterKeepsFrames
  <2>3. stack' \in Seq(FrameType)
    BY <2>2 DEF FramesOK
  <2> DEFINE top == Frame(Body[file])
  <2> HIDE DEF top
  <2>4. Len(Append(stack, top)) = t + 1 /\ Append(stack, top)[t + 1] = top
    BY <1>1
  <2>5. stack' = Append(stack, top)
    BY <1>1 DEF top
  <2>6. top \in FrameType
    BY <1>1, <2>3, <2>4, <2>5
  <2> QED
    BY <2>6 DEF top
<1>3. ASSUME NEW n \in Name PROVE Latest(stack', n, runCtx'[n])
  <2>1. Latest(stack, n, runCtx'[n])
    BY <1>1 DEF GivenInv
  <2> QED
    BY <1>1, <1>2, <2>1, EnteredIsLatest
<1>4. stack'[1] = stack[1]
  BY <1>1, <1>2
<1>5. \A n \in Name : Latest(stack, n, runCtx[n])'
  BY <1>3 DEF Latest
<1>6. GivenOK(stack[1])' /\ StepGiven(stack[1])'
  BY <1>1, <1>4 DEF GivenInv, GivenOK, StepGiven, StepIn
<1> QED
  BY <1>5, <1>6 DEF GivenInv

\* Each step is given what the context holds, and the context holds the latest
\* exports of the frames, the innermost first.
LEMMA NextKeepsGiven == RunInv /\ GivenInv /\ [Next]_vars => GivenInv'
<1> SUFFICES ASSUME RunInv, GivenInv, [Next]_vars PROVE GivenInv'
  OBVIOUS
<1>0. /\ TypeOK /\ FramesOK(stack) /\ Top = stack[Len(stack)]
      /\ runCtx \in Values /\ GivenOK(stack[1])
      /\ NoValues \in Values /\ NoResponse \in Response
      /\ pc = "exec" => Waiting(stack[Len(stack)]) /\ StepGiven(stack[1])
  BY TopFacts DEF RunInv, GivenInv, TypeOK, NoValues, Values, NoResponse, Response
<1>1. CASE Begin
  BY <1>1, BeginKeepsGiven
<1>2. CASE Unregistered
  BY <1>2, UnregisteredKeepsGiven
<1>3. ASSUME NEW passed \in BOOLEAN, NEW resp \in Response, NEW mid \in Values,
             pc = "exec", Settle(stack, passed, resp, mid, mid)
      PROVE  GivenInv'
  <2>1. \A n \in Name :
           IF mid[n] # Null THEN Override(runCtx, mid)[n] = mid[n]
           ELSE Latest(stack, n, Override(runCtx, mid)[n])
    BY DEF Override, GivenInv
  <2> QED
    BY <1>0, <1>3, <2>1, SettleKeepsGiven
<1>4. CASE ExecutePass
  <2>1. PICK resp \in Responses, mid \in MidExports \cup {NoValues} :
            Settle(stack, TRUE, resp, mid, mid) /\ pc = "exec"
    BY <1>4 DEF ExecutePass
  <2>2. resp \in Response /\ mid \in Values
    BY <1>0, <2>1, ValueAssumption
  <2> QED
    BY <1>3, <2>1, <2>2
<1>5. CASE ExecuteFail
  <2>1. PICK mid \in MidExports \cup {NoValues} :
            Settle(stack, FALSE, NoResponse, mid, mid) /\ pc = "exec"
    BY <1>5 DEF ExecuteFail
  <2>2. mid \in Values
    BY <1>0, <2>1, ValueAssumption
  <2> QED
    BY <1>0, <1>3, <2>1, <2>2
<1>6. CASE SubUnreadable
  BY <1>0, <1>3, <1>6 DEF SubUnreadable
<1>7. CASE SubEnter
  BY <1>7, SubEnterKeepsGiven
<1>8. CASE SubReturn
  <2> DEFINE outer == Front(stack)
             frame == outer[Len(outer)]
             passed == Top.status = "passed"
             values == MergeValues(Top.results)
  <2>1. PICK resp \in SubResponses[StepIn(frame).kind] :
            Settle(outer, passed, resp, values, NoValues)
    BY <1>8 DEF SubReturn, StepIn
  <2>2. /\ FramesOK(outer) /\ Waiting(frame) /\ IsSub(StepIn(frame))
    BY <1>0, <1>8, ReturnKeepsFrames DEF SubReturn
  <2>3. resp \in Response
    BY <2>1, <2>2, ValueAssumption DEF IsSub
  <2>4. values \in Values
    BY TopFacts, MergeType DEF FrameType
  <2>5. outer[1] = stack[1] /\ StepGiven(stack[1])
    <3>1. stack \in Seq(FrameType) /\ Len(stack) > 1
      BY <1>0, <1>8 DEF SubReturn, TypeOK
    <3>2. 1 \in 1..(Len(stack) - 1) /\ outer = SubSeq(stack, 1, Len(stack) - 1)
      BY <3>1 DEF Front
    <3> QED
      BY <3>1, <3>2 DEF GivenInv
  <2>6. ASSUME NEW n \in Name
        PROVE  IF values[n] # Null THEN Override(runCtx, NoValues)[n] = values[n]
               ELSE Latest(outer, n, Override(runCtx, NoValues)[n])
    <3>1. Override(runCtx, NoValues)[n] = runCtx[n]
      BY DEF Override, NoValues
    <3>2. Latest(stack, n, runCtx[n]) /\ Len(stack) > 1
      BY <1>8 DEF GivenInv, SubReturn
    <3>3. values[n] = MergeValues(stack[Len(stack)].results)[n]
      BY <1>0
    <3> QED
      BY <1>0, <3>1, <3>2, <3>3, ReturnedIsLatest
  <2>7. passed \in BOOLEAN
    OBVIOUS
  <2> HIDE DEF outer, passed, values
  <2> QED
    BY <1>0, <2>1, <2>2, <2>3, <2>4, <2>5, <2>6, <2>7, SettleKeepsGiven DEF frame
<1>9. CASE ExecutePanic \/ Finish \/ CtxDone \/ UNCHANGED vars
  BY <1>9, StutterKeepsGiven DEF ExecutePanic, Finish, CtxDone, vars
<1> QED
  BY <1>1, <1>2, <1>4, <1>5, <1>6, <1>7, <1>8, <1>9 DEF Next, Run

\* A step of the test case is given what the steps before it exported last, those
\* of groups and includes included, however deep they nest
\* (runner.go:58, 98, group.go:74, 83-89).
THEOREM RequestsAreUpToDate == Spec => []RequestsUseEarlierExports
<1>1. RunInv /\ GivenInv => RequestsUseEarlierExports
  BY DEF GivenInv, GivenOK, Given, RequestsUseEarlierExports, Results
<1> QED
  BY <1>1, InitEstablishesRunInv, NextKeepsRunInv, GivenInit, NextKeepsGiven, PTL DEF Spec
=============================================================================
