------------------------------- MODULE Runner -------------------------------
(***************************************************************************)
(* One run of a test case (internal/runner/runner.go, RunWithContext), with *)
(* the sub-runs its group and include steps start on the same execution    *)
(* context.  A frame is one activation of RunWithContext; the bottom frame *)
(* reports progress through the callback, the others have none.            *)
(*                                                                         *)
(* - A response is the function from the json paths in use to what         *)
(*   jsonpath.Extract finds in ResponseSummary, Null where it fails.       *)
(* - A step references at most one context variable in its action; what    *)
(*   ${ctx.name} became is kept as the step's request.                     *)
(* - What an executor does with its request is left open: it may pass or   *)
(*   fail with any of Responses.                                           *)
(***************************************************************************)
EXTENDS Naturals, Sequences, SequencesExt

CONSTANTS
    Name,               \* context variables
    Value,              \* what they can hold
    Null,               \* no variable, no value
    Path,               \* json paths of assertions and exports
    File,               \* group and include files
    Body,               \* the steps each file holds
    TestCases,          \* the test cases that may be run
    Responses,          \* what an executor may answer
    SubResponses,       \* what a group and an include may answer
    MidExports          \* what a WebSocket step may export while it runs

Kind == {"call", "websocket", "fake", "config", "group", "include", "unregistered"}

\* http, gRPC, database and delay steps fail at once when the context is done;
\* the others do not look at it (a delay of 0 ms counts as one of these).
IgnoresCtx == {"websocket", "fake", "config"}

Export == [as : Name, path : Path]

Step ==
    [kind : Kind, file : File \cup {Null}, uses : Name \cup {Null},
     asserts : SUBSET (Path \X Value), exports : Seq(Export)]

Values == [Name -> Value \cup {Null}]

Response == [Path -> Value \cup {Null}]

ASSUME ValueAssumption ==
    /\ Null \notin Name \cup Value \cup File
    /\ Responses \subseteq Response
    /\ SubResponses \in [{"group", "include"} -> SUBSET Response]
    /\ MidExports \subseteq Values

ASSUME StepAssumption ==
    /\ Body \in [File -> Seq(Step)]
    /\ TestCases \subseteq Seq(Step)
    /\ \A tc \in TestCases \cup {Body[f] : f \in File} : \A k \in DOMAIN tc :
           tc[k].kind \in {"group", "include"} => tc[k].file \in File

VARIABLES
    stack,              \* the activations of RunWithContext, outermost first
    pc,                 \* "loop", "exec" inside Execute, "done", "aborted"
    runCtx,             \* the execution context, shared by all frames
    ctxDone,            \* the run's deadline passed or its client went away
    events,             \* the callback's calls, [index, status]
    broken              \* history: some step failed, at whatever depth

vars == <<stack, pc, runCtx, ctxDone, events, broken>>

-----------------------------------------------------------------------------
NoValues == [n \in Name |-> Null]

NoResponse == [p \in Path |-> Null]

Frame(steps) ==
    [steps |-> steps, results |-> <<>>, status |-> "passed", request |-> Null,
     late |-> FALSE]

Top == stack[Len(stack)]

Current == Top.steps[Len(Top.results) + 1]

\* Mutant: a failure does not break the loop.
OverAtEnd(frame) == Len(frame.results) = Len(frame.steps)

\* The loop of a frame ends after its last step or at its first failure.
Over(frame) ==
    frame.status = "failed" \/ Len(frame.results) = Len(frame.steps)

\* Mutants: the new values take the place of the whole, or never of an old one.
OnlyNew(old, new) == [n \in {m \in Name : new[m] # Null} |-> new[n]]

KeepOld(old, new) == [n \in Name |-> IF old[n] # Null THEN old[n] ELSE new[n]]

Override(old, new) == [n \in Name |-> IF new[n] # Null THEN new[n] ELSE old[n]]

\* What the results recorded for each name, the latest last.
MergeValues(results) ==
    [n \in Name |->
        LET S == {k \in DOMAIN results : results[k].values[n] # Null}
        IN  IF S = {} THEN Null ELSE results[Max(S)].values[n]]

Holds(asserts, resp) == \A a \in asserts : resp[a[1]] = a[2]

\* A path that is not there leaves its variable alone.
ExportsOf(step, resp) ==
    [n \in Name |->
        LET S == {k \in DOMAIN step.exports :
                    step.exports[k].as = n /\ resp[step.exports[k].path] # Null}
        IN  IF S = {} THEN Null ELSE resp[step.exports[Max(S)].path]]

Injected(name) == IF name = Null THEN Null ELSE runCtx[name]

\* Only the outermost run has a callback.
Emit(frames, status) ==
    IF Len(frames) = 1
    THEN Append(events, [index |-> Len(frames[1].results) + 1, status |-> status])
    ELSE events

WithResult(frames, result) ==
    [frames EXCEPT ![Len(frames)].results = Append(@, result),
                   ![Len(frames)].status = result.status]

Result(status, values, request) ==
    [status |-> status, values |-> values, request |-> request]

\* The rest of the loop body once Execute returned in the last of `frames`:
\* assertions, then exports, both only for a step that passed so far.
\* `recorded` is what the executor itself put in Values, `exported` what it
\* put in the context.
Settle(frames, passed, resp, recorded, exported) ==
    LET frame == frames[Len(frames)]
        step == frame.steps[Len(frame.results) + 1]
        ok == passed /\ Holds(step.asserts, resp)
        found == IF ok THEN ExportsOf(step, resp) ELSE NoValues
        status == IF ok THEN "passed" ELSE "failed"
    IN  /\ stack' = WithResult(frames, Result(status, Override(recorded, found),
                                              frame.request))
        /\ runCtx' = Override(Override(runCtx, exported), found)
        /\ events' = Emit(frames, status)
        /\ broken' = (broken \/ ~ok)
        /\ pc' = "loop"
        /\ UNCHANGED ctxDone

-----------------------------------------------------------------------------
Init ==
    /\ \E tc \in TestCases : stack = <<Frame(tc)>>
    /\ pc = "loop"
    /\ runCtx = NoValues
    /\ ctxDone = FALSE
    /\ events = <<>>
    /\ broken = FALSE

\* The callback, the registry, the injection; nothing looks at the context.
Begin ==
    /\ pc = "loop"
    /\ ~Over(Top)
    /\ Current.kind # "unregistered"
    /\ events' = Emit(stack, "running")
    /\ stack' = [stack EXCEPT ![Len(stack)].request = Injected(Current.uses),
                              ![Len(stack)].late = ctxDone]
    /\ pc' = "exec"
    /\ UNCHANGED <<runCtx, ctxDone, broken>>

\* The step fails and the loop breaks before the second call of the callback.
Unregistered ==
    /\ pc = "loop"
    /\ ~Over(Top)
    /\ Current.kind = "unregistered"
    /\ events' = Emit(stack, "running")
    /\ stack' = WithResult(stack, Result("failed", NoValues, Null))
    /\ broken' = TRUE
    /\ UNCHANGED <<pc, runCtx, ctxDone>>

IsSub(step) == step.kind \in {"group", "include"}

ExecutePass ==
    /\ pc = "exec"
    /\ ~IsSub(Current)
    /\ Top.late => Current.kind \in IgnoresCtx
    /\ \E resp \in Responses,
          mid \in IF Current.kind = "websocket" THEN MidExports ELSE {NoValues} :
            Settle(stack, TRUE, resp, mid, mid)

\* A WebSocket step that fails keeps what it exported before.
ExecuteFail ==
    /\ pc = "exec"
    /\ ~IsSub(Current)
    /\ \E mid \in IF Current.kind = "websocket" THEN MidExports ELSE {NoValues} :
            Settle(stack, FALSE, NoResponse, mid, mid)

\* fake_http_start with two routes of one path: mux.HandleFunc panics, the
\* server recovers and drops the request.
ExecutePanic ==
    /\ pc = "exec"
    /\ Current.kind = "fake"
    /\ pc' = "aborted"
    /\ UNCHANGED <<stack, runCtx, ctxDone, events, broken>>

\* The file is missing or malformed.
SubUnreadable ==
    /\ pc = "exec"
    /\ IsSub(Current)
    /\ Settle(stack, FALSE, NoResponse, NoValues, NoValues)

SubEnter ==
    /\ pc = "exec"
    /\ IsSub(Current)
    /\ stack' = Append(stack, Frame(Body[Current.file]))
    /\ pc' = "loop"
    /\ UNCHANGED <<runCtx, ctxDone, events, broken>>

\* Mutants: a sub-run that failed is not returned from, or its status is left behind.
SubReturnOnlyPassed ==
    /\ pc = "loop"
    /\ Len(stack) > 1
    /\ Over(Top)
    /\ Top.status = "passed"
    /\ Settle(Front(stack), TRUE, NoResponse, MergeValues(Top.results), NoValues)

SubReturnPassed ==
    /\ pc = "loop"
    /\ Len(stack) > 1
    /\ Over(Top)
    /\ Settle(Front(stack), TRUE, NoResponse, MergeValues(Top.results), NoValues)

\* The sub-run is over: its values bubble up, and the step that started it is
\* settled like any other.
SubReturn ==
    /\ pc = "loop"
    /\ Len(stack) > 1
    /\ Over(Top)
    /\ LET outer == Front(stack)
           frame == outer[Len(outer)]
           step == frame.steps[Len(frame.results) + 1]
       IN  \E resp \in SubResponses[step.kind] :
               Settle(outer, Top.status = "passed", resp,
                      MergeValues(Top.results), NoValues)

Finish ==
    /\ pc = "loop"
    /\ Len(stack) = 1
    /\ Over(Top)
    /\ pc' = "done"
    /\ UNCHANGED <<stack, runCtx, ctxDone, events, broken>>

CtxDone ==
    /\ ~ctxDone
    /\ pc \in {"loop", "exec"}
    /\ ctxDone' = TRUE
    /\ UNCHANGED <<stack, pc, runCtx, events, broken>>

Run ==
    \/ Begin \/ Unregistered
    \/ ExecutePass \/ ExecuteFail \/ ExecutePanic
    \/ SubUnreadable \/ SubEnter \/ SubReturn
    \/ Finish

Next == Run \/ CtxDone

Spec == Init /\ [][Next]_vars

\* The handler's goroutine runs, and every executor returns: the calls have
\* timeouts, and WsExecutor shows it of a WebSocket step.
FairSpec == Spec /\ WF_vars(Run)

-----------------------------------------------------------------------------
ResultType ==
    [status : {"passed", "failed"}, values : Values, request : Value \cup {Null}]

FrameType ==
    [steps : Seq(Step), results : Seq(ResultType), status : {"passed", "failed"},
     request : Value \cup {Null}, late : BOOLEAN]

\* Types of the variables.
TypeOK ==
    /\ stack \in Seq(FrameType)
    /\ stack # <<>>
    /\ \A f \in DOMAIN stack : Len(stack[f].results) <= Len(stack[f].steps)
    /\ pc \in {"loop", "exec", "done", "aborted"}
    /\ runCtx \in Values
    /\ ctxDone \in BOOLEAN
    /\ events \in Seq([index : Nat \ {0}, status : {"running", "passed", "failed"}])
    /\ broken \in BOOLEAN

Results == stack[1].results

\* Once a step failed, at whatever depth, no step is begun any more.
NothingAfterFailure == [][(Begin \/ Unregistered) => ~broken]_vars

\* The run fails exactly if some step failed, and then the last result is the
\* failed one (docs/design/10_group_executor_spec.md:97).
FailurePropagates ==
    pc = "done" =>
        /\ (stack[1].status = "failed") = broken
        /\ \A k \in DOMAIN Results :
              Results[k].status = "failed" <=> (broken /\ k = Len(Results))
        /\ ~broken => Len(Results) = Len(stack[1].steps)

\* A step of the test case was given the value the steps before it exported
\* last, those of groups included (docs/design/10_group_executor_spec.md:69).
RequestsUseEarlierExports ==
    \A k \in DOMAIN Results :
        LET step == stack[1].steps[k]
        IN  Results[k].request =
                IF step.uses = Null \/ step.kind = "unregistered" THEN Null
                ELSE MergeValues(SubSeq(Results, 1, k - 1))[step.uses]

\* Every run ends, unless files include one another in a circle.
RunEnds == <>(pc \in {"done", "aborted"})
=============================================================================
