----------------------------- MODULE WsExecutor -----------------------------
(***************************************************************************)
(* One WebSocket step (internal/executor/websocket/websocket.go, Execute): *)
(* the goroutine that runs the operations, the background reader it        *)
(* starts, the peer, and the timers the operations wait on.                *)
(*                                                                         *)
(* - Every block between wsc.mu.Lock and wsc.mu.Unlock is one step.        *)
(* - Timers count down in ticks; a goroutine may run arbitrarily late      *)
(*   after its timer is due, and a select with both cases ready takes      *)
(*   either.                                                               *)
(* - "match" is the set of messages matchMessage accepts; an operation     *)
(*   exports and a payload references at most one context variable; a      *)
(*   collect's export path selects element 0 of the collected array.       *)
(***************************************************************************)
EXTENDS Integers, Sequences, SequencesExt

CONSTANTS
    Message,            \* text frames the peer can send
    Json,               \* those of them that are valid JSON
    Name,               \* context variables
    Value,              \* values a context variable can hold
    Null,               \* no variable, no value
    Extract,            \* the value an export path finds in a message, or Null
    Programs,           \* the operation lists the step may be given
    Presets,            \* the run contexts the step may be started in
    PollTicks,          \* the 50 ms poll interval of await, in ticks
    DefaultAwait,       \* the 5 s default timeout of await, in ticks
    DefaultCollect,     \* the 3 s default timeout of collect, in ticks
    MaxMsgs             \* bound: frames the peer sends in one step

OpType == {"send", "await", "collect", "other"}

Operation ==
    [type : OpType, disabled : BOOLEAN, timeout : Int, match : SUBSET Message,
     export : Name \cup {Null}, uses : Name \cup {Null}]

Context == [Name -> Value \cup {Null}]

ASSUME DataAssumption ==
    /\ Json \subseteq Message
    /\ Null \notin Name \cup Value \cup Message
    /\ Extract \in [Message -> Value \cup {Null}]
    /\ \A m \in Message \ Json : Extract[m] = Null

ASSUME InputAssumption ==
    /\ Programs \subseteq Seq(Operation)
    /\ Presets \subseteq Context

ASSUME TimerAssumption ==
    /\ PollTicks \in Nat \ {0}
    /\ DefaultAwait \in Nat \ {0}
    /\ DefaultCollect \in Nat \ {0}
    /\ MaxMsgs \in Nat

VARIABLES
    ops,                \* action.Operations, after the runner's injection
    preset,             \* the context the runner injected from
    pc,                 \* where the operation goroutine is
    logs,               \* opLogs: one [status, collected] per operation begun
    waitLeft,           \* ticks before the operation's timeout context is done
    pollLeft,           \* ticks before time.After(50ms) fires
    matchIdx,           \* await's match, found in one critical section and
                        \* used in the next
    ctxDone,            \* the run's deadline passed or its client went away
    conn,               \* our end: "none", "open", "closed"
    peer,               \* "open", "stalled" while it reads nothing and the
                        \* buffers towards it are full, or "gone"
    wire,               \* frames sent and not yet read
    reader,             \* the reader: "none", "check", "read", "held", "exited"
    held,               \* the frame read and not yet queued, or Null
    readCancelled,      \* readCtx's own cancel was called
    msgQueue,           \* wsc.msgQueue
    allMessages,        \* messages taken by the operations so far
    runCtx,             \* the run's shared context
    values,             \* res.Values
    sent,               \* what each sent frame's reference resolved to
    status,             \* res.Status
    summary,            \* res.ResponseSummary
    payload,            \* how many logs res.RawPayload holds
    delivered           \* history: every frame the reader ever queued

inputVars == <<ops, preset>>
timerVars == <<waitLeft, pollLeft>>
netVars == <<conn, peer, wire>>
readerVars == <<reader, held>>
inboxVars == <<msgQueue, allMessages>>
exportVars == <<runCtx, values>>
resultVars == <<status, summary, payload>>
vars == <<inputVars, pc, logs, timerVars, matchIdx, ctxDone, netVars, readerVars,
          readCancelled, inboxVars, exportVars, sent, resultVars, delivered>>

-----------------------------------------------------------------------------
Op == ops[Len(logs) + 1]

AtOp(type) ==
    /\ pc = "loop"
    /\ Len(logs) < Len(ops)
    /\ ~Op.disabled
    /\ Op.type = type

\* Mutant: a negative timeout is kept as it is.
TimerOfUnclamped(timeout, default) == IF timeout = 0 THEN default ELSE timeout

\* A zero timeout means the default; context.WithTimeout of a negative one is
\* done at once.
TimerOf(timeout, default) ==
    IF timeout = 0 THEN default ELSE IF timeout < 0 THEN 0 ELSE timeout

\* Mutant: await settles for any queued match.
AnyMatch(queue, S, i) == i \in DOMAIN queue /\ queue[i] \in S

FirstMatch(queue, S, i) ==
    /\ i \in DOMAIN queue
    /\ queue[i] \in S
    /\ \A j \in 1..(i - 1) : queue[j] \notin S

\* Mutant: the reader queues the newest frame first.
EnqueueNewestFirst(queue, m) == <<m>> \o queue

Enqueue(queue, m) == Append(queue, m)

\* Mutants: the queue is cleared with the match, or keeps the match.
ClearQueue(queue, n) == <<>>

KeepMatch(queue, n) == SubSeq(queue, n, Len(queue))

\* What await leaves queued once it consumed the first n messages.
Rest(queue, n) == SubSeq(queue, n + 1, Len(queue))

HasMatch(queue, S) == \E i \in DOMAIN queue : queue[i] \in S

AllJson(msgs) == \A i \in DOMAIN msgs : msgs[i] \in Json

\* Mutant: await exports from the first message it consumed.
AwaitFirstValue(msgs) == IF msgs = <<>> THEN Null ELSE Extract[msgs[1]]

\* await extracts from the matched message, the last it took; collect from the
\* array it marshals, which fails as a whole when one message is not JSON.
AwaitValue(msgs) == IF msgs = <<>> THEN Null ELSE Extract[msgs[Len(msgs)]]

CollectValue(msgs) ==
    IF msgs # <<>> /\ AllJson(msgs) THEN Extract[msgs[1]] ELSE Null

Log(s, msgs) == [status |-> s, collected |-> msgs]

\* An extraction that fails leaves the context and res.Values alone.
ExportTo(name, value) ==
    IF name = Null \/ value = Null
    THEN UNCHANGED exportVars
    ELSE /\ runCtx' = [runCtx EXCEPT ![name] = value]
         /\ values' = [values EXCEPT ![name] = value]

\* What ${ctx.name} in a payload becomes: the runner has already substituted
\* every variable it knew before the step, the send substitutes the rest.
Resolve(name) ==
    IF name = Null THEN Null
    ELSE IF preset[name] # Null THEN preset[name] ELSE runCtx[name]

\* res.Status = failed, the log appended and attached, return.
FailOp(msgs) ==
    /\ logs' = Append(logs, Log("failed", msgs))
    /\ status' = "failed"
    /\ payload' = Len(logs) + 1
    /\ pc' = "cancel"
    /\ UNCHANGED summary

\* Mutant: only the run's context ends a wait.
NeverExpired == ctxDone

\* waitCtx.Done() or collectCtx.Done() is ready.
Expired == waitLeft = 0 \/ ctxDone

-----------------------------------------------------------------------------
Init ==
    /\ ops \in Programs
    /\ preset \in Presets
    /\ pc = "dial"
    /\ logs = <<>>
    /\ waitLeft = 0 /\ pollLeft = 0 /\ matchIdx = 0
    /\ ctxDone = FALSE
    /\ conn = "none" /\ peer = "open" /\ wire = <<>>
    /\ reader = "none" /\ held = Null /\ readCancelled = FALSE
    /\ msgQueue = <<>> /\ allMessages = <<>> /\ delivered = <<>>
    /\ runCtx = preset
    /\ values = [n \in Name |-> Null]
    /\ sent = <<>>
    /\ status = "passed" /\ summary = <<>> /\ payload = 0

\* Dial does not take ctx: it succeeds or fails whether or not ctx is done.
DialOk ==
    /\ pc = "dial"
    /\ conn' = "open"
    /\ reader' = "check"
    /\ pc' = "loop"
    /\ UNCHANGED <<inputVars, logs, timerVars, matchIdx, ctxDone, peer, wire, held,
                   readCancelled, inboxVars, exportVars, sent, resultVars, delivered>>

DialFail ==
    /\ pc = "dial"
    /\ status' = "failed"
    /\ pc' = "returned"
    /\ UNCHANGED <<inputVars, logs, timerVars, matchIdx, ctxDone, netVars, readerVars,
                   readCancelled, inboxVars, exportVars, sent, summary, payload,
                   delivered>>

SkipOp ==
    /\ pc = "loop"
    /\ Len(logs) < Len(ops)
    /\ Op.disabled
    /\ logs' = Append(logs, Log("skipped", <<>>))
    /\ UNCHANGED <<inputVars, pc, timerVars, matchIdx, ctxDone, netVars, readerVars,
                   readCancelled, inboxVars, exportVars, sent, resultVars, delivered>>

\* WriteMessage has no deadline and does not look at ctx: it blocks as long as
\* the peer reads nothing.  It can succeed after the peer is gone, when the frame
\* is only buffered.
SendOk ==
    /\ AtOp("send")
    /\ peer # "stalled"
    /\ sent' = Append(sent, Resolve(Op.uses))
    /\ logs' = Append(logs, Log("sent", <<>>))
    /\ UNCHANGED <<inputVars, pc, timerVars, matchIdx, ctxDone, netVars, readerVars,
                   readCancelled, inboxVars, exportVars, resultVars, delivered>>

SendFail ==
    /\ AtOp("send")
    /\ peer = "gone"
    /\ FailOp(<<>>)
    /\ UNCHANGED <<inputVars, timerVars, matchIdx, ctxDone, netVars, readerVars,
                   readCancelled, inboxVars, exportVars, sent, delivered>>

AwaitBegin ==
    /\ AtOp("await")
    /\ waitLeft' = TimerOf(Op.timeout, DefaultAwait)
    /\ pollLeft' = PollTicks
    /\ pc' = "await"
    /\ UNCHANGED <<inputVars, logs, matchIdx, ctxDone, netVars, readerVars,
                   readCancelled, inboxVars, exportVars, sent, resultVars, delivered>>

\* The time.After case: scan the queue under the lock, leave the loop on the
\* first match, start another 50 ms otherwise.
AwaitPoll ==
    /\ pc = "await"
    /\ pollLeft = 0
    /\ \/ \E i \in DOMAIN msgQueue :
            /\ FirstMatch(msgQueue, Op.match, i)
            /\ matchIdx' = i
            /\ pc' = "take"
            /\ UNCHANGED pollLeft
       \/ /\ ~HasMatch(msgQueue, Op.match)
          /\ pollLeft' = PollTicks
          /\ UNCHANGED <<pc, matchIdx>>
    /\ UNCHANGED <<inputVars, logs, waitLeft, ctxDone, netVars, readerVars,
                   readCancelled, inboxVars, exportVars, sent, resultVars, delivered>>

\* The second critical section of a matched await, with the index of the first.
AwaitTake ==
    /\ pc = "take"
    /\ LET msgs == SubSeq(msgQueue, 1, matchIdx)
       IN  /\ msgQueue' = Rest(msgQueue, matchIdx)
           /\ allMessages' = allMessages \o msgs
           /\ logs' = Append(logs, Log("matched", msgs))
           /\ ExportTo(Op.export, AwaitValue(msgs))
    /\ pc' = "loop"
    /\ UNCHANGED <<inputVars, timerVars, matchIdx, ctxDone, netVars, readerVars,
                   readCancelled, sent, resultVars, delivered>>

\* The waitCtx.Done case: fail, and drain the queue into the log.
AwaitTimeout ==
    /\ pc = "await"
    /\ Expired
    /\ msgQueue' = <<>>
    /\ allMessages' = allMessages \o msgQueue
    /\ FailOp(msgQueue)
    /\ UNCHANGED <<inputVars, timerVars, matchIdx, ctxDone, netVars, readerVars,
                   readCancelled, exportVars, sent, delivered>>

CollectBegin ==
    /\ AtOp("collect")
    /\ waitLeft' = TimerOf(Op.timeout, DefaultCollect)
    /\ pc' = "collect"
    /\ UNCHANGED <<inputVars, logs, pollLeft, matchIdx, ctxDone, netVars, readerVars,
                   readCancelled, inboxVars, exportVars, sent, resultVars, delivered>>

CollectEnd ==
    /\ pc = "collect"
    /\ Expired
    /\ msgQueue' = <<>>
    /\ allMessages' = allMessages \o msgQueue
    /\ logs' = Append(logs, Log("collected", msgQueue))
    /\ ExportTo(Op.export, CollectValue(msgQueue))
    /\ pc' = "loop"
    /\ UNCHANGED <<inputVars, timerVars, matchIdx, ctxDone, netVars, readerVars,
                   readCancelled, sent, resultVars, delivered>>

UnknownOp ==
    /\ AtOp("other")
    /\ FailOp(<<>>)
    /\ UNCHANGED <<inputVars, timerVars, matchIdx, ctxDone, netVars, readerVars,
                   readCancelled, inboxVars, exportVars, sent, delivered>>

\* All operations done.  The summary is one json.Marshal of every message, and
\* its error is dropped: one message that is not JSON leaves it empty.
Finish ==
    /\ pc = "loop"
    /\ Len(logs) = Len(ops)
    /\ summary' = IF AllJson(allMessages) THEN allMessages ELSE <<>>
    /\ payload' = Len(logs)
    /\ pc' = "cancel"
    /\ UNCHANGED <<inputVars, logs, timerVars, matchIdx, ctxDone, netVars, readerVars,
                   readCancelled, inboxVars, exportVars, sent, status, delivered>>

\* The deferred calls, last first: cancel(), then the close frame, which is
\* written without a deadline too, and Close.
DeferCancel ==
    /\ pc = "cancel"
    /\ readCancelled' = TRUE
    /\ pc' = "close"
    /\ UNCHANGED <<inputVars, logs, timerVars, matchIdx, ctxDone, netVars, readerVars,
                   inboxVars, exportVars, sent, resultVars, delivered>>

DeferClose ==
    /\ pc = "close"
    /\ peer # "stalled"
    /\ conn' = "closed"
    /\ pc' = "returned"
    /\ UNCHANGED <<inputVars, logs, timerVars, matchIdx, ctxDone, peer, wire,
                   readerVars, readCancelled, inboxVars, exportVars, sent, resultVars,
                   delivered>>

-----------------------------------------------------------------------------
(* The reader goroutine *)

mainUnchanged == <<inputVars, pc, logs, timerVars, matchIdx, ctxDone, readCancelled,
                   allMessages, exportVars, sent, resultVars>>

ReaderCheck ==
    /\ reader = "check"
    /\ reader' = IF readCancelled \/ ctxDone THEN "exited" ELSE "read"
    /\ UNCHANGED <<mainUnchanged, netVars, held, msgQueue, delivered>>

\* A frame already buffered is still returned after Close.
ReaderReceive ==
    /\ reader = "read"
    /\ wire # <<>>
    /\ held' = Head(wire)
    /\ wire' = Tail(wire)
    /\ reader' = "held"
    /\ UNCHANGED <<mainUnchanged, conn, peer, msgQueue, delivered>>

ReaderError ==
    /\ reader = "read"
    /\ conn = "closed" \/ (peer = "gone" /\ wire = <<>>)
    /\ reader' = "exited"
    /\ UNCHANGED <<mainUnchanged, netVars, held, msgQueue, delivered>>

ReaderEnqueue ==
    /\ reader = "held"
    /\ msgQueue' = Enqueue(msgQueue, held)
    /\ delivered' = Append(delivered, held)
    /\ held' = Null
    /\ reader' = "check"
    /\ UNCHANGED <<mainUnchanged, netVars>>

-----------------------------------------------------------------------------
(* The environment: the peer, the clock, and the run's context *)

envUnchanged == <<inputVars, pc, logs, matchIdx, readerVars, readCancelled, inboxVars,
                  exportVars, sent, resultVars, delivered>>

InFlight == Len(wire) + Len(delivered) + (IF reader = "held" THEN 1 ELSE 0)

PeerSend(m) ==
    /\ conn = "open" /\ peer # "gone"
    /\ InFlight < MaxMsgs
    /\ wire' = Append(wire, m)
    /\ UNCHANGED <<envUnchanged, timerVars, ctxDone, conn, peer>>

\* A dropped connection may lose the newest frames.
PeerDrop ==
    /\ conn = "open" /\ peer # "gone"
    /\ peer' = "gone"
    /\ \E n \in 0..Len(wire) : wire' = SubSeq(wire, 1, n)
    /\ UNCHANGED <<envUnchanged, timerVars, ctxDone, conn>>

\* The peer stops reading until what we write no longer fits, and may resume.
PeerStall ==
    /\ conn = "open" /\ peer = "open"
    /\ peer' = "stalled"
    /\ UNCHANGED <<envUnchanged, timerVars, ctxDone, conn, wire>>

PeerResume ==
    /\ peer = "stalled"
    /\ peer' = "open"
    /\ UNCHANGED <<envUnchanged, timerVars, ctxDone, conn, wire>>

Tick ==
    /\ pc \in {"await", "collect"}
    /\ waitLeft > 0 \/ (pc = "await" /\ pollLeft > 0)
    /\ waitLeft' = IF waitLeft > 0 THEN waitLeft - 1 ELSE 0
    /\ pollLeft' = IF pc = "await" /\ pollLeft > 0 THEN pollLeft - 1 ELSE pollLeft
    /\ UNCHANGED <<envUnchanged, ctxDone, netVars>>

CtxDone ==
    /\ ~ctxDone
    /\ pc # "returned"
    /\ ctxDone' = TRUE
    /\ UNCHANGED <<envUnchanged, timerVars, netVars>>

-----------------------------------------------------------------------------
Dial == DialOk \/ DialFail

RunOp ==
    \/ SkipOp \/ SendOk \/ SendFail \/ UnknownOp
    \/ AwaitBegin \/ AwaitPoll \/ AwaitTake \/ AwaitTimeout
    \/ CollectBegin \/ CollectEnd

Return == Finish \/ DeferCancel \/ DeferClose

Main == Dial \/ RunOp \/ Return

Reader == ReaderCheck \/ ReaderReceive \/ ReaderError \/ ReaderEnqueue

Peer == PeerDrop \/ PeerStall \/ PeerResume \/ \E m \in Message : PeerSend(m)

Next == Main \/ Reader \/ Peer \/ Tick \/ CtxDone

Spec == Init /\ [][Next]_vars

(***************************************************************************)
(* The Go scheduler runs a goroutine that stays runnable (Main, Reader)    *)
(* and time passes (Tick).  AwaitTimeout has its own fairness: a select    *)
(* whose Done case stays ready does not pick the other case for ever.      *)
(* Nothing is assumed of the peer or of the run's context: a write to a    *)
(* peer that reads nothing is not enabled, so Main may stay there for good.*)
(***************************************************************************)
Fairness ==
    /\ WF_vars(Main)
    /\ WF_vars(AwaitTimeout)
    /\ WF_vars(Reader)
    /\ WF_vars(Tick)

FairSpec == Spec /\ Fairness

-----------------------------------------------------------------------------
LogStatus == {"skipped", "sent", "matched", "collected", "failed"}

\* Types of the variables.
TypeOK ==
    /\ ops \in Programs
    /\ preset \in Presets
    /\ pc \in {"dial", "loop", "await", "take", "collect", "cancel", "close", "returned"}
    /\ logs \in Seq([status : LogStatus, collected : Seq(Message)])
    /\ Len(logs) <= Len(ops)
    /\ waitLeft \in Nat /\ pollLeft \in 0..PollTicks /\ matchIdx \in Nat
    /\ ctxDone \in BOOLEAN
    /\ conn \in {"none", "open", "closed"} /\ peer \in {"open", "stalled", "gone"}
    /\ wire \in Seq(Message)
    /\ reader \in {"none", "check", "read", "held", "exited"}
    /\ held \in Message \cup {Null}
    /\ (reader = "held") = (held # Null)
    /\ readCancelled \in BOOLEAN
    /\ msgQueue \in Seq(Message)
    /\ allMessages \in Seq(Message)
    /\ delivered \in Seq(Message)
    /\ runCtx \in Context
    /\ values \in Context
    /\ sent \in Seq(Value \cup {Null})
    /\ status \in {"passed", "failed"}
    /\ summary \in Seq(Message)
    /\ payload \in 0..Len(ops)

\* Every message the reader queued is either taken or still queued, once and in
\* arrival order, although the reader appends between the two critical sections
\* of an await (lines 293-319) and while a timeout or a collect drains.
NoMessageLost == delivered = allMessages \o msgQueue

\* The index await found is still the first match when the second critical
\* section uses it (lines 301, 313-317), however many messages came between.
MatchIndexValid == pc = "take" => FirstMatch(msgQueue, Op.match, matchIdx)

\* A matched await consumed up to the first message its match accepts, and no
\* further (docs/design/03_websocket_executor_spec.md:111).
MatchedEndsAtFirstMatch ==
    \A i \in DOMAIN logs :
        logs[i].status = "matched" =>
            LET msgs == logs[i].collected
            IN  /\ msgs # <<>>
                /\ msgs[Len(msgs)] \in ops[i].match
                /\ \A j \in 1..(Len(msgs) - 1) : msgs[j] \notin ops[i].match

\* The value log i's operation exported, or Null.
ExportedBy(i) ==
    LET msgs == logs[i].collected
    IN  IF logs[i].status = "matched" THEN Extract[msgs[Len(msgs)]]
        ELSE IF logs[i].status = "collected" /\ msgs # <<>> /\ AllJson(msgs)
             THEN Extract[msgs[1]] ELSE Null

\* A context variable holds what the latest successful export of the step put
\* there, taken from that operation's own messages, and res.Values reports it;
\* with no export it is what the step was started with.
ContextIsLatestExport ==
    \A n \in Name :
        LET exports == {i \in DOMAIN logs : ops[i].export = n /\ ExportedBy(i) # Null}
        IN  IF exports = {} THEN runCtx[n] = preset[n] /\ values[n] = Null
            ELSE LET i == Max(exports)
                 IN  runCtx[n] = ExportedBy(i) /\ values[n] = ExportedBy(i)

\* The step returns when the peer sends nothing, sends what is not awaited or
\* drops the connection, because every wait has a timeout.  Its writes have none:
\* a peer that stops reading for good is the exception.
StepReturns == <>[](peer # "stalled") => <>(pc = "returned")

\* The queue and the messages taken from it are a MessageInbox.
Inbox == INSTANCE MessageInbox WITH
    pending <- msgQueue, taken <- allMessages,
    closed <- pc \in {"cancel", "close", "returned"}

ImplementsInbox == Inbox!Spec
=============================================================================
