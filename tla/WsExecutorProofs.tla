-------------------------- MODULE WsExecutorProofs --------------------------
(***************************************************************************)
(* Proofs about WsExecutor, for every set of messages, operation list,     *)
(* run context and timer length.                                           *)
(***************************************************************************)
EXTENDS WsExecutor, SequenceTheorems, TLAPS

\* The operation goroutine only waits inside an operation it has not logged.
InsideOperation == pc \in {"await", "take", "collect"} => Len(logs) < Len(ops)

\* The match index of await's first critical section lies in the queue.
IndexInQueue == pc = "take" => matchIdx \in 1..Len(msgQueue)

\* The reader is only started once the connection is up.
ReaderAfterDial == pc = "dial" => reader = "none"

TypeInv == TypeOK /\ InsideOperation /\ IndexInQueue /\ ReaderAfterDial

LogRecord == [status : LogStatus, collected : Seq(Message)]

-----------------------------------------------------------------------------
(* Lemmas about the helpers *)

\* The current operation is a well-formed one.
LEMMA CurrentOp ==
    ASSUME TypeOK, Len(logs) < Len(ops)
    PROVE  /\ Op \in Operation
           /\ Op.export \in Name \cup {Null}
           /\ Op.uses \in Name \cup {Null}
           /\ Op.timeout \in Int
<1>1. ops \in Seq(Operation)
  BY InputAssumption DEF TypeOK
<1>2. Len(logs) + 1 \in 1..Len(ops)
  BY <1>1 DEF TypeOK
<1>3. Op \in Operation
  BY <1>1, <1>2, ElementOfSeq DEF Op
<1> QED
  BY <1>3 DEF Operation

\* Every wait is a natural number of ticks.
LEMMA TimerOfNat ==
    ASSUME NEW t \in Int, NEW d \in Nat
    PROVE  TimerOf(t, d) \in Nat
BY DEF TimerOf

\* Splitting a queue after its first n messages loses and reorders nothing.
LEMMA SplitQueue ==
    ASSUME NEW q \in Seq(Message), NEW n \in 0..Len(q)
    PROVE  /\ SubSeq(q, 1, n) \in Seq(Message)
           /\ Rest(q, n) \in Seq(Message)
           /\ SubSeq(q, 1, n) \o Rest(q, n) = q
<1>1. SubSeq(q, 1, n) \in Seq(Message) /\ Rest(q, n) \in Seq(Message)
  BY DEF Rest
<1>2. SubSeq(q, 1, n) \o SubSeq(q, n + 1, Len(q)) = SubSeq(q, 1, Len(q))
  <2>1. 1 \in 1..(Len(q) + 1) /\ n \in (1 - 1)..Len(q) /\ Len(q) \in n..Len(q)
    OBVIOUS
  <2> QED
    BY <2>1, ConcatAdjacentSubSeq
<1> QED
  BY <1>1, <1>2, SubSeqFull DEF Rest

\* An export keeps the context and res.Values well-formed.
LEMMA ExportKeepsType ==
    ASSUME runCtx \in Context, values \in Context,
           NEW name \in Name \cup {Null}, NEW value \in Value \cup {Null},
           ExportTo(name, value)
    PROVE  runCtx' \in Context /\ values' \in Context
BY DEF ExportTo, Context, exportVars

LEMMA AwaitValueType ==
    ASSUME NEW msgs \in Seq(Message)
    PROVE  AwaitValue(msgs) \in Value \cup {Null}
<1>1. CASE msgs = <<>>
  BY <1>1 DEF AwaitValue
<1>2. CASE msgs # <<>>
  <2>1. msgs[Len(msgs)] \in Message
    BY <1>2
  <2> QED
    BY <1>2, <2>1, DataAssumption DEF AwaitValue
<1> QED
  BY <1>1, <1>2

LEMMA CollectValueType ==
    ASSUME NEW msgs \in Seq(Message)
    PROVE  CollectValue(msgs) \in Value \cup {Null}
<1>1. CASE msgs # <<>> /\ AllJson(msgs)
  <2>1. msgs[1] \in Message
    BY <1>1
  <2> QED
    BY <1>1, <2>1, DataAssumption DEF CollectValue
<1>2. CASE ~(msgs # <<>> /\ AllJson(msgs))
  BY <1>2 DEF CollectValue
<1> QED
  BY <1>1, <1>2

\* Appending the log of the current operation keeps the logs within the
\* operations.
LEMMA LogKeepsType ==
    ASSUME TypeOK, Len(logs) < Len(ops), NEW s \in LogStatus,
           NEW msgs \in Seq(Message), logs' = Append(logs, Log(s, msgs)),
           UNCHANGED ops
    PROVE  /\ logs' \in Seq(LogRecord)
           /\ Len(logs') = Len(logs) + 1
           /\ Len(logs') <= Len(ops')
<1>1. Log(s, msgs) \in LogRecord
  BY DEF Log, LogRecord
<1>2. logs \in Seq(LogRecord)
  BY DEF TypeOK, LogRecord
<1> QED
  BY <1>1, <1>2, AppendProperties, InputAssumption DEF TypeOK

-----------------------------------------------------------------------------
(* Type correctness *)

LEMMA TypeInit == Init => TypeInv
<1> SUFFICES ASSUME Init PROVE TypeInv
  OBVIOUS
<1>1. /\ logs \in Seq(LogRecord) /\ wire \in Seq(Message)
      /\ msgQueue \in Seq(Message) /\ allMessages \in Seq(Message)
      /\ delivered \in Seq(Message) /\ summary \in Seq(Message)
      /\ sent \in Seq(Value \cup {Null}) /\ Len(logs) = 0
  BY DEF Init
<1>2. ops \in Seq(Operation) /\ Len(ops) \in Nat
  BY InputAssumption DEF Init
<1>3. runCtx \in Context /\ values \in Context
  BY InputAssumption DEF Init, Context
<1>4. InsideOperation /\ IndexInQueue /\ ReaderAfterDial
  BY DEF Init, InsideOperation, IndexInQueue, ReaderAfterDial
<1>5. pollLeft \in 0..PollTicks /\ payload \in 0..Len(ops) /\ Len(logs) <= Len(ops)
  BY <1>1, <1>2, TimerAssumption DEF Init
<1>6. TypeOK
  BY <1>1, <1>3, <1>5 DEF Init, TypeOK, LogRecord
<1> QED
  BY <1>4, <1>6 DEF TypeInv

\* An operation that fails is logged, attached and ends the step.
LEMMA FailOpKeepsType ==
    ASSUME TypeOK, Len(logs) < Len(ops), NEW msgs \in Seq(Message),
           FailOp(msgs), UNCHANGED ops
    PROVE  /\ logs' \in Seq(LogRecord) /\ Len(logs') <= Len(ops')
           /\ status' \in {"passed", "failed"} /\ payload' \in 0..Len(ops')
           /\ summary' \in Seq(Message) /\ pc' = "cancel"
<1>1. logs' \in Seq(LogRecord) /\ Len(logs') <= Len(ops')
  BY LogKeepsType DEF FailOp, LogStatus
<1>2. payload' \in 0..Len(ops')
  BY InputAssumption DEF TypeOK, FailOp
<1> QED
  BY <1>1, <1>2 DEF FailOp, TypeOK

LEMMA MainKeepsType == TypeInv /\ Main => TypeInv'
<1> SUFFICES ASSUME TypeInv, Main PROVE TypeInv'
  OBVIOUS
<1> USE DEF TypeInv, InsideOperation, IndexInQueue, ReaderAfterDial, inputVars, timerVars, netVars,
            readerVars, inboxVars, exportVars, resultVars
<1>0. /\ ops \in Seq(Operation) /\ Len(ops) \in Nat
      /\ logs \in Seq(LogRecord) /\ Len(logs) \in Nat
  BY InputAssumption DEF TypeOK, LogRecord
<1>1. CASE Dial
  <2>1. CASE DialOk
    BY <2>1 DEF DialOk, TypeOK
  <2>2. CASE DialFail
    BY <2>2 DEF DialFail, TypeOK
  <2> QED
    BY <1>1, <2>1, <2>2 DEF Dial
<1>2. CASE SkipOp
  <2>1. logs' \in Seq(LogRecord) /\ Len(logs') <= Len(ops')
    BY <1>2, LogKeepsType, EmptySeq DEF SkipOp, LogStatus
  <2> QED
    BY <1>2, <2>1 DEF SkipOp, TypeOK, LogRecord
<1>3. CASE SendOk
  <2>1. logs' \in Seq(LogRecord) /\ Len(logs') <= Len(ops')
    BY <1>3, LogKeepsType, EmptySeq DEF SendOk, AtOp, LogStatus
  <2>2. Resolve(Op.uses) \in Value \cup {Null}
    BY <1>3, CurrentOp, InputAssumption DEF SendOk, AtOp, Resolve, TypeOK, Context
  <2>3. sent' \in Seq(Value \cup {Null})
    BY <1>3, <2>2 DEF SendOk, TypeOK
  <2> QED
    BY <1>3, <2>1, <2>3 DEF SendOk, AtOp, TypeOK, LogRecord
<1>4. CASE SendFail
  <2>1. /\ logs' \in Seq(LogRecord) /\ Len(logs') <= Len(ops')
        /\ status' \in {"passed", "failed"} /\ payload' \in 0..Len(ops')
        /\ summary' \in Seq(Message) /\ pc' = "cancel"
    BY <1>4, FailOpKeepsType, EmptySeq DEF SendFail, AtOp
  <2> QED
    BY <1>4, <2>1 DEF SendFail, TypeOK, LogRecord
<1>5. CASE UnknownOp
  <2>1. /\ logs' \in Seq(LogRecord) /\ Len(logs') <= Len(ops')
        /\ status' \in {"passed", "failed"} /\ payload' \in 0..Len(ops')
        /\ summary' \in Seq(Message) /\ pc' = "cancel"
    BY <1>5, FailOpKeepsType, EmptySeq DEF UnknownOp, AtOp
  <2> QED
    BY <1>5, <2>1 DEF UnknownOp, TypeOK, LogRecord
<1>6. CASE AwaitBegin
  <2>1. waitLeft' \in Nat /\ pollLeft' \in 0..PollTicks
    <3>1. Op.timeout \in Int
      BY <1>6, CurrentOp DEF AwaitBegin, AtOp
    <3>2. TimerOf(Op.timeout, DefaultAwait) \in Nat
      BY <3>1, TimerOfNat, TimerAssumption
    <3> QED
      BY <1>6, <3>2, TimerAssumption DEF AwaitBegin
  <2> QED
    BY <1>6, <2>1 DEF AwaitBegin, AtOp, TypeOK
<1>7. CASE AwaitPoll
  <2>1. CASE \E i \in DOMAIN msgQueue : FirstMatch(msgQueue, Op.match, i)
                 /\ matchIdx' = i /\ pc' = "take" /\ UNCHANGED pollLeft
    <3>1. matchIdx' \in 1..Len(msgQueue) /\ pc' = "take" /\ UNCHANGED pollLeft
      BY <2>1 DEF TypeOK
    <3> QED
      BY <1>7, <3>1 DEF AwaitPoll, TypeOK
  <2>2. CASE pollLeft' = PollTicks /\ UNCHANGED <<pc, matchIdx>>
    BY <1>7, <2>2, TimerAssumption DEF AwaitPoll, TypeOK
  <2> QED
    BY <1>7, <2>1, <2>2 DEF AwaitPoll
<1>8. CASE AwaitTake
  <2> DEFINE msgs == SubSeq(msgQueue, 1, matchIdx)
  <2>0. msgQueue \in Seq(Message) /\ matchIdx \in 0..Len(msgQueue)
    BY <1>8 DEF AwaitTake, TypeOK
  <2>1. /\ msgs \in Seq(Message) /\ msgQueue' \in Seq(Message)
        /\ allMessages' \in Seq(Message)
    <3>1. msgs \in Seq(Message) /\ Rest(msgQueue, matchIdx) \in Seq(Message)
      BY <2>0, SplitQueue
    <3> QED
      BY <1>8, <3>1, ConcatProperties DEF AwaitTake, TypeOK
  <2>2. logs' \in Seq(LogRecord) /\ Len(logs') <= Len(ops')
    BY <1>8, <2>1, LogKeepsType DEF AwaitTake, LogStatus
  <2>3. runCtx' \in Context /\ values' \in Context
    BY <1>8, <2>1, CurrentOp, AwaitValueType, ExportKeepsType DEF AwaitTake, TypeOK
  <2> QED
    BY <1>8, <2>1, <2>2, <2>3 DEF AwaitTake, TypeOK, LogRecord
<1>9. CASE AwaitTimeout
  <2>1. msgQueue' \in Seq(Message) /\ allMessages' \in Seq(Message)
    BY <1>9, EmptySeq, ConcatProperties DEF AwaitTimeout, TypeOK
  <2>2. /\ logs' \in Seq(LogRecord) /\ Len(logs') <= Len(ops')
        /\ status' \in {"passed", "failed"} /\ payload' \in 0..Len(ops')
        /\ summary' \in Seq(Message) /\ pc' = "cancel"
    BY <1>9, FailOpKeepsType DEF AwaitTimeout, TypeOK
  <2> QED
    BY <1>9, <2>1, <2>2 DEF AwaitTimeout, TypeOK, LogRecord
<1>10. CASE CollectBegin
  <2>1. waitLeft' \in Nat
    BY <1>10, CurrentOp, TimerOfNat, TimerAssumption DEF CollectBegin, AtOp
  <2> QED
    BY <1>10, <2>1 DEF CollectBegin, AtOp, TypeOK
<1>11. CASE CollectEnd
  <2>1. msgQueue' \in Seq(Message) /\ allMessages' \in Seq(Message)
    BY <1>11, EmptySeq, ConcatProperties DEF CollectEnd, TypeOK
  <2>2. logs' \in Seq(LogRecord) /\ Len(logs') <= Len(ops')
    BY <1>11, LogKeepsType DEF CollectEnd, LogStatus, TypeOK
  <2>3. runCtx' \in Context /\ values' \in Context
    BY <1>11, CurrentOp, CollectValueType, ExportKeepsType DEF CollectEnd, TypeOK
  <2> QED
    BY <1>11, <2>1, <2>2, <2>3 DEF CollectEnd, TypeOK, LogRecord
<1>12. CASE Finish
  <2>1. summary' \in Seq(Message)
    BY <1>12, EmptySeq DEF Finish, TypeOK
  <2> QED
    BY <1>0, <1>12, <2>1 DEF Finish, TypeOK
<1>13. CASE DeferCancel
  BY <1>13 DEF DeferCancel, TypeOK
<1>14. CASE DeferClose
  BY <1>14 DEF DeferClose, TypeOK
<1> QED
  BY <1>1, <1>2, <1>3, <1>4, <1>5, <1>6, <1>7, <1>8, <1>9, <1>10, <1>11, <1>12,
     <1>13, <1>14 DEF Main, RunOp, Return

LEMMA ReaderKeepsType == TypeInv /\ Reader => TypeInv'
<1> SUFFICES ASSUME TypeInv, Reader PROVE TypeInv'
  OBVIOUS
<1> USE DEF TypeInv, InsideOperation, IndexInQueue, ReaderAfterDial, mainUnchanged,
            inputVars, timerVars, netVars, exportVars, resultVars
<1>1. CASE ReaderCheck
  BY <1>1 DEF ReaderCheck, TypeOK
<1>2. CASE ReaderReceive
  <2>1. held' \in Message /\ held' # Null /\ wire' \in Seq(Message)
    BY <1>2, HeadTailProperties, DataAssumption DEF ReaderReceive, TypeOK
  <2> QED
    BY <1>2, <2>1 DEF ReaderReceive, TypeOK
<1>3. CASE ReaderError
  BY <1>3 DEF ReaderError, TypeOK
<1>4. CASE ReaderEnqueue
  <2>1. held \in Message
    BY <1>4 DEF ReaderEnqueue, TypeOK
  <2>2. /\ msgQueue' \in Seq(Message) /\ Len(msgQueue') = Len(msgQueue) + 1
        /\ delivered' \in Seq(Message)
    BY <1>4, <2>1, AppendProperties DEF ReaderEnqueue, Enqueue, TypeOK
  <2> QED
    BY <1>4, <2>2 DEF ReaderEnqueue, TypeOK
<1> QED
  BY <1>1, <1>2, <1>3, <1>4 DEF Reader

LEMMA EnvironmentKeepsType == TypeInv /\ (Peer \/ Tick \/ CtxDone) => TypeInv'
<1> SUFFICES ASSUME TypeInv, Peer \/ Tick \/ CtxDone PROVE TypeInv'
  OBVIOUS
<1> USE DEF TypeInv, InsideOperation, IndexInQueue, ReaderAfterDial, envUnchanged,
            inputVars, timerVars, netVars, readerVars, inboxVars, exportVars, resultVars
<1>1. CASE PeerDrop
  <2>1. PICK n \in 0..Len(wire) : wire' = SubSeq(wire, 1, n)
    BY <1>1 DEF PeerDrop
  <2>2. wire' \in Seq(Message)
    BY <2>1, SplitQueue DEF TypeOK
  <2> QED
    BY <1>1, <2>2 DEF PeerDrop, TypeOK
<1>2. ASSUME NEW m \in Message, PeerSend(m) PROVE TypeInv'
  <2>1. wire' \in Seq(Message)
    BY <1>2, AppendProperties DEF PeerSend, TypeOK
  <2> QED
    BY <1>2, <2>1 DEF PeerSend, TypeOK
<1>3. CASE Tick
  <2>1. waitLeft' \in Nat /\ pollLeft' \in 0..PollTicks
    BY <1>3, TimerAssumption DEF Tick, TypeOK
  <2> QED
    BY <1>3, <2>1 DEF Tick, TypeOK
<1>4. CASE CtxDone
  BY <1>4 DEF CtxDone, TypeOK
<1>5. CASE PeerStall \/ PeerResume
  BY <1>5 DEF PeerStall, PeerResume, TypeOK
<1> QED
  BY <1>1, <1>2, <1>3, <1>4, <1>5 DEF Peer

\* The variables keep their types in every behaviour of the step.
THEOREM TypeCorrect == Spec => []TypeInv
<1>1. TypeInv /\ UNCHANGED vars => TypeInv'
  BY DEF vars, inputVars, timerVars, netVars, readerVars, inboxVars, exportVars,
         resultVars, TypeInv, TypeOK, InsideOperation, IndexInQueue, ReaderAfterDial,
         Op, Context
<1>2. TypeInv /\ [Next]_vars => TypeInv'
  BY <1>1, MainKeepsType, ReaderKeepsType, EnvironmentKeepsType DEF Next
<1> QED
  BY <1>2, TypeInit, PTL DEF Spec

\* The type invariant the model-checking runs check.
THEOREM TypeSafe == Spec => []TypeOK
<1>1. TypeInv => TypeOK
  BY DEF TypeInv
<1> QED
  BY <1>1, TypeCorrect, PTL

-----------------------------------------------------------------------------
(* No message is lost or reordered, and an await ends at its first match *)

SafetyInv == NoMessageLost /\ MatchIndexValid /\ MatchedEndsAtFirstMatch

\* What NoMessageLost and MatchIndexValid depend on is unchanged.
LEMMA SafetyStutter ==
    ASSUME SafetyInv,
           UNCHANGED <<ops, logs, matchIdx, msgQueue, allMessages, delivered>>,
           pc' = "take" => pc = "take"
    PROVE  SafetyInv'
BY DEF SafetyInv, NoMessageLost, MatchIndexValid, MatchedEndsAtFirstMatch, Op

\* A log that is not a match leaves the earlier matches as they were.
LEMMA UnmatchedLog ==
    ASSUME TypeInv, MatchedEndsAtFirstMatch, Len(logs) < Len(ops),
           NEW s \in LogStatus \ {"matched"}, NEW msgs \in Seq(Message),
           logs' = Append(logs, Log(s, msgs)), UNCHANGED ops
    PROVE  MatchedEndsAtFirstMatch'
<1>1. logs \in Seq(LogRecord) /\ Log(s, msgs) \in LogRecord
  BY DEF TypeInv, TypeOK, LogRecord, Log
<1>2. /\ DOMAIN logs' = 1..(Len(logs) + 1)
      /\ \A i \in 1..Len(logs) : logs'[i] = logs[i]
      /\ logs'[Len(logs) + 1].status # "matched"
  BY <1>1, AppendProperties, LenProperties DEF Log
<1> QED
  BY <1>1, <1>2 DEF MatchedEndsAtFirstMatch

\* Draining the whole queue keeps arrival order.
LEMMA DrainKeepsOrder ==
    ASSUME TypeInv, NoMessageLost, msgQueue' = <<>>,
           allMessages' = allMessages \o msgQueue, UNCHANGED delivered
    PROVE  NoMessageLost'
<1>1. allMessages \o msgQueue \in Seq(Message)
  BY ConcatProperties DEF TypeInv, TypeOK
<1> QED
  BY <1>1, ConcatEmptySeq DEF NoMessageLost

\* Concatenation of message sequences is associative.
LEMMA ConcatAssoc ==
    ASSUME NEW a \in Seq(Message), NEW b \in Seq(Message), NEW c \in Seq(Message)
    PROVE  (a \o b) \o c = a \o (b \o c)
BY ConcatAssociative, SMT

LEMMA SafetyInit == Init => SafetyInv
<1> SUFFICES ASSUME Init PROVE SafetyInv
  OBVIOUS
<1>1. <<>> = <<>> \o <<>>
  BY ConcatEmptySeq, EmptySeq
<1> QED
  BY <1>1 DEF Init, SafetyInv, NoMessageLost, MatchIndexValid, MatchedEndsAtFirstMatch

\* The take step: the index found under the first lock is still the first match,
\* so the consumed prefix ends there, and prefix and rest make up the queue.
LEMMA TakeIsSafe == TypeInv /\ SafetyInv /\ AwaitTake => SafetyInv'
<1> SUFFICES ASSUME TypeInv, SafetyInv, AwaitTake PROVE SafetyInv'
  OBVIOUS
<1> DEFINE msgs == SubSeq(msgQueue, 1, matchIdx)
<1>1. /\ msgQueue \in Seq(Message) /\ allMessages \in Seq(Message)
      /\ matchIdx \in 1..Len(msgQueue) /\ Len(logs) < Len(ops)
      /\ FirstMatch(msgQueue, Op.match, matchIdx)
      /\ logs \in Seq(LogRecord)
  BY DEF AwaitTake, TypeInv, TypeOK, IndexInQueue, InsideOperation, SafetyInv,
         MatchIndexValid, LogRecord
<1>2. /\ msgs \in Seq(Message) /\ Rest(msgQueue, matchIdx) \in Seq(Message)
      /\ msgs \o Rest(msgQueue, matchIdx) = msgQueue
  <2>1. matchIdx \in 0..Len(msgQueue)
    BY <1>1
  <2> QED
    BY <1>1, <2>1, SplitQueue
<1>3. NoMessageLost'
  <2>1. (allMessages \o msgs) \o Rest(msgQueue, matchIdx) = allMessages \o msgQueue
    <3> DEFINE rest == Rest(msgQueue, matchIdx)
    <3>1. /\ msgs \in Seq(Message) /\ rest \in Seq(Message)
          /\ allMessages \in Seq(Message) /\ msgs \o rest = msgQueue
      BY <1>1, <1>2
    <3> HIDE DEF msgs, rest
    <3>2. (allMessages \o msgs) \o rest = allMessages \o (msgs \o rest)
      BY <3>1, ConcatAssoc
    <3>3. (allMessages \o msgs) \o rest = allMessages \o msgQueue
      BY <3>1, <3>2
    <3> QED
      BY <3>3 DEF rest
  <2> QED
    BY <2>1 DEF AwaitTake, SafetyInv, NoMessageLost
<1>4. MatchIndexValid'
  BY DEF AwaitTake, MatchIndexValid
<1>5. /\ Len(msgs) = matchIdx
      /\ \A j \in 1..matchIdx : msgs[j] = msgQueue[j]
  <2>1. \A j \in 1..matchIdx : msgQueue[j] \in Message
    BY <1>1, ElementOfSeq
  <2> QED
    BY <1>1, <2>1, SubSeqProperties
<1>6. /\ msgs # <<>>
      /\ msgs[Len(msgs)] \in Op.match
      /\ \A j \in 1..(Len(msgs) - 1) : msgs[j] \notin Op.match
  BY <1>1, <1>5 DEF FirstMatch
<1>7. /\ Len(logs) \in Nat
      /\ DOMAIN logs = 1..Len(logs)
      /\ DOMAIN logs' = 1..(Len(logs) + 1)
      /\ \A i \in 1..Len(logs) : logs'[i] = logs[i]
      /\ logs'[Len(logs) + 1] = Log("matched", msgs)
  <2>1. Log("matched", msgs) \in LogRecord
    BY <1>2 DEF Log, LogRecord, LogStatus
  <2>2. logs' = Append(logs, Log("matched", msgs))
    BY DEF AwaitTake
  <2> QED
    BY <1>1, <2>1, <2>2, AppendProperties, LenProperties
<1>8. MatchedEndsAtFirstMatch'
  <2> SUFFICES ASSUME NEW i \in DOMAIN logs', logs'[i].status = "matched"
               PROVE  LET c == logs'[i].collected
                      IN  /\ c # <<>>
                          /\ c[Len(c)] \in ops[i].match
                          /\ \A j \in 1..(Len(c) - 1) : c[j] \notin ops[i].match
    BY DEF MatchedEndsAtFirstMatch, AwaitTake, inputVars
  <2>1. CASE i \in 1..Len(logs)
    <3>1. i \in DOMAIN logs /\ logs'[i] = logs[i] /\ logs[i].status = "matched"
      BY <1>7, <2>1
    <3>2. MatchedEndsAtFirstMatch
      BY DEF SafetyInv
    <3> QED
      BY <3>1, <3>2 DEF MatchedEndsAtFirstMatch
  <2>2. CASE i = Len(logs) + 1
    <3>1. logs'[i].collected = msgs /\ ops[i] = Op
      BY <1>7, <2>2 DEF Log, Op
    <3> HIDE DEF msgs
    <3> QED
      BY <1>6, <3>1
  <2> QED
    BY <1>7, <2>1, <2>2
<1> QED
  BY <1>3, <1>4, <1>8 DEF SafetyInv

LEMMA MainIsSafe == TypeInv /\ SafetyInv /\ Main => SafetyInv'
<1> SUFFICES ASSUME TypeInv, SafetyInv, Main PROVE SafetyInv'
  OBVIOUS
<1> USE DEF inputVars, timerVars, netVars, readerVars, inboxVars, exportVars, resultVars
<1>0. <<>> \in Seq(Message) /\ msgQueue \in Seq(Message)
  BY DEF TypeInv, TypeOK
<1>1. CASE Dial
  BY <1>1, SafetyStutter DEF Dial, DialOk, DialFail
<1>2. CASE SkipOp
  <2>1. MatchedEndsAtFirstMatch'
    BY <1>0, <1>2, UnmatchedLog DEF SkipOp, SafetyInv, LogStatus
  <2> QED
    BY <1>2, <2>1 DEF SkipOp, SafetyInv, NoMessageLost, MatchIndexValid
<1>3. CASE SendOk
  <2>1. MatchedEndsAtFirstMatch'
    BY <1>0, <1>3, UnmatchedLog DEF SendOk, AtOp, SafetyInv, LogStatus
  <2> QED
    BY <1>3, <2>1 DEF SendOk, AtOp, SafetyInv, NoMessageLost, MatchIndexValid
<1>4. CASE SendFail \/ UnknownOp
  <2>1. FailOp(<<>>) /\ Len(logs) < Len(ops)
        /\ UNCHANGED <<ops, msgQueue, allMessages, delivered>>
    BY <1>4 DEF SendFail, UnknownOp, AtOp
  <2>2. MatchedEndsAtFirstMatch'
    BY <1>0, <2>1, UnmatchedLog DEF FailOp, SafetyInv, LogStatus
  <2> QED
    BY <2>1, <2>2 DEF FailOp, SafetyInv, NoMessageLost, MatchIndexValid
<1>5. CASE AwaitBegin
  BY <1>5, SafetyStutter DEF AwaitBegin
<1>6. CASE AwaitPoll
  <2>1. CASE \E i \in DOMAIN msgQueue : FirstMatch(msgQueue, Op.match, i)
                 /\ matchIdx' = i /\ pc' = "take" /\ UNCHANGED pollLeft
    BY <1>6, <2>1 DEF AwaitPoll, SafetyInv, NoMessageLost, MatchIndexValid,
                      MatchedEndsAtFirstMatch, Op
  <2>2. CASE pollLeft' = PollTicks /\ UNCHANGED <<pc, matchIdx>>
    BY <1>6, <2>2, SafetyStutter DEF AwaitPoll
  <2> QED
    BY <1>6, <2>1, <2>2 DEF AwaitPoll
<1>7. CASE AwaitTake
  BY <1>7, TakeIsSafe
<1>8. CASE AwaitTimeout
  <2>1. MatchedEndsAtFirstMatch'
    BY <1>0, <1>8, UnmatchedLog
    DEF AwaitTimeout, FailOp, SafetyInv, LogStatus, TypeInv, InsideOperation
  <2>2. NoMessageLost'
    BY <1>8, DrainKeepsOrder DEF AwaitTimeout, SafetyInv
  <2> QED
    BY <1>8, <2>1, <2>2 DEF AwaitTimeout, FailOp, SafetyInv, MatchIndexValid
<1>9. CASE CollectBegin
  BY <1>9, SafetyStutter DEF CollectBegin
<1>10. CASE CollectEnd
  <2>1. MatchedEndsAtFirstMatch'
    BY <1>0, <1>10, UnmatchedLog
    DEF CollectEnd, SafetyInv, LogStatus, TypeInv, InsideOperation
  <2>2. NoMessageLost'
    BY <1>10, DrainKeepsOrder DEF CollectEnd, SafetyInv
  <2> QED
    BY <1>10, <2>1, <2>2 DEF CollectEnd, SafetyInv, MatchIndexValid
<1>11. CASE Return
  BY <1>11, SafetyStutter DEF Return, Finish, DeferCancel, DeferClose
<1> QED
  BY <1>1, <1>2, <1>3, <1>4, <1>5, <1>6, <1>7, <1>8, <1>9, <1>10, <1>11
  DEF Main, RunOp

\* The reader appends behind the index await holds, so the index stays valid.
LEMMA ReaderIsSafe == TypeInv /\ SafetyInv /\ Reader => SafetyInv'
<1> SUFFICES ASSUME TypeInv, SafetyInv, Reader PROVE SafetyInv'
  OBVIOUS
<1> USE DEF mainUnchanged, inputVars, timerVars, netVars, exportVars, resultVars
<1>1. CASE ReaderCheck \/ ReaderReceive \/ ReaderError
  BY <1>1, SafetyStutter DEF ReaderCheck, ReaderReceive, ReaderError
<1>2. CASE ReaderEnqueue
  <2>1. /\ held \in Message /\ msgQueue \in Seq(Message)
        /\ allMessages \in Seq(Message) /\ delivered \in Seq(Message)
    BY <1>2 DEF ReaderEnqueue, TypeInv, TypeOK
  <2>2. <<held>> \in Seq(Message)
    BY <2>1
  <2>3. NoMessageLost'
    <3>1. Append(allMessages \o msgQueue, held)
          = allMessages \o Append(msgQueue, held)
      <4>1. allMessages \o msgQueue \in Seq(Message)
        BY <2>1, ConcatProperties
      <4>2. Append(allMessages \o msgQueue, held) = (allMessages \o msgQueue) \o <<held>>
        BY <2>1, <4>1, AppendIsConcat
      <4>3. Append(msgQueue, held) = msgQueue \o <<held>>
        BY <2>1, AppendIsConcat
      <4> QED
        BY <2>1, <2>2, <4>2, <4>3, ConcatAssoc
    <3> QED
      BY <1>2, <3>1 DEF ReaderEnqueue, Enqueue, SafetyInv, NoMessageLost
  <2>4. MatchIndexValid'
    <3> SUFFICES ASSUME pc = "take" PROVE FirstMatch(msgQueue', Op.match, matchIdx)
      BY <1>2 DEF ReaderEnqueue, MatchIndexValid, Op
    <3>1. /\ FirstMatch(msgQueue, Op.match, matchIdx)
          /\ matchIdx \in 1..Len(msgQueue)
      BY DEF SafetyInv, MatchIndexValid, TypeInv, IndexInQueue
    <3>2. /\ Len(msgQueue') = Len(msgQueue) + 1 /\ msgQueue' \in Seq(Message)
          /\ \A j \in 1..Len(msgQueue) : msgQueue'[j] = msgQueue[j]
      BY <1>2, <2>1, AppendProperties DEF ReaderEnqueue, Enqueue
    <3>3. Len(msgQueue) \in Nat /\ DOMAIN msgQueue' = 1..(Len(msgQueue) + 1)
      BY <2>1, <3>2
    <3> QED
      BY <3>1, <3>2, <3>3 DEF FirstMatch
  <2> QED
    BY <1>2, <2>3, <2>4 DEF ReaderEnqueue, SafetyInv, MatchedEndsAtFirstMatch
<1> QED
  BY <1>1, <1>2 DEF Reader

LEMMA EnvironmentIsSafe == SafetyInv /\ (Peer \/ Tick \/ CtxDone) => SafetyInv'
<1> SUFFICES ASSUME SafetyInv, Peer \/ Tick \/ CtxDone PROVE SafetyInv'
  OBVIOUS
<1> QED
  BY SafetyStutter
  DEF Peer, PeerDrop, PeerSend, PeerStall, PeerResume, Tick, CtxDone, envUnchanged, inputVars, inboxVars

\* Whatever the peer sends and whenever the timers fire: every message that was
\* queued is taken or still queued, in order; the index an await holds between its
\* two critical sections is the first match; a matched await took exactly the
\* messages up to its first match.
THEOREM MessagesAreSafe == Spec => []SafetyInv
<1>1. SafetyInv /\ UNCHANGED vars => SafetyInv'
  BY SafetyStutter DEF vars, inputVars, inboxVars
<1>2. TypeInv /\ SafetyInv /\ [Next]_vars => SafetyInv'
  BY <1>1, MainIsSafe, ReaderIsSafe, EnvironmentIsSafe DEF Next
<1> QED
  BY <1>2, SafetyInit, TypeCorrect, PTL DEF Spec

\* No queued message is ever lost, duplicated or reordered.
THEOREM NoMessageIsLost == Spec => []NoMessageLost
<1>1. SafetyInv => NoMessageLost
  BY DEF SafetyInv
<1> QED
  BY <1>1, MessagesAreSafe, PTL

\* The match index await carries from one critical section to the next is valid.
THEOREM MatchIndexStaysValid == Spec => []MatchIndexValid
<1>1. SafetyInv => MatchIndexValid
  BY DEF SafetyInv
<1> QED
  BY <1>1, MessagesAreSafe, PTL

\* A matched await consumes up to its first match and no further.
THEOREM AwaitEndsAtFirstMatch == Spec => []MatchedEndsAtFirstMatch
<1>1. SafetyInv => MatchedEndsAtFirstMatch
  BY DEF SafetyInv
<1> QED
  BY <1>1, MessagesAreSafe, PTL

-----------------------------------------------------------------------------
(* What the context holds *)

\* What the operation with this log exported, and the operations that exported n.
ValueOf(log) ==
    IF log.status = "matched" THEN AwaitValue(log.collected)
    ELSE IF log.status = "collected" THEN CollectValue(log.collected) ELSE Null

Exports(n) == {i \in DOMAIN logs : ops[i].export = n /\ ValueOf(logs[i]) # Null}

HoldsLatest(n) ==
    IF Exports(n) = {} THEN runCtx[n] = preset[n] /\ values[n] = Null
    ELSE \E i \in Exports(n) :
            /\ \A j \in Exports(n) : j <= i
            /\ runCtx[n] = ValueOf(logs[i]) /\ values[n] = ValueOf(logs[i])

LatestInv == \A n \in Name : HoldsLatest(n)

LEMMA ExportedByLog ==
    ASSUME TypeOK, MatchedEndsAtFirstMatch, NEW i \in DOMAIN logs
    PROVE  ExportedBy(i) = ValueOf(logs[i])
BY DEF ExportedBy, ValueOf, AwaitValue, CollectValue, MatchedEndsAtFirstMatch

\* The latest export is the one with the greatest index.
LEMMA LatestIsMax ==
    TypeOK /\ MatchedEndsAtFirstMatch /\ LatestInv => ContextIsLatestExport
<1> SUFFICES ASSUME TypeOK, MatchedEndsAtFirstMatch, LatestInv
             PROVE  ContextIsLatestExport
  OBVIOUS
<1>0. ASSUME NEW n \in Name
      PROVE  {i \in DOMAIN logs : ops[i].export = n /\ ExportedBy(i) # Null} = Exports(n)
  BY ExportedByLog DEF Exports
<1> SUFFICES ASSUME NEW n \in Name
             PROVE  IF Exports(n) = {} THEN runCtx[n] = preset[n] /\ values[n] = Null
                    ELSE /\ runCtx[n] = ExportedBy(Max(Exports(n)))
                         /\ values[n] = ExportedBy(Max(Exports(n)))
  BY <1>0 DEF ContextIsLatestExport
<1>1. HoldsLatest(n)
  BY DEF LatestInv
<1>2. ASSUME Exports(n) # {}
      PROVE  /\ runCtx[n] = ExportedBy(Max(Exports(n)))
             /\ values[n] = ExportedBy(Max(Exports(n)))
  <2>1. PICK i \in Exports(n) :
           /\ \A j \in Exports(n) : j <= i
           /\ runCtx[n] = ValueOf(logs[i]) /\ values[n] = ValueOf(logs[i])
    BY <1>1, <1>2 DEF HoldsLatest
  <2>2. \A j \in Exports(n) : j \in Int /\ j \in DOMAIN logs
    BY DEF Exports, TypeOK
  <2> DEFINE E == Exports(n)
             max == Max(E)
  <2>3. max \in E /\ \A j \in E : max >= j
    <3>1. \A j \in E : i >= j
      BY <2>1, <2>2
    <3> QED
      BY <2>1, <3>1, Zenon DEF Max
  <2> HIDE DEF max
  <2>4. max = i
    BY <2>1, <2>2, <2>3
  <2>5. ExportedBy(i) = ValueOf(logs[i])
    BY <2>1, <2>2, ExportedByLog
  <2> QED
    BY <2>1, <2>4, <2>5 DEF max
<1> QED
  BY <1>1, <1>2 DEF HoldsLatest

LEMMA LatestInit == Init => LatestInv
<1> SUFFICES ASSUME Init, NEW n \in Name PROVE HoldsLatest(n)
  BY DEF LatestInv
<1>1. Exports(n) = {}
  BY DEF Init, Exports
<1> QED
  BY <1>1 DEF Init, HoldsLatest

\* What logs nothing exports nothing.
LEMMA LatestStutter ==
    ASSUME LatestInv, UNCHANGED <<ops, preset, logs, runCtx, values>>
    PROVE  LatestInv'
BY DEF LatestInv, HoldsLatest, Exports

\* An operation that is logged exported what it found.
LEMMA LogExports ==
    ASSUME TypeInv, LatestInv, Len(logs) < Len(ops),
           NEW s \in LogStatus, NEW msgs \in Seq(Message),
           logs' = Append(logs, Log(s, msgs)), UNCHANGED <<ops, preset>>,
           ExportTo(Op.export, ValueOf(Log(s, msgs)))
    PROVE  LatestInv'
<1> DEFINE k == Len(logs) + 1
           value == ValueOf(Log(s, msgs))
<1>1. /\ logs \in Seq(LogRecord) /\ Len(logs) \in Nat /\ Log(s, msgs) \in LogRecord
      /\ runCtx \in Context /\ values \in Context
  BY DEF TypeInv, TypeOK, LogRecord, Log
<1>2. /\ DOMAIN logs = 1..Len(logs) /\ DOMAIN logs' = 1..k
      /\ k \notin DOMAIN logs /\ k \in DOMAIN logs' /\ logs'[k] = Log(s, msgs)
      /\ \A i \in DOMAIN logs : i \in DOMAIN logs' /\ logs'[i] = logs[i] /\ i < k
  BY <1>1
<1>3. \A i \in DOMAIN logs' : i \in DOMAIN logs \/ i = k
  BY <1>1, <1>2
<1>4. ops'[k] = Op /\ \A i : ops'[i] = ops[i]
  BY DEF Op
<1>5. SUFFICES ASSUME NEW n \in Name PROVE HoldsLatest(n)'
  BY DEF LatestInv
<1>6. HoldsLatest(n)
  BY DEF LatestInv
<1>7. CASE Op.export = n /\ value # Null
  <2>1. runCtx'[n] = value /\ values'[n] = value
    BY <1>1, <1>7, DataAssumption DEF ExportTo, Context
  <2>2. k \in Exports(n)' /\ \A j \in Exports(n)' : j <= k
    BY <1>1, <1>2, <1>4, <1>7 DEF Exports
  <2> QED
    BY <1>2, <2>1, <2>2 DEF HoldsLatest
<1>8. CASE ~(Op.export = n /\ value # Null)
  <2>1. Exports(n)' = Exports(n)
    BY <1>2, <1>3, <1>4, <1>8 DEF Exports
  <2>2. runCtx'[n] = runCtx[n] /\ values'[n] = values[n]
    BY <1>1, <1>8 DEF ExportTo, Context, exportVars
  <2>3. \A i \in Exports(n) : logs'[i] = logs[i]
    BY <1>2 DEF Exports
  <2> QED
    BY <1>6, <2>1, <2>2, <2>3 DEF HoldsLatest
<1> QED
  BY <1>7, <1>8

LEMMA MainExports == TypeInv /\ LatestInv /\ Main => LatestInv'
<1> SUFFICES ASSUME TypeInv, LatestInv, Main PROVE LatestInv'
  OBVIOUS
<1> USE DEF inputVars, exportVars
<1>1. CASE Dial \/ Return \/ AwaitBegin \/ AwaitPoll \/ CollectBegin
  BY <1>1, LatestStutter
  DEF Dial, DialOk, DialFail, Return, Finish, DeferCancel, DeferClose, AwaitBegin, AwaitPoll,
      CollectBegin
<1>2. msgQueue \in Seq(Message) /\ <<>> \in Seq(Message)
  BY DEF TypeInv, TypeOK
<1>3. ASSUME NEW s \in {"skipped", "sent", "failed"}, NEW msgs \in Seq(Message),
             Len(logs) < Len(ops), logs' = Append(logs, Log(s, msgs)),
             UNCHANGED <<inputVars, exportVars>>
      PROVE  LatestInv'
  <2>1. ValueOf(Log(s, msgs)) = Null /\ s \in LogStatus
    BY <1>3 DEF ValueOf, Log, LogStatus
  <2>2. ExportTo(Op.export, ValueOf(Log(s, msgs)))
    BY <1>3, <2>1 DEF ExportTo
  <2> QED
    BY <1>3, <2>1, <2>2, LogExports
<1>4. CASE SkipOp
  BY <1>2, <1>3, <1>4 DEF SkipOp
<1>5. CASE SendOk
  BY <1>2, <1>3, <1>5 DEF SendOk, AtOp
<1>6. CASE SendFail \/ UnknownOp
  BY <1>2, <1>3, <1>6 DEF SendFail, UnknownOp, AtOp, FailOp
<1>7. CASE AwaitTimeout
  BY <1>2, <1>3, <1>7 DEF AwaitTimeout, FailOp, TypeInv, InsideOperation
<1>8. CASE AwaitTake
  <2> DEFINE msgs == SubSeq(msgQueue, 1, matchIdx)
  <2>1. matchIdx \in 1..Len(msgQueue) /\ Len(logs) < Len(ops)
    BY <1>8 DEF AwaitTake, TypeInv, IndexInQueue, InsideOperation
  <2>2. msgs \in Seq(Message)
    BY <1>2, <2>1
  <2>3. logs' = Append(logs, Log("matched", msgs)) /\ ExportTo(Op.export, AwaitValue(msgs))
    BY <1>8 DEF AwaitTake
  <2> HIDE DEF msgs
  <2>4. ValueOf(Log("matched", msgs)) = AwaitValue(msgs)
    BY DEF ValueOf, Log
  <2> QED
    BY <1>8, <2>1, <2>2, <2>3, <2>4, LogExports DEF AwaitTake, LogStatus
<1>9. CASE CollectEnd
  <2>1. Len(logs) < Len(ops)
    BY <1>9 DEF CollectEnd, TypeInv, InsideOperation
  <2>2. /\ logs' = Append(logs, Log("collected", msgQueue))
        /\ ExportTo(Op.export, CollectValue(msgQueue))
    BY <1>9 DEF CollectEnd
  <2>3. ValueOf(Log("collected", msgQueue)) = CollectValue(msgQueue)
    BY DEF ValueOf, Log
  <2> QED
    BY <1>2, <1>9, <2>1, <2>2, <2>3, LogExports DEF CollectEnd, LogStatus
<1> QED
  BY <1>1, <1>4, <1>5, <1>6, <1>7, <1>8, <1>9 DEF Main, RunOp

LEMMA OthersExportNothing ==
    LatestInv /\ (Reader \/ Peer \/ Tick \/ CtxDone) => LatestInv'
<1> SUFFICES ASSUME LatestInv, Reader \/ Peer \/ Tick \/ CtxDone PROVE LatestInv'
  OBVIOUS
<1> USE DEF inputVars, exportVars
<1>1. CASE Reader
  BY <1>1, LatestStutter
  DEF Reader, ReaderCheck, ReaderReceive, ReaderError, ReaderEnqueue, mainUnchanged
<1>2. CASE Peer \/ Tick \/ CtxDone
  BY <1>2, LatestStutter DEF Peer, PeerDrop, PeerSend, PeerStall, PeerResume, Tick, CtxDone, envUnchanged
<1> QED
  BY <1>1, <1>2

\* A context variable holds the latest successful export of the step, from that
\* operation's own messages, however many operations export it and whatever they
\* time out on or fail to extract; res.Values reports the same.
THEOREM ContextHoldsLatestExport == Spec => []ContextIsLatestExport
<1>1. LatestInv /\ UNCHANGED vars => LatestInv'
  BY LatestStutter DEF vars, inputVars, exportVars
<1>2. TypeInv /\ LatestInv /\ [Next]_vars => LatestInv'
  BY <1>1, MainExports, OthersExportNothing DEF Next
<1>3. TypeInv /\ SafetyInv /\ LatestInv => ContextIsLatestExport
  BY LatestIsMax DEF TypeInv, SafetyInv
<1> QED
  BY <1>2, <1>3, LatestInit, TypeCorrect, MessagesAreSafe, PTL DEF Spec

-----------------------------------------------------------------------------
(* The step implements MessageInbox *)

LEMMA InboxInit == Init => Inbox!Init
BY DEF Init, Inbox!Init

\* The abstract variables do not change.
LEMMA InboxStutter ==
    ASSUME UNCHANGED <<msgQueue, allMessages>>,
           (pc' \in {"cancel", "close", "returned"})
               = (pc \in {"cancel", "close", "returned"})
    PROVE  [Inbox!Next]_Inbox!inboxVars
BY DEF Inbox!inboxVars

\* Taking the oldest n messages, n up to the whole queue, while still open.
LEMMA InboxTake ==
    ASSUME NEW n \in 0..Len(msgQueue),
           pc \notin {"cancel", "close", "returned"},
           allMessages' = allMessages \o SubSeq(msgQueue, 1, n),
           msgQueue' = SubSeq(msgQueue, n + 1, Len(msgQueue))
    PROVE  Inbox!Next
<1>1. (pc' \in {"cancel", "close", "returned"}) \in BOOLEAN
  OBVIOUS
<1>2. Inbox!Take(n)
  BY <1>1 DEF Inbox!Take
<1> QED
  BY <1>2 DEF Inbox!Next

\* A drain takes the whole queue.
LEMMA InboxDrain ==
    ASSUME TypeInv, pc \notin {"cancel", "close", "returned"},
           allMessages' = allMessages \o msgQueue, msgQueue' = <<>>
    PROVE  Inbox!Next
<1>1. msgQueue \in Seq(Message) /\ Len(msgQueue) \in 0..Len(msgQueue)
  BY DEF TypeInv, TypeOK
<1>2. SubSeq(msgQueue, 1, Len(msgQueue)) = msgQueue
  BY <1>1, SubSeqFull
<1>3. SubSeq(msgQueue, Len(msgQueue) + 1, Len(msgQueue)) = <<>>
  BY <1>1, SubSeqEmpty
<1> QED
  BY <1>1, <1>2, <1>3, InboxTake

LEMMA InboxMain == TypeInv /\ Main => [Inbox!Next]_Inbox!inboxVars
<1> SUFFICES ASSUME TypeInv, Main PROVE [Inbox!Next]_Inbox!inboxVars
  OBVIOUS
<1> USE DEF inboxVars
<1>1. CASE Dial
  <2>1. CASE DialOk
    BY <2>1, InboxStutter DEF DialOk
  <2>2. CASE DialFail
    <3>1. Inbox!Close
      BY <2>2 DEF DialFail, Inbox!Close
    <3> QED
      BY <3>1 DEF Inbox!Next
  <2> QED
    BY <1>1, <2>1, <2>2 DEF Dial
<1>2. CASE SkipOp \/ SendOk \/ AwaitBegin \/ CollectBegin \/ AwaitPoll
  BY <1>2, InboxStutter DEF SkipOp, SendOk, AwaitBegin, CollectBegin, AwaitPoll, AtOp
<1>3. CASE SendFail \/ UnknownOp \/ Finish
  <2>1. Inbox!Close
    BY <1>3 DEF SendFail, UnknownOp, Finish, FailOp, AtOp, Inbox!Close
  <2> QED
    BY <2>1 DEF Inbox!Next
<1>4. CASE AwaitTake
  <2>1. matchIdx \in 0..Len(msgQueue)
    BY <1>4 DEF AwaitTake, TypeInv, TypeOK, IndexInQueue
  <2> QED
    BY <1>4, <2>1, InboxTake DEF AwaitTake, Rest
<1>5. CASE AwaitTimeout
  BY <1>5, InboxDrain DEF AwaitTimeout
<1>6. CASE CollectEnd
  BY <1>6, InboxDrain DEF CollectEnd
<1>7. CASE DeferCancel \/ DeferClose
  BY <1>7, InboxStutter DEF DeferCancel, DeferClose
<1> QED
  BY <1>1, <1>2, <1>3, <1>4, <1>5, <1>6, <1>7 DEF Main, RunOp, Return

LEMMA InboxReader == TypeInv /\ Reader => [Inbox!Next]_Inbox!inboxVars
<1> SUFFICES ASSUME TypeInv, Reader PROVE [Inbox!Next]_Inbox!inboxVars
  OBVIOUS
<1>1. CASE ReaderCheck \/ ReaderReceive \/ ReaderError
  BY <1>1, InboxStutter DEF ReaderCheck, ReaderReceive, ReaderError, mainUnchanged
<1>2. CASE ReaderEnqueue
  <2>1. held \in Message
    BY <1>2 DEF ReaderEnqueue, TypeInv, TypeOK
  <2>2. Inbox!Arrive(held)
    BY <1>2 DEF ReaderEnqueue, Enqueue, mainUnchanged, Inbox!Arrive
  <2> QED
    BY <2>1, <2>2 DEF Inbox!Next
<1> QED
  BY <1>1, <1>2 DEF Reader

LEMMA InboxEnvironment ==
    (Peer \/ Tick \/ CtxDone) => [Inbox!Next]_Inbox!inboxVars
BY InboxStutter
DEF Peer, PeerDrop, PeerSend, PeerStall, PeerResume, Tick, CtxDone, envUnchanged, inboxVars

\* The step hands every queued message to its operations once, in arrival order,
\* and hands nothing out once it has its result.
THEOREM InboxImplemented == Spec => ImplementsInbox
<1>1. UNCHANGED vars => [Inbox!Next]_Inbox!inboxVars
  BY InboxStutter DEF vars, inboxVars
<1>2. TypeInv /\ [Next]_vars => [Inbox!Next]_Inbox!inboxVars
  BY <1>1, InboxMain, InboxReader, InboxEnvironment DEF Next
<1> QED
  BY <1>2, InboxInit, TypeCorrect, PTL DEF Spec, ImplementsInbox, Inbox!Spec
=============================================================================
