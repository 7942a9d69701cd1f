---------------------------- MODULE MessageInbox ----------------------------
(***************************************************************************)
(* What a WebSocket step promises about the messages it receives, whatever *)
(* its operations are: every message that reached the in-memory queue is   *)
(* handed to the operations once, in arrival order, and nothing is handed  *)
(* out after the step has produced its result.  WsExecutor implements this *)
(* module (websocket.go, Execute).                                         *)
(***************************************************************************)
EXTENDS Naturals, Sequences

CONSTANT Message        \* the text frames a server can send

VARIABLES
    pending,            \* arrived and not yet taken by an operation
    taken,              \* taken by await and collect operations, in order
    closed              \* TRUE once the step has produced its result

inboxVars == <<pending, taken, closed>>

TypeOK ==
    /\ pending \in Seq(Message)
    /\ taken \in Seq(Message)
    /\ closed \in BOOLEAN

Init ==
    /\ pending = <<>>
    /\ taken = <<>>
    /\ closed = FALSE

\* A frame is queued.  It may still happen after the result: the reader
\* goroutine outlives the operations.
Arrive(m) ==
    /\ pending' = Append(pending, m)
    /\ UNCHANGED <<taken, closed>>

\* An operation takes the oldest n messages.
Take(n) ==
    /\ ~closed
    /\ taken' = taken \o SubSeq(pending, 1, n)
    /\ pending' = SubSeq(pending, n + 1, Len(pending))
    /\ closed' \in BOOLEAN

Close ==
    /\ closed' = TRUE
    /\ UNCHANGED <<pending, taken>>

Next ==
    \/ \E m \in Message : Arrive(m)
    \/ \E n \in 0..Len(pending) : Take(n)
    \/ Close

Spec == Init /\ [][Next]_inboxVars
=============================================================================
