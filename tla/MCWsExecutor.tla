---------------------------- MODULE MCWsExecutor ----------------------------
(* Small instances of WsExecutor for TLC. *)
EXTENDS WsExecutor

CONSTANTS m1, m2, txt, x, v1, v2, null

MCMessage == {m1, m2, txt}
MCJson == {m1, m2}
MCExtract == [m \in MCMessage |-> CASE m = m1 -> v1 [] m = m2 -> v2 [] OTHER -> null]

Empty == [n \in {x} |-> null]
MCPresets == {Empty, [n \in {x} |-> v2]}
OpOf(type, timeout, match, export, uses) ==
    [type |-> type, disabled |-> FALSE, timeout |-> timeout, match |-> match,
     export |-> export, uses |-> uses]

Disabled(op) == [op EXCEPT !.disabled = TRUE]

Await(timeout, match) == OpOf("await", timeout, match, x, null)
Collect(timeout) == OpOf("collect", timeout, {}, x, null)
Send == OpOf("send", 0, {}, null, x)
SendPlain == OpOf("send", 0, {}, null, null)
Bogus == OpOf("other", 0, {}, null, null)

\* Subscribe, await, use the export, collect the rest; two awaits with the
\* default, a negative and an any-message timeout; disabled and unknown
\* operations.
MCPrograms ==
    { <<Await(3, {m1}), Send, Collect(1)>>,
      <<SendPlain, Await(0, MCMessage), Await(-1, {m2})>>,
      <<Disabled(Send), Collect(0), Await(2, {m2})>>,
      <<Collect(-1), Bogus, SendPlain>> }
=============================================================================
