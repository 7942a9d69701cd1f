---------------------------- MODULE MCFakeGrpc ----------------------------
(* Small instances of FakeGrpcServer for TLC. *)
EXTENDS FakeGrpcServer

CONSTANTS r1, r2, r3, r4, a1, a2

\* r4 has a port of its own, the others compete for one.
MCAddrOf == [r \in Run |-> IF r = r4 THEN a2 ELSE a1]
=============================================================================
