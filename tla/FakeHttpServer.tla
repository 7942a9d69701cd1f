--------------------------- MODULE FakeHttpServer ---------------------------
(* fake_http_start and fake_http_stop (fakehttpserver.go). *)
EXTENDS FakePool

Start(r) ==
    \/ StopExistingTake(r) \/ StopExistingStop(r)
    \/ Build(r)
    \/ ListenOk(r) \/ ListenInUse(r)
    \/ Insert(r, "started")

Step(r) == Start(r) \/ Stop(r)

Next == \E r \in Run : Step(r) \/ Abandon(r) \/ ServeBegin(r)

Spec == Init /\ [][Next]_vars
=============================================================================
