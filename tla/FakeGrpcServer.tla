--------------------------- MODULE FakeGrpcServer ---------------------------
(***************************************************************************)
(* fake_grpc_start and fake_grpc_stop (fakegrpcserver.go).  Beyond what    *)
(* FakePool has, a start waits until reflection answers on its address     *)
(* and takes its server down again when it does not.                       *)
(***************************************************************************)
EXTENDS FakePool

\* Whoever serves the port answers: the client only knows the address.
ReflectionOk(r) ==
    /\ pc[r] = "ready"
    /\ \E s \in Run : AddrOf[s] = AddrOf[r] /\ serve[s] = "serving"
    /\ Goto(r, "started")
    /\ UNCHANGED <<pool, listener, serve, stopped, target>>

\* Two seconds passed, the run was cancelled, or the connection was refused.
ReflectionFail(r) ==
    /\ pc[r] = "ready"
    /\ Goto(r, "cleanup")
    /\ UNCHANGED <<pool, listener, serve, stopped, target>>

CleanupStop(r) ==
    /\ pc[r] = "cleanup"
    /\ StopServer(r)
    /\ Goto(r, "unpool")
    /\ UNCHANGED <<pool, target>>

\* delete(pool, addr), whatever the entry is by now.
CleanupDelete(r) ==
    /\ pc[r] = "unpool"
    /\ pool' = [pool EXCEPT ![AddrOf[r]] = None]
    /\ Goto(r, "failed")
    /\ UNCHANGED <<listener, serve, stopped, target>>

Start(r) ==
    \/ StopExistingTake(r) \/ StopExistingStop(r)
    \/ Build(r)
    \/ ListenOk(r) \/ ListenInUse(r)
    \/ Insert(r, "ready")
    \/ ReflectionOk(r) \/ ReflectionFail(r)
    \/ CleanupStop(r) \/ CleanupDelete(r)

Step(r) == Start(r) \/ Stop(r)

Next == \E r \in Run : Step(r) \/ Abandon(r) \/ ServeBegin(r)

Spec == Init /\ [][Next]_vars

\* A goroutine that can run does; nothing is assumed of failures between steps.
FairSpec == Spec /\ \A r \in Run : WF_vars(Step(r)) /\ WF_vars(ServeBegin(r))
=============================================================================
