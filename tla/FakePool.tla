------------------------------ MODULE FakePool ------------------------------
(***************************************************************************)
(* The steps the two fake-server executors have in common.  Each keeps one *)
(* process-wide pool, keyed by address, of the servers it started          *)
(* (fakehttpserver.go and fakegrpcserver.go); every block under poolMu is  *)
(* one step.  A run is one execution of a test case: a start step and,     *)
(* unless a step between fails, a stop step.  Runs of different browsers   *)
(* share the process and may use the same port.                            *)
(*                                                                         *)
(* External: net.Listen is exclusive per port; Shutdown (and GracefulStop) *)
(* closes the listener of a server whose Serve is running; a Serve that    *)
(* starts after them closes its listener and returns.                      *)
(***************************************************************************)
EXTENDS Naturals, FiniteSets

CONSTANTS
    Run,                \* test case runs; a run starts at most one server,
                        \* and that server is named after it
    Addr,               \* pool keys: one per port
    AddrOf,             \* the address each run's start step uses
    BadBuild,           \* runs whose routes or proto files are unusable
    None                \* no server

ASSUME PoolAssumption ==
    /\ AddrOf \in [Run -> Addr]
    /\ BadBuild \subseteq Run
    /\ None \notin Run

VARIABLES
    pc,                 \* where each run is
    pool,               \* the servers registered under each address
    listener,           \* each server's listener: "none", "bound", "closed"
    serve,              \* its Serve goroutine: "none", "spawned", "serving", "exited"
    stopped,            \* servers whose Shutdown or Stop was called
    target              \* the server each run took out of the pool to stop

vars == <<pc, pool, listener, serve, stopped, target>>

Stage == {"start", "stopOld", "build", "listen", "insert", "ready", "cleanup",
          "unpool", "started", "stopping", "done", "failed"}

TypeOK ==
    /\ pc \in [Run -> Stage]
    /\ pool \in [Addr -> Run \cup {None}]
    /\ listener \in [Run -> {"none", "bound", "closed"}]
    /\ serve \in [Run -> {"none", "spawned", "serving", "exited"}]
    /\ stopped \in SUBSET Run
    /\ target \in [Run -> Run \cup {None}]

Goto(r, stage) == pc' = [pc EXCEPT ![r] = stage]

Init ==
    /\ pc = [r \in Run |-> "start"]
    /\ pool = [a \in Addr |-> None]
    /\ listener = [r \in Run |-> "none"]
    /\ serve = [r \in Run |-> "none"]
    /\ stopped = {}
    /\ target = [r \in Run |-> None]

Bound(a) == \E r \in Run : AddrOf[r] = a /\ listener[r] = "bound"

\* Mutants: the entry is looked up under the lock but stays in the pool; the key
\* is kept in place of the entry; whichever entry comes first is taken.
LookupOnly(r) ==
    /\ target' = [target EXCEPT ![r] = pool[AddrOf[r]]]
    /\ UNCHANGED pool

TakeKey(r) ==
    /\ target' = [target EXCEPT ![r] = AddrOf[r]]
    /\ pool' = [pool EXCEPT ![AddrOf[r]] = None]

TakeAnyEntry(r) ==
    \E a \in {b \in Addr : pool[b] # None} \cup {AddrOf[r]} :
        /\ target' = [target EXCEPT ![r] = pool[a]]
        /\ pool' = [pool EXCEPT ![a] = None]

\* Look the address up and delete its entry, under one lock.
TakeEntry(r) ==
    /\ target' = [target EXCEPT ![r] = pool[AddrOf[r]]]
    /\ pool' = [pool EXCEPT ![AddrOf[r]] = None]

\* Mutant: the call returns without closing the listener.
MarkStopped(s) ==
    /\ stopped' = stopped \cup {s}
    /\ UNCHANGED <<listener, serve>>

\* Shutdown, or GracefulStop then Stop.
StopServer(s) ==
    /\ stopped' = stopped \cup {s}
    /\ IF serve[s] = "serving"
       THEN /\ listener' = [listener EXCEPT ![s] = "closed"]
            /\ serve' = [serve EXCEPT ![s] = "exited"]
       ELSE UNCHANGED <<listener, serve>>

\* The first step of a start: stopExisting.
StopExistingTake(r) ==
    /\ pc[r] = "start"
    /\ TakeEntry(r)
    /\ Goto(r, IF pool[AddrOf[r]] = None THEN "build" ELSE "stopOld")
    /\ UNCHANGED <<listener, serve, stopped>>

\* Mutant: the old entry is forgotten, its server never stopped.
StopExistingDrop(r) ==
    /\ pc[r] = "stopOld"
    /\ target' = [target EXCEPT ![r] = None]
    /\ Goto(r, "build")
    /\ UNCHANGED <<pool, listener, serve, stopped>>

StopExistingStop(r) ==
    /\ pc[r] = "stopOld"
    /\ StopServer(target[r])
    /\ target' = [target EXCEPT ![r] = None]
    /\ Goto(r, "build")
    /\ UNCHANGED pool

\* Routes are registered or proto files parsed.  Two routes with one path make
\* mux.HandleFunc panic, a bad proto file is an error: the run is over, and
\* the server it replaced stays stopped.
Build(r) ==
    /\ pc[r] = "build"
    /\ Goto(r, IF r \in BadBuild THEN "failed" ELSE "listen")
    /\ UNCHANGED <<pool, listener, serve, stopped, target>>

ListenOk(r) ==
    /\ pc[r] = "listen"
    /\ ~Bound(AddrOf[r])
    /\ listener' = [listener EXCEPT ![r] = "bound"]
    /\ Goto(r, "insert")
    /\ UNCHANGED <<pool, serve, stopped, target>>

ListenInUse(r) ==
    /\ pc[r] = "listen"
    /\ Bound(AddrOf[r])
    /\ Goto(r, "failed")
    /\ UNCHANGED <<pool, listener, serve, stopped, target>>

\* The entry is stored and `go srv.Serve(lis)` spawned.
Insert(r, next) ==
    /\ pc[r] = "insert"
    /\ pool' = [pool EXCEPT ![AddrOf[r]] = r]
    /\ serve' = [serve EXCEPT ![r] = "spawned"]
    /\ Goto(r, next)
    /\ UNCHANGED <<listener, stopped, target>>

\* The spawned goroutine gets to run.
ServeBegin(s) ==
    /\ serve[s] = "spawned"
    /\ IF s \in stopped
       THEN /\ serve' = [serve EXCEPT ![s] = "exited"]
            /\ listener' = [listener EXCEPT ![s] = "closed"]
       ELSE /\ serve' = [serve EXCEPT ![s] = "serving"]
            /\ UNCHANGED listener
    /\ UNCHANGED <<pc, pool, stopped, target>>

\* The stop step, with the address the start step exported.
StopTake(r) ==
    /\ pc[r] = "started"
    /\ TakeEntry(r)
    /\ Goto(r, IF pool[AddrOf[r]] = None THEN "done" ELSE "stopping")
    /\ UNCHANGED <<listener, serve, stopped>>

StopEntry(r) ==
    /\ pc[r] = "stopping"
    /\ StopServer(target[r])
    /\ target' = [target EXCEPT ![r] = None]
    /\ Goto(r, "done")
    /\ UNCHANGED pool

\* A step between start and stop failed: the runner never reaches the stop.
Abandon(r) ==
    /\ pc[r] = "started"
    /\ Goto(r, "failed")
    /\ UNCHANGED <<pool, listener, serve, stopped, target>>

Stop(r) == StopTake(r) \/ StopEntry(r)

-----------------------------------------------------------------------------
\* A server that somebody can still connect to can be found and stopped: it is
\* in the pool, or its own start step is about to put it there or take it down.
NoOrphan ==
    \A s \in Run :
        (listener[s] = "bound" /\ s \notin stopped) =>
            \/ pool[AddrOf[s]] = s
            \/ pc[s] = "insert"
            \/ \E r \in Run : target[r] = s
            \/ pc[s] = "cleanup"

\* An entry names a server of its own address that holds the port and that
\* nobody has stopped, except while its own start is taking it down.
EntriesAreLive ==
    \A a \in Addr :
        pool[a] # None =>
            /\ AddrOf[pool[a]] = a
            /\ \/ listener[pool[a]] = "bound" /\ pool[a] \notin stopped
               \/ pc[pool[a]] = "unpool"

Alone(r) == \A s \in Run : AddrOf[s] = AddrOf[r] => s = r

\* A run whose port no other run uses is not disturbed by the runs that fight
\* over another port: between its start and its stop step its server is up and
\* registered.
Isolated ==
    \A r \in Run :
        (pc[r] = "started" /\ Alone(r)) =>
            /\ pool[AddrOf[r]] = r
            /\ listener[r] = "bound"
            /\ serve[r] \in {"spawned", "serving"}

\* A stopped server gives its port back, also when it was stopped before its
\* Serve goroutine ever ran.
PortReleased == \A s \in Run : (s \in stopped) ~> (listener[s] = "closed")
=============================================================================
