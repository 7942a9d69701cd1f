------------------------ MODULE FakeHttpServerProofs ------------------------
(***************************************************************************)
(* For every number of runs and ports: a fake HTTP server somebody can     *)
(* still connect to can be found and stopped, and the pool names only live *)
(* servers.                                                                *)
(*                                                                         *)
(* Neither is inductive by itself.  What carries them is that a port has   *)
(* one listener (so storing an entry overwrites no live one), that a       *)
(* server a run took out of the pool is in no entry any more, and that     *)
(* nobody stops a server whose own start step has not stored it yet.       *)
(***************************************************************************)
EXTENDS FakeHttpServer, TLAPS

\* The stages before a run's server is in the pool.
Fresh == {"start", "stopOld", "build", "listen", "insert"}

StopsSomething ==
    \A r \in Run : pc[r] \in {"stopOld", "stopping"} <=> target[r] # None

EntriesUp ==
    \A a \in Addr :
        pool[a] # None =>
            /\ AddrOf[pool[a]] = a
            /\ listener[pool[a]] = "bound"
            /\ pool[a] \notin stopped
            /\ pc[pool[a]] \notin Fresh

TakenOut ==
    \A r \in Run :
        target[r] # None =>
            /\ AddrOf[target[r]] = AddrOf[r]
            /\ pc[target[r]] \notin Fresh
            /\ \A a \in Addr : pool[a] # target[r]

FreshUntouched ==
    \A s \in Run :
        pc[s] \in Fresh =>
            /\ s \notin stopped
            /\ listener[s] = "bound" <=> pc[s] = "insert"

OneListener ==
    \A r, s \in Run :
        (listener[r] = "bound" /\ listener[s] = "bound" /\ AddrOf[r] = AddrOf[s]) => r = s

Findable ==
    \A s \in Run :
        (listener[s] = "bound" /\ s \notin stopped) =>
            \/ pool[AddrOf[s]] = s
            \/ pc[s] = "insert"
            \/ \E r \in Run : target[r] = s

PoolInv ==
    /\ TypeOK
    /\ StopsSomething /\ EntriesUp /\ TakenOut
    /\ FreshUntouched /\ OneListener /\ Findable

-----------------------------------------------------------------------------
LEMMA InitPool == Init => PoolInv
<1> SUFFICES ASSUME Init PROVE PoolInv
  OBVIOUS
<1>. USE PoolAssumption DEF Init
<1>1. TypeOK
  BY DEF TypeOK, Stage
<1>2. StopsSomething /\ EntriesUp /\ TakenOut
  BY DEF StopsSomething, EntriesUp, TakenOut
<1>3. FreshUntouched /\ OneListener /\ Findable
  BY DEF FreshUntouched, OneListener, Findable, Fresh
<1>. QED
  BY <1>1, <1>2, <1>3 DEF PoolInv

\* Looking an entry up and deleting it, from any stage that is about to.
LEMMA TakeKeepsPool ==
  ASSUME PoolInv, NEW r \in Run, pc[r] \in {"start", "started"},
         NEW some \in Stage, NEW none \in Stage,
         pc[r] = "start" => some = "stopOld" /\ none = "build",
         pc[r] = "started" => some = "stopping" /\ none = "done",
         TakeEntry(r), UNCHANGED <<listener, serve, stopped>>,
         Goto(r, IF pool[AddrOf[r]] = None THEN none ELSE some)
  PROVE  PoolInv'
<1>. USE PoolAssumption DEF PoolInv, TakeEntry, Goto
<1>1. /\ AddrOf[r] \in Addr
      /\ pool' = [pool EXCEPT ![AddrOf[r]] = None]
      /\ target' = [target EXCEPT ![r] = pool[AddrOf[r]]]
      /\ \A s \in Run : s # r => pc'[s] = pc[s]
      /\ pc'[r] = IF pool[AddrOf[r]] = None THEN none ELSE some
      /\ pc'[r] \in Fresh <=> pc[r] \in Fresh
      /\ pc'[r] # "insert" /\ pc[r] # "insert"
  BY DEF TypeOK, Fresh
<1>2. TypeOK'
  BY <1>1 DEF TypeOK, Stage
<1>3. StopsSomething'
  BY <1>1 DEF TypeOK, StopsSomething, Stage
<1>4. EntriesUp'
  BY <1>1 DEF TypeOK, EntriesUp
<1>5. TakenOut'
  BY <1>1 DEF TypeOK, TakenOut, EntriesUp
<1>6. FreshUntouched'
  BY <1>1 DEF TypeOK, FreshUntouched
<1>7. OneListener'
  BY DEF OneListener
<1>8. Findable'
  <2> SUFFICES ASSUME NEW s \in Run, listener[s] = "bound", s \notin stopped
               PROVE  \/ pool'[AddrOf[s]] = s
                      \/ pc'[s] = "insert"
                      \/ \E q \in Run : target'[q] = s
    BY DEF Findable
  <2>1. target[r] = None
    BY DEF StopsSomething
  <2>. QED
    BY <1>1, <2>1 DEF Findable, TypeOK
<1>. QED
  BY <1>2, <1>3, <1>4, <1>5, <1>6, <1>7, <1>8

\* Stopping the server taken out before.
LEMMA StopKeepsPool ==
  ASSUME PoolInv, NEW r \in Run, NEW to \in Stage,
         \/ pc[r] = "stopOld" /\ to = "build"
         \/ pc[r] = "stopping" /\ to = "done",
         StopServer(target[r]),
         target' = [target EXCEPT ![r] = None], Goto(r, to), UNCHANGED pool
  PROVE  PoolInv'
<1>. USE PoolAssumption DEF PoolInv, Goto
<1> DEFINE s == target[r]
<1>1. /\ s \in Run /\ pc[s] \notin Fresh /\ s # None
      /\ \A a \in Addr : pool[a] # s
  BY DEF TypeOK, StopsSomething, TakenOut
<1>2. /\ stopped' = stopped \cup {s}
      /\ listener' \in [Run -> {"none", "bound", "closed"}]
      /\ serve' \in [Run -> {"none", "spawned", "serving", "exited"}]
      /\ \A q \in Run : q # s => listener'[q] = listener[q]
      /\ listener'[s] \in {listener[s], "closed"}
  BY <1>1 DEF StopServer, TypeOK
<1>3. /\ \A q \in Run : q # r => pc'[q] = pc[q] /\ target'[q] = target[q]
      /\ pc'[r] = to /\ target'[r] = None
      /\ pc'[r] \in Fresh <=> pc[r] \in Fresh
      /\ pc'[r] # "insert" /\ pc[r] # "insert"
  BY DEF TypeOK, Fresh
<1>. HIDE DEF s
<1>4. TypeOK'
  BY <1>1, <1>2 DEF TypeOK
<1>5. StopsSomething'
  BY <1>3 DEF StopsSomething
<1>6. EntriesUp'
  BY <1>1, <1>2, <1>3 DEF TypeOK, EntriesUp
<1>7. TakenOut'
  <2> SUFFICES ASSUME NEW q \in Run, target'[q] # None
               PROVE  /\ AddrOf[target'[q]] = AddrOf[q]
                      /\ pc'[target'[q]] \notin Fresh
                      /\ \A a \in Addr : pool'[a] # target'[q]
    BY DEF TakenOut
  <2>1. q # r /\ target'[q] = target[q] /\ target[q] \in Run
    BY <1>3 DEF TypeOK
  <2>. QED
    BY <2>1, <1>3 DEF TakenOut
<1>8. FreshUntouched'
  <2> SUFFICES ASSUME NEW q \in Run, pc'[q] \in Fresh
               PROVE  q \notin stopped' /\ (listener'[q] = "bound" <=> pc'[q] = "insert")
    BY DEF FreshUntouched
  <2>1. pc[q] \in Fresh /\ q # s
    BY <1>1, <1>3
  <2>. QED
    BY <2>1, <1>2, <1>3 DEF FreshUntouched
<1>9. OneListener'
  <2>1. \A q \in Run : listener'[q] = "bound" => listener[q] = "bound"
    BY <1>2
  <2>. QED
    BY <2>1 DEF OneListener
<1>10. Findable'
  <2> SUFFICES ASSUME NEW q \in Run, listener'[q] = "bound", q \notin stopped'
               PROVE  \/ pool'[AddrOf[q]] = q
                      \/ pc'[q] = "insert"
                      \/ \E t \in Run : target'[t] = q
    BY DEF Findable
  <2>1. q # s /\ listener[q] = "bound" /\ q \notin stopped
    BY <1>2
  <2>2. \/ pool[AddrOf[q]] = q
        \/ pc[q] = "insert"
        \/ \E t \in Run : target[t] = q
    BY <2>1 DEF Findable
  <2>. QED
    BY <2>1, <2>2, <1>3 DEF s
<1>. QED
  BY <1>4, <1>5, <1>6, <1>7, <1>8, <1>9, <1>10

LEMMA ListenKeepsPool == ASSUME PoolInv, NEW r \in Run, ListenOk(r) PROVE PoolInv'
<1>. USE PoolAssumption DEF PoolInv, ListenOk, Goto
<1>1. /\ \A q \in Run : q # r => pc'[q] = pc[q] /\ listener'[q] = listener[q]
      /\ pc'[r] = "insert" /\ listener'[r] = "bound" /\ pc[r] = "listen"
      /\ "listen" \in Fresh /\ "insert" \in Fresh
  BY DEF TypeOK, Fresh
<1>2. TypeOK'
  BY DEF TypeOK, Stage
<1>3. StopsSomething' /\ TakenOut' /\ FreshUntouched'
  BY <1>1 DEF TypeOK, StopsSomething, TakenOut, FreshUntouched
<1>4. EntriesUp'
  BY <1>1 DEF TypeOK, EntriesUp
<1>5. OneListener'
  BY <1>1 DEF OneListener, Bound
<1>6. Findable'
  BY <1>1 DEF Findable
<1>. QED
  BY <1>2, <1>3, <1>4, <1>5, <1>6

LEMMA InsertKeepsPool ==
  ASSUME PoolInv, NEW r \in Run, Insert(r, "started") PROVE PoolInv'
<1>. USE PoolAssumption DEF PoolInv, Insert, Goto
<1>1. /\ \A q \in Run : q # r => pc'[q] = pc[q]
      /\ pc'[r] = "started" /\ pc[r] = "insert" /\ "insert" \in Fresh
      /\ "started" \notin Fresh /\ AddrOf[r] \in Addr
      /\ pool' = [pool EXCEPT ![AddrOf[r]] = r]
  BY DEF TypeOK, Fresh
<1>2. listener[r] = "bound" /\ r \notin stopped
  BY <1>1 DEF FreshUntouched
<1>3. TypeOK'
  BY DEF TypeOK, Stage
<1>4. StopsSomething' /\ FreshUntouched' /\ OneListener'
  BY <1>1 DEF StopsSomething, FreshUntouched, OneListener
<1>5. EntriesUp'
  BY <1>1, <1>2 DEF TypeOK, EntriesUp
<1>6. TakenOut'
  BY <1>1 DEF TypeOK, TakenOut
<1>7. Findable'
  <2> SUFFICES ASSUME NEW s \in Run, listener[s] = "bound", s \notin stopped
               PROVE  \/ pool'[AddrOf[s]] = s
                      \/ pc'[s] = "insert"
                      \/ \E q \in Run : target[q] = s
    BY DEF Findable
  <2>1. CASE s = r
    BY <2>1, <1>1 DEF TypeOK
  <2>2. CASE s # r
    BY <2>2, <1>1, <1>2 DEF Findable, OneListener, TypeOK
  <2>. QED
    BY <2>1, <2>2
<1>. QED
  BY <1>3, <1>4, <1>5, <1>6, <1>7

LEMMA ServeKeepsPool == ASSUME PoolInv, NEW s \in Run, ServeBegin(s) PROVE PoolInv'
<1>. USE PoolAssumption DEF PoolInv, ServeBegin
<1>1. /\ \A q \in Run : q # s => listener'[q] = listener[q]
      /\ listener'[s] = IF s \in stopped THEN "closed" ELSE listener[s]
      /\ s \in stopped => pc[s] \notin Fresh
  BY DEF TypeOK, FreshUntouched
<1>2. TypeOK'
  BY DEF TypeOK
<1>3. StopsSomething' /\ TakenOut'
  BY DEF StopsSomething, TakenOut
<1>4. EntriesUp'
  BY <1>1 DEF TypeOK, EntriesUp
<1>5. FreshUntouched' /\ OneListener' /\ Findable'
  BY <1>1 DEF FreshUntouched, OneListener, Findable
<1>. QED
  BY <1>2, <1>3, <1>4, <1>5

\* The steps that only move a run to another stage.
LEMMA GotoKeepsPool ==
  ASSUME PoolInv, NEW r \in Run, NEW to \in Stage, Goto(r, to),
         pc[r] \in {"build", "listen", "started"},
         to \in {"listen", "failed"}, pc[r] = "started" => to = "failed",
         UNCHANGED <<pool, listener, serve, stopped, target>>
  PROVE  PoolInv'
<1>. USE PoolAssumption DEF PoolInv, Goto
<1>1. /\ \A q \in Run : q # r => pc'[q] = pc[q]
      /\ pc'[r] = to
      /\ to \in Fresh => pc[r] \in Fresh
      /\ pc[r] # "insert" /\ to # "insert"
  BY DEF TypeOK, Fresh
<1>2. TypeOK'
  BY DEF TypeOK
<1>3. StopsSomething' /\ FreshUntouched' /\ OneListener' /\ Findable'
  BY <1>1 DEF StopsSomething, FreshUntouched, OneListener, Findable
<1>4. EntriesUp' /\ TakenOut'
  BY <1>1 DEF TypeOK, EntriesUp, TakenOut
<1>. QED
  BY <1>2, <1>3, <1>4

LEMMA NextPool == PoolInv /\ [Next]_vars => PoolInv'
<1> SUFFICES ASSUME PoolInv, [Next]_vars PROVE PoolInv'
  OBVIOUS
<1>1. CASE UNCHANGED vars
  BY <1>1 DEF vars, PoolInv, TypeOK, StopsSomething, EntriesUp, TakenOut,
              FreshUntouched, OneListener, Findable
<1>2. ASSUME NEW r \in Run, StopExistingTake(r) PROVE PoolInv'
  BY <1>2, TakeKeepsPool DEF StopExistingTake, Stage
<1>3. ASSUME NEW r \in Run, StopExistingStop(r) PROVE PoolInv'
  BY <1>3, StopKeepsPool DEF StopExistingStop, Stage
<1>4. ASSUME NEW r \in Run, Build(r) PROVE PoolInv'
  BY <1>4, GotoKeepsPool DEF Build, Stage
<1>5. ASSUME NEW r \in Run, ListenInUse(r) PROVE PoolInv'
  BY <1>5, GotoKeepsPool DEF ListenInUse, Stage
<1>6. ASSUME NEW r \in Run, Abandon(r) PROVE PoolInv'
  BY <1>6, GotoKeepsPool DEF Abandon, Stage
<1>7. ASSUME NEW r \in Run, StopTake(r) PROVE PoolInv'
  BY <1>7, TakeKeepsPool DEF StopTake, Stage
<1>8. ASSUME NEW r \in Run, StopEntry(r) PROVE PoolInv'
  BY <1>8, StopKeepsPool DEF StopEntry, Stage
<1>. QED
  BY <1>1, <1>2, <1>3, <1>4, <1>5, <1>6, <1>7, <1>8,
     ListenKeepsPool, InsertKeepsPool, ServeKeepsPool
  DEF Next, Step, Start, Stop

LEMMA PoolIsSafe == Spec => []PoolInv
  BY InitPool, NextPool, PTL DEF Spec

\* The types of FakePool's variables (fakehttpserver.go:19-26).
THEOREM HttpTypeSafe == Spec => []TypeOK
<1>1. PoolInv => TypeOK
  BY DEF PoolInv
<1>. QED
  BY PoolIsSafe, <1>1, PTL

\* A fake HTTP server that still listens and was not stopped is in the pool, or
\* is held by the start that is about to store it or the call that is about to
\* stop it (fakehttpserver.go:119-170).
THEOREM NoHttpOrphan == Spec => []NoOrphan
<1>1. PoolInv => NoOrphan
  BY DEF PoolInv, Findable, NoOrphan
<1>. QED
  BY PoolIsSafe, <1>1, PTL

\* Every entry of the pool names a listening, unstopped server of its own port
\* (fakehttpserver.go:119-140).
THEOREM HttpEntriesLive == Spec => []EntriesAreLive
<1>1. PoolInv => EntriesAreLive
  BY DEF PoolInv, EntriesUp, EntriesAreLive
<1>. QED
  BY PoolIsSafe, <1>1, PTL

-----------------------------------------------------------------------------
AloneUp ==
    \A r \in Run :
        (pc[r] = "started" /\ Alone(r)) =>
            pool[AddrOf[r]] = r /\ serve[r] \in {"spawned", "serving"}

\* Only a run's own steps reach the entry and the server of its address.
LEMMA NextAlone == PoolInv /\ AloneUp /\ [Next]_vars => AloneUp'
<1> SUFFICES ASSUME PoolInv, AloneUp, [Next]_vars,
                    NEW r \in Run, pc'[r] = "started", Alone(r)
             PROVE  pool'[AddrOf[r]] = r /\ serve'[r] \in {"spawned", "serving"}
  BY DEF AloneUp, Alone
<1>. USE PoolAssumption DEF PoolInv
<1>1. CASE pc[r] = "started"
  <2>1. /\ pool[AddrOf[r]] = r /\ serve[r] \in {"spawned", "serving"}
        /\ AddrOf[r] \in Addr /\ r # None /\ r \notin stopped
    BY <1>1 DEF AloneUp, EntriesUp
  <2>2. ASSUME NEW q \in Run, TakeEntry(q), q # r PROVE pool'[AddrOf[r]] = r
    BY <2>1, <2>2 DEF TakeEntry, Alone, TypeOK
  <2>3. ASSUME NEW q \in Run, target[q] # None PROVE target[q] # r
    <3>1. CASE q = r
      BY <1>1, <3>1, <2>3 DEF StopsSomething
    <3>2. CASE q # r
      BY <3>2, <2>3 DEF TakenOut, Alone
    <3>. QED
      BY <3>1, <3>2
  <2>4. ASSUME NEW q \in Run, target[q] # None, StopServer(target[q])
        PROVE  serve'[r] = serve[r]
    BY <2>3, <2>4 DEF StopServer, TypeOK
  <2>5. CASE UNCHANGED vars
    BY <2>5, <2>1 DEF vars
  <2>6. ASSUME NEW q \in Run, StopExistingTake(q) \/ StopTake(q)
        PROVE  pool'[AddrOf[r]] = r /\ serve'[r] = serve[r]
    <3>1. q # r
      BY <2>6, <1>1 DEF StopExistingTake, StopTake, Goto, TypeOK
    <3>. QED
      BY <3>1, <2>6, <2>2 DEF StopExistingTake, StopTake
  <2>7. ASSUME NEW q \in Run, StopExistingStop(q) \/ StopEntry(q)
        PROVE  pool'[AddrOf[r]] = r /\ serve'[r] = serve[r]
    BY <2>7, <2>1, <2>4 DEF StopExistingStop, StopEntry, StopsSomething
  <2>8. ASSUME NEW q \in Run, Build(q) \/ ListenOk(q) \/ ListenInUse(q) \/ Abandon(q)
        PROVE  pool'[AddrOf[r]] = r /\ serve'[r] = serve[r]
    BY <2>8, <2>1 DEF Build, ListenOk, ListenInUse, Abandon
  <2>9. ASSUME NEW q \in Run, Insert(q, "started")
        PROVE  pool'[AddrOf[r]] = r /\ serve'[r] = serve[r]
    BY <2>9, <2>1, <1>1 DEF Insert, Alone, TypeOK
  <2>10. ASSUME NEW q \in Run, ServeBegin(q)
         PROVE  pool'[AddrOf[r]] = r /\ serve'[r] \in {"spawned", "serving"}
    BY <2>10, <2>1 DEF ServeBegin, TypeOK
  <2>. QED
    BY <2>1, <2>5, <2>6, <2>7, <2>8, <2>9, <2>10 DEF Next, Step, Start, Stop
<1>2. CASE pc[r] # "started"
  <2>1. Insert(r, "started")
    <3>1. ASSUME NEW q \in Run, NEW to, Goto(q, to), to # "started" PROVE FALSE
      BY <3>1, <1>2 DEF Goto, TypeOK
    <3>2. ASSUME NEW q \in Run,
                 StopExistingTake(q) \/ StopExistingStop(q) \/ Build(q) \/ ListenOk(q)
          PROVE FALSE
      BY <3>1, <3>2 DEF StopExistingTake, StopExistingStop, Build, ListenOk
    <3>3. ASSUME NEW q \in Run,
                 ListenInUse(q) \/ StopTake(q) \/ StopEntry(q) \/ Abandon(q)
          PROVE FALSE
      BY <3>1, <3>3 DEF ListenInUse, StopTake, StopEntry, Abandon
    <3>4. ASSUME NEW q \in Run, ServeBegin(q) \/ UNCHANGED vars PROVE FALSE
      BY <3>4, <1>2 DEF ServeBegin, vars
    <3>5. ASSUME NEW q \in Run, Insert(q, "started"), q # r PROVE FALSE
      BY <3>5, <1>2 DEF Insert, Goto, TypeOK
    <3>. QED
      BY <3>2, <3>3, <3>4, <3>5 DEF Next, Step, Start, Stop
  <2>. QED
    BY <2>1 DEF Insert, TypeOK
<1>. QED
  BY <1>1, <1>2

\* A run whose port no other run uses keeps its server up and pooled between its
\* start and its stop step (fakehttpserver.go:85-153).
THEOREM HttpIsolated == Spec => []Isolated
<1>1. Init => AloneUp
  BY DEF Init, AloneUp
<1>2. PoolInv /\ AloneUp => Isolated
  <2> SUFFICES ASSUME PoolInv, AloneUp, NEW r \in Run, pc[r] = "started", Alone(r)
               PROVE  /\ pool[AddrOf[r]] = r
                      /\ listener[r] = "bound"
                      /\ serve[r] \in {"spawned", "serving"}
    BY DEF Isolated
  <2>1. pool[AddrOf[r]] = r /\ serve[r] \in {"spawned", "serving"}
    BY DEF AloneUp
  <2>. QED
    BY <2>1, PoolAssumption DEF PoolInv, EntriesUp
<1>. QED
  BY PoolIsSafe, NextAlone, <1>1, <1>2, PTL DEF Spec
=============================================================================
