--------------------------- MODULE ReceptionProofs ---------------------------
(***************************************************************************)
(* What msgmvrcpt guarantees for any number of connections, logins and     *)
(* hosts and for any limits.                                               *)
(***************************************************************************)
EXTENDS Reception, FiniteSetTheorems, TLAPS

USE DEF serverVars, childVars, dbVars

\* Taking the reaped children off _conn_count leaves the running ones, so the
\* subtraction in sigchld_handler never goes below zero.
LEMMA CountsNat ==
    ASSUME TypeOK, ConnCountExact
    PROVE  /\ IsFiniteSet(Children) /\ IsFiniteSet(Zombies) /\ IsFiniteSet(Live)
           /\ Cardinality(Zombies) \in Nat
           /\ connCount - Cardinality(Zombies) = Cardinality(Live)
<1>1. IsFiniteSet(Children) /\ IsFiniteSet(Zombies) /\ IsFiniteSet(Live)
    BY ConnsFinite, FS_Subset, Children \subseteq Conns, Zombies \subseteq Conns, Live \subseteq Conns
       DEF Children, Zombies, Live
<1>2. Live \cap Zombies = {}
    BY DEF Live, Zombies, LiveStates, CheckStates, AccessStates
<1>3. Cardinality(Children) = Cardinality(Live) + Cardinality(Zombies)
    <2>1. Cardinality(Live \cap Zombies) = 0
        BY <1>2, FS_EmptySet
    <2>2. Cardinality(Live \cup Zombies)
             = Cardinality(Live) + Cardinality(Zombies) - Cardinality(Live \cap Zombies)
        BY <1>1, FS_Union
    <2> QED BY <1>1, <2>1, <2>2, FS_CardinalityType DEF Children
<1> QED
    BY <1>1, <1>3, FS_CardinalityType DEF ConnCountExact

\* Every step of the server, a child, a client, the operator or an msgmv keeps
\* the types; the exact count is needed for the subtraction of sigchld_handler.
LEMMA TypeStep ==
    ASSUME TypeOK, ConnCountExact, [Next]_vars
    PROVE  TypeOK'
<1> USE DEF TypeOK, ConnStates, LiveStates, CheckStates, AccessStates, ResultCode, NoResult
<1>1. CASE UNCHANGED vars
    BY <1>1 DEF vars, Table
<1>2. CASE SigchldHandler
    <2>1. connCount' \in Nat
        BY <1>2, CountsNat, FS_CardinalityType DEF SigchldHandler
    <2> QED BY <2>1, <1>2 DEF SigchldHandler
<1>3. CASE Stop
    BY <1>3 DEF Stop
<1>4. CASE LoopReturns
    BY <1>4 DEF LoopReturns
<1>5. CASE Sigint \/ ListenerError
    BY <1>5 DEF Sigint, ListenerError
<1>6. ASSUME NEW c \in Conns, Refuse(c) \/ Accept(c) PROVE TypeOK'
    <2>1. CASE Refuse(c)
        BY <2>1 DEF Refuse
    <2>2. CASE Accept(c)
        BY <2>2 DEF Accept
    <2> QED BY <1>6, <2>1, <2>2
<1>7. ASSUME NEW c \in Conns, ClientStep(c) PROVE TypeOK'
    <2>1. CASE Connect(c)
        BY <2>1 DEF Connect
    <2>2. CASE OnReadPartial(c) \/ OnReadBad(c)
        BY <2>2 DEF OnReadPartial, OnReadBad
    <2>3. CASE OnReadRequest(c)
        BY <2>3 DEF OnReadRequest
    <2>4. CASE ClientCloses(c)
        BY <2>4 DEF ClientCloses, ChildExit
    <2> QED BY <1>7, <2>1, <2>2, <2>3, <2>4 DEF ClientStep
<1>8. ASSUME NEW c \in Conns, RequestTimeout(c) \/ ChildDies(c) \/ OnWrite(c) PROVE TypeOK'
    BY <1>8 DEF RequestTimeout, ChildDies, OnWrite, ChildExit
<1>9. ASSUME NEW c \in Conns,
             CheckPreventDir(c) \/ CheckPreventTool(c) \/ CheckPreventEas(c)
      PROVE TypeOK'
    BY <1>9 DEF CheckPreventDir, CheckPreventTool, CheckPreventEas, CheckFile, DoReply, Goto
<1>10. ASSUME NEW c \in Conns, CountAll(c) \/ CountExport(c) \/ CountEas(c) PROVE TypeOK'
    BY <1>10 DEF CountAll, CountExport, CountEas, CheckCount, DoReply, Goto
<1>11. ASSUME NEW c \in Conns, DbError(c) \/ InsertDuplicate(c) PROVE TypeOK'
    BY <1>11 DEF DbError, InsertDuplicate, DoReply
<1>12. ASSUME NEW c \in Conns, Insert(c) PROVE TypeOK'
    <2>1. queue' \in Table
        BY <1>12 DEF Insert, InsertMigrationInformation, Table, Row, Request, ProcStatus,
                     NOT_PROCESS, MIGRATION_BREAKOUT
    <2> QED BY <2>1, <1>12 DEF Insert, DoReply, Goto
<1>13. ASSUME NEW c \in Conns, ExecuteForkFails(c) \/ ExecuteLost(c) PROVE TypeOK'
    BY <1>13 DEF ExecuteForkFails, ExecuteLost, DoReply
<1>14. ASSUME NEW c \in Conns, Execute(c) PROVE TypeOK'
    BY <1>14 DEF Execute, DoReply, Request
<1>15. ASSUME NEW f \in OpFiles, Maintenance(f) PROVE TypeOK'
    BY <1>15, OpFilesAssumption DEF Maintenance
<1>16. ASSUME NEW l \in Logins, WorkerUpdates(l) PROVE TypeOK'
    <2>1. queue' \in Table
        BY <1>16 DEF WorkerUpdates, UpdateProcStatus, Present, Table, Row
    <2> QED BY <2>1, <1>16 DEF WorkerUpdates
<1>17. ASSUME NEW l \in Logins, WorkerEnds(l) PROVE TypeOK'
    <2>1. queue' \in Table
        BY <1>17 DEF WorkerEnds, DeleteData, Table
    <2> QED BY <2>1, <1>17 DEF WorkerEnds
<1> QED
    BY <1>1, <1>2, <1>3, <1>4, <1>5, <1>6, <1>7, <1>8, <1>9, <1>10, <1>11, <1>12,
       <1>13, <1>14, <1>15, <1>16, <1>17
       DEF Next, ReceptionNext, ServerStep, ChildStep

-----------------------------------------------------------------------------
(* The server: children and their count.                                   *)

\* A step that forks no child and reaps none: a child may exit, and then
\* SIGCHLD is pending.
Quiet ==
    /\ Children' = Children
    /\ UNCHANGED <<connCount, listener, endFlag>>
    /\ loop' = loop \/ loop' = "failed"
    /\ sigchld' \/ (Zombies' = Zombies /\ sigchld' = sigchld)

\* Every action but the accept and the three that end sessions or the loop in
\* the parent is quiet.
LEMMA QuietSteps ==
    ASSUME TypeOK, [Next]_vars,
           ~SigchldHandler, ~Stop, ~LoopReturns, \A c \in Conns : ~Accept(c)
    PROVE  Quiet
<1> USE DEF TypeOK, Quiet, Children, Live, Zombies, LiveStates, CheckStates, AccessStates
<1>1. CASE UNCHANGED vars
    BY <1>1 DEF vars
<1>2. CASE Sigint \/ ListenerError
    BY <1>2 DEF Sigint, ListenerError
<1>3. ASSUME NEW c \in Conns, Refuse(c) PROVE Quiet
    BY <1>3 DEF Refuse
<1>4. ASSUME NEW c \in Conns, Connect(c) PROVE Quiet
    BY <1>4 DEF Connect
<1>5. ASSUME NEW c \in Conns, OnReadPartial(c) \/ OnReadBad(c) \/ OnReadRequest(c) PROVE Quiet
    BY <1>5 DEF OnReadPartial, OnReadBad, OnReadRequest
<1>6. ASSUME NEW c \in Conns,
             ClientCloses(c) \/ RequestTimeout(c) \/ ChildDies(c) \/ OnWrite(c)
      PROVE Quiet
    <2>1. pc[c] \in LiveStates /\ ChildExit(c)
        BY <1>6 DEF ClientCloses, RequestTimeout, ChildDies, OnWrite
    <2> QED BY <2>1 DEF ChildExit
<1>7. ASSUME NEW c \in Conns,
             CheckPreventDir(c) \/ CheckPreventTool(c) \/ CheckPreventEas(c)
      PROVE Quiet
    BY <1>7 DEF CheckPreventDir, CheckPreventTool, CheckPreventEas, CheckFile, DoReply, Goto
<1>8. ASSUME NEW c \in Conns, CountAll(c) \/ CountExport(c) \/ CountEas(c) PROVE Quiet
    BY <1>8 DEF CountAll, CountExport, CountEas, CheckCount, DoReply, Goto
<1>9. ASSUME NEW c \in Conns, DbError(c) \/ InsertDuplicate(c) \/ Insert(c) PROVE Quiet
    BY <1>9 DEF DbError, InsertDuplicate, Insert, DoReply, Goto
<1>10. ASSUME NEW c \in Conns, ExecuteForkFails(c) \/ ExecuteLost(c) \/ Execute(c) PROVE Quiet
    BY <1>10 DEF ExecuteForkFails, ExecuteLost, Execute, DoReply
<1>11. ASSUME NEW f \in OpFiles, Maintenance(f) PROVE Quiet
    BY <1>11 DEF Maintenance
<1>12. ASSUME NEW l \in Logins, WorkerUpdates(l) \/ WorkerEnds(l) PROVE Quiet
    BY <1>12 DEF WorkerUpdates, WorkerEnds
<1> HIDE DEF Quiet
<1> QED
    BY <1>1, <1>2, <1>3, <1>4, <1>5, <1>6, <1>7, <1>8, <1>9, <1>10, <1>11, <1>12
       DEF Next, ReceptionNext, ServerStep, ChildStep, ClientStep

\* The inductive invariant of the parent.  A closed listener is what keeps a
\* drained server drained.
ServerInv ==
    /\ TypeOK
    /\ ConnCountExact
    /\ connCount <= MaxConn
    /\ NoForgottenChild
    /\ endFlag \/ loop = "drained" => ~listener
    /\ CleanStop

\* A server that has just started listening satisfies the invariant.
LEMMA ServerInit == Init => ServerInv
<1> SUFFICES ASSUME Init PROVE ServerInv
    OBVIOUS
<1>1. TypeOK
    <2>1. queue \in Table
        BY DEF Init, Table, EmptyTable
    <2>2. barred \in [Conns -> SUBSET (Hosts \cup {ToolLock, NoDir})] /\ prevent = {}
        BY DEF Init
    <2> QED
        BY <2>1, <2>2 DEF Init, TypeOK, ConnStates, CheckStates, AccessStates, NoResult
<1>2. Children = {} /\ Zombies = {}
    BY DEF Init, Children, Live, Zombies, LiveStates, CheckStates, AccessStates
<1>3. Cardinality(Children) = 0
    BY <1>2, FS_EmptySet
<1> QED
    BY <1>1, <1>2, <1>3, LimitsAssumption
       DEF Init, ServerInv, ConnCountExact, NoForgottenChild, CleanStop

\* No callback of the parent and no exit of a child breaks it.
LEMMA ServerStepInv ==
    ASSUME ServerInv, [Next]_vars
    PROVE  ServerInv'
<1>1. TypeOK'
    BY TypeStep DEF ServerInv
<1>2. /\ IsFiniteSet(Children) /\ IsFiniteSet(Live)
      /\ connCount - Cardinality(Zombies) = Cardinality(Live)
      /\ Cardinality(Live) \in Nat /\ Cardinality(Zombies) \in Nat
    BY CountsNat, FS_CardinalityType DEF ServerInv
<1> USE LimitsAssumption
<1>3. ASSUME NEW c \in Conns, Accept(c) PROVE ServerInv'
    <2>1. Children' = Children \cup {c} /\ c \notin Children /\ Zombies' = Zombies
        BY <1>3 DEF Accept, Children, Live, Zombies, LiveStates, CheckStates, AccessStates,
                    ServerInv, TypeOK
    <2>2. Cardinality(Children') = Cardinality(Children) + 1
        BY <1>2, <2>1, FS_AddElement
    <2> QED
        BY <1>1, <1>3, <2>1, <2>2
           DEF Accept, ServerInv, TypeOK, ConnCountExact, NoForgottenChild, CleanStop
<1>4. CASE SigchldHandler
    <2>1. Children' = Live /\ Zombies' = {}
        BY <1>4 DEF SigchldHandler, Children, Live, Zombies, LiveStates, CheckStates,
                    AccessStates, ServerInv, TypeOK
    <2>2. connCount' = Cardinality(Children')
        BY <1>2, <1>4, <2>1 DEF SigchldHandler
    <2>3. connCount' = 0 => Children' = {}
        BY <1>2, <2>1, <2>2, FS_EmptySet
    <2>4. loop' = "drained" => (endFlag /\ connCount' = 0) \/ loop = "drained"
        BY <1>4 DEF SigchldHandler
    <2>5. loop = "drained" => Children' = {}
        BY <2>1 DEF ServerInv, CleanStop, Children
    <2>6. connCount' <= MaxConn
        BY <1>2, <1>4, <2>1, <2>2 DEF ServerInv, TypeOK, SigchldHandler
    <2>7. endFlag' = endFlag /\ listener' = listener
        BY <1>4 DEF SigchldHandler
    <2> QED
        BY <1>1, <2>1, <2>2, <2>3, <2>4, <2>5, <2>6, <2>7
           DEF ServerInv, ConnCountExact, NoForgottenChild, CleanStop
<1>5. CASE Stop
    <2>1. Children' = Children /\ Zombies' = Zombies
        BY <1>5 DEF Stop, Children, Live, Zombies, LiveStates, CheckStates, AccessStates,
                    ServerInv, TypeOK
    <2>2. connCount = 0 => Children = {}
        BY <1>2, FS_EmptySet DEF ServerInv, ConnCountExact
    <2> QED
        BY <1>1, <1>5, <2>1, <2>2
           DEF Stop, ServerInv, ConnCountExact, NoForgottenChild, CleanStop
<1>6. CASE LoopReturns
    <2>1. Children' = Children /\ Zombies' = Zombies
        BY <1>6 DEF LoopReturns, Children, Live, Zombies, LiveStates, CheckStates, AccessStates,
                    ServerInv, TypeOK
    <2> QED
        BY <1>1, <1>6, <2>1
           DEF LoopReturns, ServerInv, ConnCountExact, NoForgottenChild, CleanStop
<1>7. CASE Quiet
    BY <1>1, <1>7
       DEF Quiet, ServerInv, ConnCountExact, NoForgottenChild, CleanStop
<1> QED
    BY <1>3, <1>4, <1>5, <1>6, <1>7, QuietSteps DEF ServerInv

\* For any number of connections and any MaxConn: _conn_count is exact, merged
\* SIGCHLDs lose no child, and a clean stop leaves none behind.
THEOREM ServerCorrect ==
    Spec => [](TypeOK /\ ConnCountExact /\ NoForgottenChild /\ CleanStop)
<1>1. ServerInv /\ [Next]_vars => ServerInv'
    BY ServerStepInv
<1>2. ServerInv => TypeOK /\ ConnCountExact /\ NoForgottenChild /\ CleanStop
    BY DEF ServerInv
<1> QED
    BY ServerInit, <1>1, <1>2, PTL DEF Spec

\* sigchld_handler is always still to run for a child that exited: it reaps all
\* of them, and one that exits during or after it sends a signal of its own.
THEOREM NoChildForgotten == Spec => []NoForgottenChild
BY ServerCorrect, PTL

\* A loop left by stop() or by the last sigchld_handler leaves no session.
THEOREM StopsClean == Spec => []CleanStop
BY ServerCorrect, PTL

-----------------------------------------------------------------------------
(* Requests on their way to the table.                                     *)

\* The calls of on_read that follow a successful count.
PassedStates == {"count_export", "count_eas", "insert", "execute"}

\* A step that leaves the table alone and brings no request further.
Calm ==
    /\ UNCHANGED <<queue, workers>>
    /\ \A c \in Conns :
          pc'[c] \in PassedStates => pc'[c] = pc[c] /\ req'[c] = req[c]

\* A request that is answered goes no further.
LEMMA CalmReply ==
    ASSUME TypeOK, NEW c \in Conns, NEW code, DoReply(c, code), UNCHANGED <<queue, workers>>
    PROVE  Calm
BY DEF TypeOK, DoReply, Calm, PassedStates

\* The actions of msgmvrcpt that are calm whatever they find.
LEMMA CalmSteps ==
    ASSUME TypeOK, [ReceptionNext]_vars,
           \A c \in Conns : ~CountAll(c) /\ ~CountExport(c) /\ ~CountEas(c)
                              /\ ~Insert(c) /\ ~Execute(c)
    PROVE  Calm
<1> USE DEF TypeOK, Calm, PassedStates
<1>1. CASE UNCHANGED vars
    BY <1>1 DEF vars
<1>2. CASE SigchldHandler \/ Stop \/ LoopReturns
    BY <1>2 DEF SigchldHandler, Stop, LoopReturns
<1>3. CASE Sigint \/ ListenerError
    BY <1>3 DEF Sigint, ListenerError
<1>4. ASSUME NEW c \in Conns, Refuse(c) \/ Accept(c) \/ Connect(c) PROVE Calm
    BY <1>4 DEF Refuse, Accept, Connect
<1>5. ASSUME NEW c \in Conns, OnReadPartial(c) \/ OnReadBad(c) \/ OnReadRequest(c) PROVE Calm
    BY <1>5 DEF OnReadPartial, OnReadBad, OnReadRequest
<1>6. ASSUME NEW c \in Conns,
             ClientCloses(c) \/ RequestTimeout(c) \/ ChildDies(c) \/ OnWrite(c)
      PROVE Calm
    BY <1>6 DEF ClientCloses, RequestTimeout, ChildDies, OnWrite, ChildExit
<1>7. ASSUME NEW c \in Conns,
             CheckPreventDir(c) \/ CheckPreventTool(c) \/ CheckPreventEas(c)
      PROVE Calm
    BY <1>7 DEF CheckPreventDir, CheckPreventTool, CheckPreventEas, CheckFile, DoReply, Goto
<1>8. ASSUME NEW c \in Conns,
             DbError(c) \/ InsertDuplicate(c) \/ ExecuteForkFails(c) \/ ExecuteLost(c)
      PROVE Calm
    BY <1>8, CalmReply DEF DbError, InsertDuplicate, ExecuteForkFails, ExecuteLost
<1>9. ASSUME NEW f \in OpFiles, Maintenance(f) PROVE Calm
    BY <1>9 DEF Maintenance
<1> HIDE DEF Calm
<1> QED
    BY <1>1, <1>2, <1>3, <1>4, <1>5, <1>6, <1>7, <1>8, <1>9
       DEF ReceptionNext, ServerStep, ChildStep, ClientStep

\* A count that lets its request pass, and nothing else.
Passes(c, from, to) ==
    /\ pc[c] = from
    /\ pc' = [pc EXCEPT ![c] = to]
    /\ UNCHANGED <<req, queue, workers>>

\* Each SELECT COUNT(*) of access_db answers the request or finds its limit
\* respected and lets the request pass.
LEMMA CountSteps ==
    ASSUME TypeOK, NEW c \in Conns
    PROVE  /\ CountAll(c) => Calm \/ (Passes(c, "count_all", "count_export")
                                        /\ RecordCount(AllRows(queue)) <= TransactMax)
           /\ CountExport(c) => Calm \/ (Passes(c, "count_export", "count_eas")
                                        /\ RecordCount(ExportRows(queue)) <= ExportMax)
           /\ CountEas(c) => Calm \/ (Passes(c, "count_eas", "insert")
                                        /\ RecordCount(EasRows(queue, req[c].eas_host)) <= ConnectMax)
BY CalmReply DEF CountAll, CountExport, CountEas, CheckCount, Goto, Passes

-----------------------------------------------------------------------------
(* One process per login.                                                  *)

\* A child about to run execute() owns the row of its login, alone and before
\* any process; a process has a row.
LaunchInv ==
    /\ \A c \in Conns : pc[c] = "execute" =>
          Present(queue, req[c].login_id) /\ workers[req[c].login_id] = 0
    /\ \A c, d \in Conns :
          pc[c] = "execute" /\ pc[d] = "execute" /\ req[c].login_id = req[d].login_id
             => c = d
    /\ \A l \in Logins : workers[l] \in {0, 1} /\ (workers[l] = 1 => Present(queue, l))

\* Only the child whose INSERT took the key reaches execute(), and the key stays
\* taken while its msgmv works.
LEMMA LaunchStep ==
    ASSUME TypeOK, LaunchInv, [Next]_vars
    PROVE  LaunchInv'
<1> USE DEF TypeOK, LaunchInv, PassedStates
<1>1. CASE Calm
    BY <1>1 DEF Calm
<1>2. ASSUME NEW c \in Conns, NEW from, NEW to, to # "execute", Passes(c, from, to)
      PROVE LaunchInv'
    BY <1>2 DEF Passes
<1>3. ASSUME NEW c \in Conns, CountAll(c) \/ CountExport(c) \/ CountEas(c) PROVE LaunchInv'
    BY <1>1, <1>2, <1>3, CountSteps
<1>4. ASSUME NEW c \in Conns, Insert(c) PROVE LaunchInv'
    <2> DEFINE l == req[c].login_id
    <2>0. l \in Logins /\ pc[c] = "insert" /\ ~Present(queue, l)
        BY <1>4 DEF Insert, Request, AccessStates
    <2>1. \A k \in Logins : k # l => queue'[k] = queue[k]
        BY <1>4, <2>0 DEF Insert, InsertMigrationInformation, Table
    <2>2. Present(queue', l)
        BY <1>4, <2>0, NoRowIsNoRow
           DEF Insert, InsertMigrationInformation, Table, Present, Row, Request, ProcStatus,
               NOT_PROCESS, MIGRATION_BREAKOUT, AccessStates
    <2>3. \A d \in Conns : pc[d] = "execute" => req[d].login_id # l /\ req[d].login_id \in Logins
        BY <2>0 DEF Request
    <2>4. workers[l] = 0 /\ workers' = workers
        BY <1>4, <2>0 DEF Insert
    <2>5. \A d \in Conns : pc'[d] = "execute" =>
             (d = c \/ pc[d] = "execute") /\ req'[d] = req[d]
        BY <1>4, <2>0 DEF Insert, Goto, DoReply
    <2> QED
        BY <2>0, <2>1, <2>2, <2>3, <2>4, <2>5 DEF Present
<1>5. ASSUME NEW c \in Conns, Execute(c) PROVE LaunchInv'
    BY <1>5 DEF Execute, DoReply, Request
<1>6. ASSUME NEW l \in Logins, WorkerUpdates(l) PROVE LaunchInv'
    <2>1. \A k \in Logins : k # l => queue'[k] = queue[k]
        BY <1>6 DEF WorkerUpdates, UpdateProcStatus, Table
    <2>2. queue[l] # NoRow /\ queue[l] \in Row
        BY <1>6 DEF WorkerUpdates, Present, Table
    <2>3. PICK t \in ProcStatus : queue'[l] = [queue[l] EXCEPT !.proc_status = t]
        BY <1>6 DEF WorkerUpdates, UpdateProcStatus, Table
    <2>4. queue'[l] \in Row
        BY <2>2, <2>3 DEF Row
    <2>5. \A k \in Logins : Present(queue', k) <=> Present(queue, k)
        BY <2>1, <2>2, <2>4, NoRowIsNoRow DEF Present
    <2> QED BY <1>6, <2>5 DEF WorkerUpdates, Request
<1>7. ASSUME NEW l \in Logins, WorkerEnds(l) PROVE LaunchInv'
    <2>0. workers[l] = 1 /\ workers' = [workers EXCEPT ![l] = workers[l] - 1]
        BY <1>7 DEF WorkerEnds
    <2>1. workers'[l] = 0 /\ \A k \in Logins : k # l => workers'[k] = workers[k]
        BY <2>0
    <2>2. \A k \in Logins : k # l => (Present(queue', k) <=> Present(queue, k))
        BY <1>7 DEF WorkerEnds, DeleteData, Present, Table
    <2>3. UNCHANGED <<pc, req>>
        BY <1>7 DEF WorkerEnds
    <2>4. \A d \in Conns : pc[d] = "execute" => req[d].login_id \in Logins \ {l}
        BY <2>0 DEF Request
    <2> QED BY <2>1, <2>2, <2>3, <2>4
<1> QED
    BY <1>1, <1>3, <1>4, <1>5, <1>6, <1>7, CalmSteps DEF Next

\* For any number of concurrent requests: one msgmv per login.
THEOREM OneWorker == Spec => []OneWorkerPerLogin
<1>1. Init => LaunchInv
    BY DEF Init, LaunchInv
<1>2. ServerInv /\ LaunchInv /\ [Next]_vars => LaunchInv'
    BY LaunchStep DEF ServerInv
<1>3. ServerInv /\ LaunchInv => OneWorkerPerLogin
    <2> SUFFICES ASSUME ServerInv, LaunchInv, NEW l \in Logins
                 PROVE  workers[l] + Cardinality(Launching(l)) <= 1
        BY DEF OneWorkerPerLogin
    <2>1. CASE Launching(l) = {}
        BY <2>1, FS_EmptySet DEF LaunchInv
    <2>2. CASE Launching(l) # {}
        <3> PICK c \in Launching(l) : TRUE
            BY <2>2
        <3>1. Launching(l) = {c} /\ workers[l] = 0
            BY DEF Launching, LaunchInv
        <3> QED BY <3>1, FS_Singleton
    <2> QED BY <2>1, <2>2
<1>4. ServerInv /\ [Next]_vars => ServerInv'
    BY ServerStepInv
<1> QED
    BY ServerInit, <1>1, <1>2, <1>3, <1>4, PTL DEF Spec

-----------------------------------------------------------------------------
(* The limits of access_db.                                                *)

\* The children whose request has passed a count and is not yet in the table.
PastAll    == {c \in Conns : pc[c] \in {"count_export", "count_eas", "insert"}}
PastExport == {c \in Conns : pc[c] \in {"count_eas", "insert"}}
PastEas(h) == {c \in Conns : pc[c] = "insert" /\ req[c].eas_host = h}

\* A row that is still to come counts like one that is there: this sum, and not
\* the number of rows alone, is what the steps preserve.
BoundInv ==
    /\ Cardinality(AllRows(queue)) + Cardinality(PastAll) <= TransactMax + MaxConn
    /\ Cardinality(ExportRows(queue)) + Cardinality(PastExport) <= ExportMax + MaxConn
    /\ \A h \in Hosts :
          Cardinality(HostRows(queue, h)) + Cardinality(PastEas(h)) <= ConnectMax + MaxConn

\* Fewer rows and fewer requests on their way stay within the bound.
LEMMA BoundKeeps ==
    ASSUME NEW S, NEW P, NEW S2, NEW P2, NEW m \in Nat,
           IsFiniteSet(S), IsFiniteSet(P), S2 \subseteq S, P2 \subseteq P,
           Cardinality(S) + Cardinality(P) <= m
    PROVE  Cardinality(S2) + Cardinality(P2) <= m
<1>1. IsFiniteSet(S2) /\ Cardinality(S2) <= Cardinality(S)
    BY FS_Subset
<1>2. IsFiniteSet(P2) /\ Cardinality(P2) <= Cardinality(P)
    BY FS_Subset
<1> QED BY <1>1, <1>2, FS_CardinalityType

\* A request that becomes a row does not change the sum.
LEMMA BoundMoves ==
    ASSUME NEW S, NEW P, NEW S2, NEW P2, NEW m \in Nat,
           IsFiniteSet(S), IsFiniteSet(P),
           \E z : S2 \subseteq S \cup {z}, \E d \in P : P2 \subseteq P \ {d},
           Cardinality(S) + Cardinality(P) <= m
    PROVE  Cardinality(S2) + Cardinality(P2) <= m
<1> PICK x : S2 \subseteq S \cup {x}
    OBVIOUS
<1> PICK c \in P : P2 \subseteq P \ {c}
    OBVIOUS
<1>1. IsFiniteSet(S \cup {x}) /\ Cardinality(S \cup {x}) <= Cardinality(S) + 1
    <2>1. Cardinality(S) \in Nat
        BY FS_CardinalityType
    <2>2. CASE x \in S
        <3>1. S \cup {x} = S
            BY <2>2
        <3>2. Cardinality(S) <= Cardinality(S) + 1
            BY <2>1
        <3> QED BY <3>1, <3>2, Zenon
    <2>3. CASE x \notin S
        <3>1. IsFiniteSet(S \cup {x}) /\ Cardinality(S \cup {x}) = Cardinality(S) + 1
            BY <2>3, FS_AddElement, Zenon
        <3> QED BY <2>1, <3>1
    <2> QED BY <2>2, <2>3
<1>2. IsFiniteSet(P \ {c}) /\ Cardinality(P \ {c}) = Cardinality(P) - 1
    BY FS_RemoveElement
<1>3. Cardinality(S \cup {x}) + Cardinality(P \ {c}) <= m
    BY <1>1, <1>2, FS_CardinalityType
<1> QED BY <1>1, <1>2, <1>3, BoundKeeps

\* A count that finds its limit respected leaves room for a row per child.
LEMMA BoundFresh ==
    ASSUME NEW S, NEW R, NEW P, NEW K, NEW m \in Nat, NEW n \in Nat,
           IsFiniteSet(R), IsFiniteSet(K), S \subseteq R, P \subseteq K,
           Cardinality(R) <= m, Cardinality(K) <= n
    PROVE  Cardinality(S) + Cardinality(P) <= m + n
<1>1. IsFiniteSet(S) /\ Cardinality(S) <= Cardinality(R)
    BY FS_Subset
<1>2. IsFiniteSet(P) /\ Cardinality(P) <= Cardinality(K)
    BY FS_Subset
<1> QED BY <1>1, <1>2, FS_CardinalityType

\* The rows of a table, and the children, are finitely many.
LEMMA RowsFinite ==
    /\ \A q : IsFiniteSet(AllRows(q)) /\ IsFiniteSet(ExportRows(q))
    /\ \A q, h : IsFiniteSet(HostRows(q, h)) /\ IsFiniteSet(EasRows(q, h))
    /\ IsFiniteSet(PastAll) /\ IsFiniteSet(PastExport)
    /\ \A h : IsFiniteSet(PastEas(h))
<1>1. \A q : AllRows(q) \subseteq Logins /\ ExportRows(q) \subseteq Logins
    BY DEF AllRows, ExportRows, Unprocessed, Exporting
<1>2. \A q, h : HostRows(q, h) \subseteq Logins /\ EasRows(q, h) \subseteq Logins
    BY DEF AllRows, ExportRows, Unprocessed, Exporting, HostRows, EasRows
<1>3. PastAll \subseteq Conns /\ PastExport \subseteq Conns /\ \A h : PastEas(h) \subseteq Conns
    BY DEF PastAll, PastExport, PastEas
<1> QED BY <1>1, <1>2, <1>3, LoginsFinite, ConnsFinite, FS_Subset

\* A step that adds no row and no request that passed a count keeps the bounds.
Shrinks ==
    /\ AllRows(queue') \subseteq AllRows(queue)
    /\ ExportRows(queue') \subseteq ExportRows(queue)
    /\ \A h \in Hosts : HostRows(queue', h) \subseteq HostRows(queue, h)
    /\ PastAll' \subseteq PastAll
    /\ PastExport' \subseteq PastExport
    /\ \A h \in Hosts : PastEas(h)' \subseteq PastEas(h)

\* The limits hold across such a step.
LEMMA ShrinkStep ==
    ASSUME BoundInv, Shrinks
    PROVE  BoundInv'
<1> USE LimitsAssumption, RowsFinite
<1>1. Cardinality(AllRows(queue')) + Cardinality(PastAll') <= TransactMax + MaxConn
    BY BoundKeeps DEF BoundInv, Shrinks
<1>2. Cardinality(ExportRows(queue')) + Cardinality(PastExport') <= ExportMax + MaxConn
    BY BoundKeeps DEF BoundInv, Shrinks
<1>3. ASSUME NEW h \in Hosts
      PROVE  Cardinality(HostRows(queue', h)) + Cardinality(PastEas(h)') <= ConnectMax + MaxConn
    BY BoundKeeps DEF BoundInv, Shrinks
<1> QED BY <1>1, <1>2, <1>3 DEF BoundInv

\* Calm steps and what an msgmv does to its row are of this kind.
LEMMA ShrinkSteps ==
    ASSUME TypeOK
    PROVE  /\ Calm => Shrinks
           /\ \A c \in Conns : Execute(c) => Shrinks
           /\ \A l \in Logins : WorkerUpdates(l) \/ WorkerEnds(l) => Shrinks
<1> USE DEF TypeOK, Shrinks, PastAll, PastExport, PastEas
<1>1. ASSUME Calm PROVE Shrinks
    BY <1>1 DEF Calm, PassedStates
<1>2. ASSUME NEW c \in Conns, Execute(c) PROVE Shrinks
    BY <1>2 DEF Execute, DoReply
<1>3. ASSUME NEW l \in Logins, WorkerUpdates(l) PROVE Shrinks
    <2>1. /\ queue[l] # NoRow /\ queue[l] \in Row
          /\ \A k \in Logins : k # l => queue'[k] = queue[k]
        BY <1>3 DEF WorkerUpdates, UpdateProcStatus, Present, Table
    <2>2. PICK s \in ProcStatus :
             s > queue[l].proc_status /\ queue'[l] = [queue[l] EXCEPT !.proc_status = s]
        BY <1>3 DEF WorkerUpdates, UpdateProcStatus, Present, Table
    <2>3. /\ queue'[l].proc_status = s /\ queue'[l].eas_host = queue[l].eas_host
          /\ s # NOT_PROCESS
          /\ s = EXPORTING => queue[l].proc_status = NOT_PROCESS
        BY <2>1, <2>2 DEF Row, ProcStatus, NOT_PROCESS, EXPORTING, MIGRATION_BREAKOUT
    <2>4. \A k \in Logins : Present(queue', k) => Present(queue, k)
        BY <2>1 DEF Present
    <2>5. UNCHANGED <<pc, req>>
        BY <1>3 DEF WorkerUpdates
    <2>6. ASSUME NEW k \in ExportRows(queue')
          PROVE  k \in ExportRows(queue) /\ queue'[k].eas_host = queue[k].eas_host
        <3>1. CASE k = l
            BY <2>1, <2>3, <2>4, <3>1 DEF ExportRows, AllRows, Unprocessed, Exporting, Present
        <3>2. CASE k # l
            BY <2>1, <3>2 DEF ExportRows, AllRows, Unprocessed, Exporting, Present
        <3> QED BY <3>1, <3>2
    <2>7. AllRows(queue') \subseteq AllRows(queue)
        BY <2>4 DEF AllRows
    <2>8. \A h \in Hosts : HostRows(queue', h) \subseteq HostRows(queue, h)
        BY <2>6 DEF HostRows
    <2> QED BY <2>5, <2>6, <2>7, <2>8
<1>4. ASSUME NEW l \in Logins, WorkerEnds(l) PROVE Shrinks
    <2>1. \A k \in Logins : Present(queue', k) => Present(queue, k) /\ queue'[k] = queue[k]
        BY <1>4 DEF WorkerEnds, DeleteData, Present, Table
    <2>2. UNCHANGED <<pc, req>>
        BY <1>4 DEF WorkerEnds
    <2> QED BY <2>1, <2>2 DEF AllRows, ExportRows, Unprocessed, Exporting, HostRows
<1> QED BY <1>1, <1>2, <1>3, <1>4

\* No interleaving of counts and INSERTs exceeds the limits by more than a row
\* per child.
LEMMA BoundStep ==
    ASSUME ServerInv, BoundInv, [Next]_vars
    PROVE  BoundInv'
<1> USE LimitsAssumption, RowsFinite
<1>1. TypeOK /\ ServerInv'
    BY ServerStepInv DEF ServerInv
<1>2. IsFiniteSet(Children') /\ Cardinality(Children') <= MaxConn
    <2>1. Children' \subseteq Conns
        BY DEF Children, Live, Zombies
    <2> QED BY <1>1, <2>1, ConnsFinite, FS_Subset DEF ServerInv, ConnCountExact
<1>3. /\ PastAll' \subseteq Children' /\ PastExport' \subseteq Children'
      /\ \A h : PastEas(h)' \subseteq Children'
    BY DEF PastAll, PastExport, PastEas, Children, Live, LiveStates, AccessStates
<1>4. CASE Shrinks
    BY <1>4, ShrinkStep
<1>5. ASSUME NEW c \in Conns, CountAll(c) PROVE BoundInv'
    <2>1. CASE Calm
        BY <1>1, <1>4, <2>1, ShrinkSteps
    <2>2. CASE Passes(c, "count_all", "count_export") /\ RecordCount(AllRows(queue)) <= TransactMax
        <3>1. queue' = queue /\ PastExport' = PastExport /\ \A h : PastEas(h)' = PastEas(h)
            BY <1>1, <2>2 DEF Passes, PastExport, PastEas, TypeOK
        <3>2. Cardinality(AllRows(queue')) + Cardinality(PastAll') <= TransactMax + MaxConn
            BY <1>2, <1>3, <2>2, <3>1, BoundFresh DEF RecordCount
        <3> QED BY <3>1, <3>2 DEF BoundInv
    <2> QED BY <1>1, <1>5, <2>1, <2>2, CountSteps
<1>6. ASSUME NEW c \in Conns, CountExport(c) PROVE BoundInv'
    <2>1. CASE Calm
        BY <1>1, <1>4, <2>1, ShrinkSteps
    <2>2. CASE Passes(c, "count_export", "count_eas") /\ RecordCount(ExportRows(queue)) <= ExportMax
        <3>1. queue' = queue /\ PastAll' = PastAll /\ \A h : PastEas(h)' = PastEas(h)
            BY <1>1, <2>2 DEF Passes, PastAll, PastEas, TypeOK
        <3>2. Cardinality(ExportRows(queue')) + Cardinality(PastExport') <= ExportMax + MaxConn
            BY <1>2, <1>3, <2>2, <3>1, BoundFresh DEF RecordCount
        <3> QED BY <3>1, <3>2 DEF BoundInv
    <2> QED BY <1>1, <1>6, <2>1, <2>2, CountSteps
<1>7. ASSUME NEW c \in Conns, CountEas(c) PROVE BoundInv'
    <2> PICK g : g = req[c].eas_host
        OBVIOUS
    <2>1. CASE Calm
        BY <1>1, <1>4, <2>1, ShrinkSteps
    <2>2. CASE Passes(c, "count_eas", "insert") /\ RecordCount(EasRows(queue, g)) <= ConnectMax
        <3>1. queue' = queue /\ PastAll' = PastAll /\ PastExport' = PastExport
            BY <1>1, <2>2 DEF Passes, PastAll, PastExport, TypeOK
        <3>2. \A h : h # g => PastEas(h)' = PastEas(h)
            BY <1>1, <2>2 DEF Passes, PastEas, TypeOK
        <3>3. HostRows(queue, g) \subseteq EasRows(queue, g)
            BY DEF HostRows, EasRows, ExportRows
        <3>4. Cardinality(HostRows(queue', g)) + Cardinality(PastEas(g)') <= ConnectMax + MaxConn
            BY <1>2, <1>3, <2>2, <3>1, <3>3, BoundFresh DEF RecordCount
        <3>5. ASSUME NEW h \in Hosts
              PROVE  Cardinality(HostRows(queue', h)) + Cardinality(PastEas(h)') <= ConnectMax + MaxConn
            <4>1. CASE h = g
                BY <3>4, <4>1
            <4>2. CASE h # g
                BY <3>1, <3>2, <4>2 DEF BoundInv
            <4> QED BY <4>1, <4>2
        <3> QED BY <3>1, <3>5 DEF BoundInv
    <2> QED BY <1>1, <1>7, <2>1, <2>2, CountSteps
<1>8. ASSUME NEW c \in Conns, Insert(c) PROVE BoundInv'
    <2> PICK l, g : l = req[c].login_id /\ g = req[c].eas_host
        OBVIOUS
    <2>0. /\ pc[c] = "insert" /\ l \in Logins /\ g \in Hosts
          /\ queue' = [queue EXCEPT ![l] = [eas_host |-> g, proc_status |-> NOT_PROCESS]]
        BY <1>1, <1>8 DEF Insert, InsertMigrationInformation, TypeOK, AccessStates, Request
    <2>1. /\ queue'[l].eas_host = g
          /\ \A k \in Logins : k # l => queue'[k] = queue[k]
        BY <1>1, <2>0 DEF TypeOK, Table
    <2>2. pc'[c] \in {"loop", "execute"} /\ \A d \in Conns \ {c} : pc'[d] = pc[d] /\ req'[d] = req[d]
        BY <1>1, <1>8 DEF Insert, Goto, DoReply, TypeOK
    <2>3. PastAll' \subseteq PastAll \ {c} /\ PastExport' \subseteq PastExport \ {c}
        BY <2>2 DEF PastAll, PastExport
    <2>4. \A h : PastEas(h)' \subseteq PastEas(h) \ {c}
        BY <2>2 DEF PastEas
    <2>5. c \in PastAll /\ c \in PastExport /\ c \in PastEas(g)
        BY <2>0 DEF PastAll, PastExport, PastEas
    <2>6. AllRows(queue') \subseteq AllRows(queue) \cup {l}
        BY <2>1 DEF AllRows, Present
    <2>7. ExportRows(queue') \subseteq ExportRows(queue) \cup {l}
        BY <2>1 DEF ExportRows, Unprocessed, Exporting, AllRows, Present
    <2>8. \A h : HostRows(queue', h) \subseteq HostRows(queue, h) \cup {l}
        BY <2>1, <2>7 DEF HostRows, ExportRows, Unprocessed, Exporting, AllRows
    <2>9. \A h : h # g => HostRows(queue', h) \subseteq HostRows(queue, h)
        BY <2>1, <2>8 DEF HostRows
    <2>10. Cardinality(AllRows(queue')) + Cardinality(PastAll') <= TransactMax + MaxConn
        <3>1. Cardinality(AllRows(queue)) + Cardinality(PastAll) <= TransactMax + MaxConn
            BY DEF BoundInv
        <3>2. TransactMax + MaxConn \in Nat
            OBVIOUS
        <3> QED BY <2>3, <2>5, <2>6, <3>1, <3>2, BoundMoves
    <2>11. Cardinality(ExportRows(queue')) + Cardinality(PastExport') <= ExportMax + MaxConn
        <3>1. Cardinality(ExportRows(queue)) + Cardinality(PastExport) <= ExportMax + MaxConn
            BY DEF BoundInv
        <3>2. ExportMax + MaxConn \in Nat
            OBVIOUS
        <3> QED BY <2>3, <2>5, <2>7, <3>1, <3>2, BoundMoves
    <2>12. ASSUME NEW h \in Hosts
           PROVE  Cardinality(HostRows(queue', h)) + Cardinality(PastEas(h)') <= ConnectMax + MaxConn
        <3>1. Cardinality(HostRows(queue, h)) + Cardinality(PastEas(h)) <= ConnectMax + MaxConn
            BY DEF BoundInv
        <3>2. CASE h = g
            <4>1. ConnectMax + MaxConn \in Nat
                OBVIOUS
            <4>2. c \in PastEas(h) /\ PastEas(h)' \subseteq PastEas(h) \ {c}
                BY <2>4, <2>5, <3>2
            <4>3. HostRows(queue', h) \subseteq HostRows(queue, h) \cup {l}
                BY <2>8
            <4> QED BY <3>1, <4>1, <4>2, <4>3, BoundMoves
        <3>3. CASE h # g
            <4>1. PastEas(h)' \subseteq PastEas(h)
                BY <2>4
            <4> QED BY <2>9, <3>1, <3>3, <4>1, BoundKeeps
        <3> QED BY <3>2, <3>3
    <2> QED BY <2>10, <2>11, <2>12 DEF BoundInv
<1> QED
    BY <1>1, <1>4, <1>5, <1>6, <1>7, <1>8, ShrinkSteps, CalmSteps DEF Next

\* For any limits and any number of concurrent requests, the rows that the three
\* counts of access_db look at exceed their limits by no more than MaxConn.
THEOREM LimitsHold == Spec => [](TableBound /\ ExportBound /\ EasBound)
<1>1. Init => BoundInv
    <2> SUFFICES ASSUME Init PROVE BoundInv
        OBVIOUS
    <2>1. /\ AllRows(queue) = {} /\ ExportRows(queue) = {}
          /\ \A h : HostRows(queue, h) = {}
        BY DEF Init, EmptyTable, AllRows, ExportRows, Unprocessed, Exporting, HostRows, Present
    <2>2. PastAll = {} /\ PastExport = {} /\ \A h : PastEas(h) = {}
        BY DEF Init, PastAll, PastExport, PastEas
    <2>3. Cardinality({}) = 0
        BY FS_EmptySet
    <2>4. TransactMax + MaxConn >= 0 /\ ExportMax + MaxConn >= 0 /\ ConnectMax + MaxConn >= 0
        BY LimitsAssumption
    <2> QED BY <2>1, <2>2, <2>3, <2>4 DEF BoundInv
<1>2. ServerInv /\ BoundInv /\ [Next]_vars => BoundInv'
    BY BoundStep
<1>3. BoundInv => TableBound /\ ExportBound /\ EasBound
    <2> SUFFICES ASSUME BoundInv PROVE TableBound /\ ExportBound /\ EasBound
        OBVIOUS
    <2> USE RowsFinite, FS_CardinalityType, LimitsAssumption
    <2>1. TableBound /\ ExportBound
        BY DEF BoundInv, TableBound, ExportBound, RecordCount
    <2>2. EasBound
        BY DEF BoundInv, EasBound, RecordCount
    <2> QED BY <2>1, <2>2
<1>4. ServerInv /\ [Next]_vars => ServerInv'
    BY ServerStepInv
<1> QED
    BY ServerInit, <1>1, <1>2, <1>3, <1>4, PTL DEF Spec

-----------------------------------------------------------------------------
(* Maintenance files, and rows nothing will process.                       *)

\* The calls of on_read, and those that come after the access() for a file.
HandlingStates == CheckStates \cup AccessStates \cup {"execute"}
DirChecked     == HandlingStates \ {"prevent_dir"}
ToolChecked    == DirChecked \ {"prevent_tool"}
EasChecked     == AccessStates \cup {"execute"}

\* A request in hand is barred only by files that are still there, and never by
\* one its child has already looked for.
BarredInv ==
    \A c \in Conns :
        /\ pc[c] \in HandlingStates => barred[c] \subseteq prevent
        /\ pc[c] \in DirChecked  => NoDir \notin barred[c]
        /\ pc[c] \in ToolChecked => ToolLock \notin barred[c]
        /\ pc[c] \in EasChecked  => req[c].eas_host \notin barred[c]

\* A step that takes up no request, looks for no file and touches none.
Unbarring ==
    /\ UNCHANGED <<prevent, barred>>
    /\ \A c \in Conns :
          pc'[c] \in HandlingStates =>
             /\ req'[c] = req[c]
             /\ pc'[c] = pc[c] \/ (pc[c] \in EasChecked /\ pc'[c] \in EasChecked)

\* A child that has replied or exited has no request in hand.
Drops(c) ==
    /\ pc'[c] \notin HandlingStates
    /\ \A d \in Conns \ {c} : pc'[d] = pc[d] /\ req'[d] = req[d] /\ barred'[d] = barred[d]
    /\ UNCHANGED prevent

\* Replying and exiting are of this kind.
LEMMA DropSteps ==
    ASSUME TypeOK, NEW c \in Conns
    PROVE  /\ \A code : DoReply(c, code) => Drops(c)
           /\ ChildExit(c) => Drops(c)
BY DEF TypeOK, DoReply, ChildExit, Drops, HandlingStates, CheckStates, AccessStates

\* Each access() either ends the request or finds its file absent.
LEMMA CheckSteps ==
    ASSUME TypeOK, NEW c \in Conns, NEW from, NEW file, NEW code, NEW next,
           CheckFile(c, from, file, code, next)
    PROVE  \/ Drops(c)
           \/ /\ pc[c] = from /\ file \notin prevent
              /\ pc' = [pc EXCEPT ![c] = next]
              /\ UNCHANGED <<req, barred, prevent>>
BY DropSteps DEF CheckFile, Goto

\* What the operator does between two access() calls of a child never makes it
\* pass a file that was there from the start.
LEMMA BarredStep ==
    ASSUME TypeOK, BarredInv, [Next]_vars
    PROVE  BarredInv'
<1> USE DEF BarredInv, HandlingStates, DirChecked, ToolChecked, EasChecked,
            CheckStates, AccessStates
<1>1. CASE Unbarring
    BY <1>1 DEF Unbarring
<1>2. ASSUME NEW c \in Conns, Drops(c) PROVE BarredInv'
    BY <1>2 DEF Drops
<1>3. CASE UNCHANGED vars
    BY <1>1, <1>3 DEF vars, Unbarring
<1>4. CASE SigchldHandler \/ Stop \/ LoopReturns \/ Sigint \/ ListenerError
    BY <1>1, <1>4 DEF SigchldHandler, Stop, LoopReturns, Sigint, ListenerError, Unbarring, TypeOK
<1>5. ASSUME NEW c \in Conns,
             Refuse(c) \/ Accept(c) \/ Connect(c) \/ OnReadPartial(c) \/ OnReadBad(c)
      PROVE BarredInv'
    BY <1>1, <1>5 DEF Refuse, Accept, Connect, OnReadPartial, OnReadBad, Unbarring, TypeOK
<1>6. ASSUME NEW c \in Conns, OnReadRequest(c) PROVE BarredInv'
    BY <1>6 DEF OnReadRequest, TypeOK
<1>7. ASSUME NEW c \in Conns,
             ClientCloses(c) \/ RequestTimeout(c) \/ ChildDies(c) \/ OnWrite(c)
      PROVE BarredInv'
    BY <1>2, <1>7, DropSteps DEF ClientCloses, RequestTimeout, ChildDies, OnWrite
<1>8. ASSUME NEW c \in Conns,
             CheckPreventDir(c) \/ CheckPreventTool(c) \/ CheckPreventEas(c)
      PROVE BarredInv'
    <2>1. CASE CheckPreventDir(c)
        BY <1>2, <2>1, CheckSteps DEF CheckPreventDir, TypeOK
    <2>2. CASE CheckPreventTool(c)
        BY <1>2, <2>2, CheckSteps DEF CheckPreventTool, TypeOK
    <2>3. CASE CheckPreventEas(c)
        BY <1>2, <2>3, CheckSteps DEF CheckPreventEas, TypeOK
    <2> QED BY <1>8, <2>1, <2>2, <2>3
<1>9. ASSUME NEW c \in Conns, CountAll(c) \/ CountExport(c) \/ CountEas(c) PROVE BarredInv'
    <2>1. CASE \E code : DoReply(c, code)
        BY <1>2, <2>1, DropSteps
    <2>2. CASE \E s \in AccessStates : pc[c] \in AccessStates /\ Goto(c, s)
        BY <1>1, <2>2 DEF Goto, Unbarring, TypeOK
    <2> QED BY <1>9, <2>1, <2>2 DEF CountAll, CountExport, CountEas, CheckCount
<1>10. ASSUME NEW c \in Conns, Insert(c) PROVE BarredInv'
    <2>1. CASE DoReply(c, "DB_ERR")
        BY <1>2, <2>1, DropSteps
    <2>2. CASE Goto(c, "execute")
        BY <1>1, <1>10, <2>2 DEF Insert, Goto, Unbarring, TypeOK
    <2> QED BY <1>10, <2>1, <2>2 DEF Insert
<1>11. ASSUME NEW c \in Conns,
              DbError(c) \/ InsertDuplicate(c) \/ ExecuteForkFails(c) \/ ExecuteLost(c)
                 \/ Execute(c)
       PROVE BarredInv'
    BY <1>2, <1>11, DropSteps DEF DbError, InsertDuplicate, ExecuteForkFails, ExecuteLost, Execute
<1>12. ASSUME NEW f \in OpFiles, Maintenance(f) PROVE BarredInv'
    BY <1>12 DEF Maintenance, TypeOK
<1>13. ASSUME NEW l \in Logins, WorkerUpdates(l) \/ WorkerEnds(l) PROVE BarredInv'
    BY <1>1, <1>13 DEF WorkerUpdates, WorkerEnds, Unbarring
<1> HIDE DEF BarredInv
<1> QED
    BY <1>3, <1>4, <1>5, <1>6, <1>7, <1>8, <1>9, <1>10, <1>11, <1>12, <1>13
       DEF Next, ReceptionNext, ServerStep, ChildStep, ClientStep

\* For any number of requests and any timing of the operator's files: a request
\* read while a file that concerns it was there, and stayed, reaches no statement.
THEOREM FilesHonoured == Spec => []MaintenanceHonoured
<1>1. Init => BarredInv
    BY DEF Init, BarredInv
<1>2. ServerInv /\ BarredInv /\ [Next]_vars => BarredInv'
    BY BarredStep DEF ServerInv
<1>3. BarredInv => MaintenanceHonoured
    BY DEF BarredInv, MaintenanceHonoured, ToolChecked, DirChecked, EasChecked, HandlingStates,
           CheckStates, AccessStates
<1>4. ServerInv /\ [Next]_vars => ServerInv'
    BY ServerStepInv
<1> QED
    BY ServerInit, <1>1, <1>2, <1>3, <1>4, PTL DEF Spec

\* An INSERT does not reach a row that is there, and a row without a process is
\* left alone by all of msgmvrcpt and by the processes of other logins.
LEMMA AbandonedStep ==
    ASSUME TypeOK, [Next]_vars, NEW l \in Logins, Abandoned(l)
    PROVE  Abandoned(l)'
<1> USE DEF TypeOK, Abandoned, Launching, Unprocessed, AllRows, Present
<1>1. CASE Calm
    BY <1>1 DEF Calm, PassedStates
<1>2. ASSUME NEW c \in Conns, CountAll(c) \/ CountExport(c) \/ CountEas(c) PROVE Abandoned(l)'
    BY <1>1, <1>2, CountSteps DEF Passes
<1>3. ASSUME NEW c \in Conns, Insert(c) PROVE Abandoned(l)'
    <2>1. req[c].login_id # l /\ queue'[l] = queue[l]
        BY <1>3 DEF Insert, InsertMigrationInformation, Table
    <2>2. \A d \in Conns : pc'[d] = "execute" =>
             (d = c \/ pc[d] = "execute") /\ req'[d] = req[d]
        BY <1>3 DEF Insert, Goto, DoReply
    <2> QED BY <1>3, <2>1, <2>2 DEF Insert
<1>4. ASSUME NEW c \in Conns, Execute(c) PROVE Abandoned(l)'
    <2>1. req[c].login_id # l
        BY <1>4 DEF Execute
    <2> QED BY <1>4, <2>1 DEF Execute, DoReply
<1>5. ASSUME NEW k \in Logins, WorkerUpdates(k) \/ WorkerEnds(k) PROVE Abandoned(l)'
    <2>1. k # l
        BY <1>5 DEF WorkerUpdates, WorkerEnds
    <2>2. queue'[l] = queue[l] /\ workers'[l] = workers[l]
        BY <1>5, <2>1 DEF WorkerUpdates, WorkerEnds, UpdateProcStatus, DeleteData, Table
    <2> QED BY <1>5, <2>2 DEF WorkerUpdates, WorkerEnds
<1> QED
    BY <1>1, <1>2, <1>3, <1>4, <1>5, CalmSteps DEF Next

\* Whatever happens afterwards, a row whose msgmv was never started keeps its
\* login out: no later request, however many, starts one for it.
THEOREM AbandonedForGood == Spec => AbandonedRowStays
<1>1. ServerInv /\ [Next]_vars => [\A l \in Logins : Abandoned(l) => Abandoned(l)']_vars
    BY AbandonedStep DEF ServerInv
<1>2. ServerInv /\ [Next]_vars => ServerInv'
    BY ServerStepInv
<1> QED
    BY ServerInit, <1>1, <1>2, PTL DEF Spec, AbandonedRowStays
=============================================================================
