---------------------------- MODULE MsgMoveProofs ----------------------------
(***************************************************************************)
(* The whole service for any number of connections, processes, logins and  *)
(* mails: msgmv meets what msgmvrcpt assumes of it, so that all that is    *)
(* proved of Reception holds of the service, and every status and every    *)
(* mail store changes only where the row of the login allows it.           *)
(***************************************************************************)
EXTENDS MsgMove, FiniteSetTheorems, TLAPS

\* The theorems on Reception, for the processes counted by WorkersOf.
RP == INSTANCE ReceptionProofs WITH workers <- WorkersOf

-----------------------------------------------------------------------------
(* R and RP are two instances of one module.                               *)

\* The library operators and the table are the same in all three modules.
LEMMA SameSets ==
    /\ \A S : R!Cardinality(S) = Cardinality(S) /\ RP!Cardinality(S) = Cardinality(S)
    /\ \A S : RP!IsFiniteSet(S) <=> IsFiniteSet(S)
    /\ RP!Row = Row /\ RP!Table = Table /\ RP!Request = R!Request
    /\ RP!ProcStatus = ProcStatus
<1>1. \A S : R!Cardinality(S) = Cardinality(S)
    BY DEF R!Cardinality, Cardinality
<1>2. \A S : RP!Cardinality(S) = Cardinality(S)
    BY DEF RP!Cardinality, Cardinality
<1>3. \A S : RP!IsFiniteSet(S) <=> IsFiniteSet(S)
    BY DEF RP!IsFiniteSet, IsFiniteSet
<1>4. RP!ProcStatus = ProcStatus /\ RP!Request = R!Request
    BY DEF RP!ProcStatus, ProcStatus, RP!NOT_PROCESS, NOT_PROCESS, RP!MIGRATION_BREAKOUT,
           MIGRATION_BREAKOUT, RP!Request, R!Request
<1>5. RP!Row = Row
    BY <1>4 DEF RP!Row, Row
<1>6. RP!Table = Table
    BY <1>5 DEF RP!Table, Table
<1> QED BY <1>1, <1>2, <1>3, <1>4, <1>5, <1>6

\* The constants of the service are as Reception wants them.
LEMMA Constants ==
    /\ RP!IsFiniteSet(Logins) /\ RP!IsFiniteSet(Conns)
    /\ NoRow \notin RP!Row /\ NoReq \notin RP!Request
    /\ MaxConn \in Nat /\ TransactMax \in Nat /\ ExportMax \in Nat /\ ConnectMax \in Nat
    /\ MayStop \in BOOLEAN /\ OpFiles \subseteq Hosts \cup {ToolLock, NoDir}
BY SameSets, ReceptionConstants, LoginsFinite, NoRowIsNoRow

\* A step of one instance is a step of the other.
LEMMA SameSteps ==
    /\ R!Init <=> RP!Init
    /\ UNCHANGED R!vars <=> UNCHANGED RP!vars
    /\ R!ReceptionNext <=> RP!ReceptionNext
    /\ R!Next <=> RP!Next
    /\ \A c : R!Execute(c) <=> RP!Execute(c)
<1> USE SameSets DEF R!serverVars, RP!serverVars, R!childVars, RP!childVars, R!dbVars, RP!dbVars
<1>1. R!Init <=> RP!Init
    BY DEF R!Init, RP!Init, R!NoResult, RP!NoResult, R!EmptyTable, RP!EmptyTable
<1>2. UNCHANGED R!vars <=> UNCHANGED RP!vars
    BY DEF R!vars, RP!vars
<1>3. R!SigchldHandler <=> RP!SigchldHandler
    BY DEF R!SigchldHandler, RP!SigchldHandler, R!Zombies, RP!Zombies
<1>4. (R!Stop <=> RP!Stop) /\ (R!LoopReturns <=> RP!LoopReturns)
    BY DEF R!Stop, RP!Stop, R!LoopReturns, RP!LoopReturns
<1>5. (R!Sigint <=> RP!Sigint) /\ (R!ListenerError <=> RP!ListenerError)
    BY DEF R!Sigint, RP!Sigint, R!ListenerError, RP!ListenerError
<1>6. \A c : (R!Refuse(c) <=> RP!Refuse(c)) /\ (R!Accept(c) <=> RP!Accept(c))
    BY DEF R!Refuse, RP!Refuse, R!Accept, RP!Accept, R!NoResult, RP!NoResult
<1>7. \A c, s : (R!Goto(c, s) <=> RP!Goto(c, s)) /\ (R!DoReply(c, s) <=> RP!DoReply(c, s))
    BY DEF R!Goto, RP!Goto, R!DoReply, RP!DoReply
<1>8. \A c : R!ChildExit(c) <=> RP!ChildExit(c)
    BY DEF R!ChildExit, RP!ChildExit, R!NoResult, RP!NoResult
<1>9. \A c : /\ R!CheckPreventDir(c) <=> RP!CheckPreventDir(c)
             /\ R!CheckPreventTool(c) <=> RP!CheckPreventTool(c)
             /\ R!CheckPreventEas(c) <=> RP!CheckPreventEas(c)
    BY <1>7 DEF R!CheckPreventDir, RP!CheckPreventDir, R!CheckPreventTool, RP!CheckPreventTool,
                R!CheckPreventEas, RP!CheckPreventEas, R!CheckFile, RP!CheckFile
<1>10. \A c : /\ R!CountAll(c) <=> RP!CountAll(c)
              /\ R!CountExport(c) <=> RP!CountExport(c)
              /\ R!CountEas(c) <=> RP!CountEas(c)
    BY <1>7 DEF R!CountAll, RP!CountAll, R!CountExport, RP!CountExport, R!CountEas, RP!CountEas,
                R!CheckCount, RP!CheckCount, R!RecordCount, RP!RecordCount, R!AllRows, RP!AllRows,
                R!ExportRows, RP!ExportRows, R!EasRows, RP!EasRows, R!Unprocessed, RP!Unprocessed,
                R!Exporting, RP!Exporting, R!Present, RP!Present, R!NOT_PROCESS, RP!NOT_PROCESS,
                R!EXPORTING, RP!EXPORTING
<1>11. \A c : /\ R!DbError(c) <=> RP!DbError(c)
              /\ R!InsertDuplicate(c) <=> RP!InsertDuplicate(c)
              /\ R!Insert(c) <=> RP!Insert(c)
    BY <1>7 DEF R!DbError, RP!DbError, R!InsertDuplicate, RP!InsertDuplicate, R!Insert, RP!Insert,
                R!AccessStates, RP!AccessStates, R!Present, RP!Present, R!NOT_PROCESS,
                RP!NOT_PROCESS, R!InsertMigrationInformation, RP!InsertMigrationInformation
<1>12. \A c : /\ R!ExecuteForkFails(c) <=> RP!ExecuteForkFails(c)
              /\ R!ExecuteLost(c) <=> RP!ExecuteLost(c)
              /\ R!Execute(c) <=> RP!Execute(c)
    BY <1>7 DEF R!ExecuteForkFails, RP!ExecuteForkFails, R!ExecuteLost, RP!ExecuteLost,
                R!Execute, RP!Execute
<1>13. \A c : /\ R!OnWrite(c) <=> RP!OnWrite(c)
              /\ R!RequestTimeout(c) <=> RP!RequestTimeout(c)
              /\ R!ChildDies(c) <=> RP!ChildDies(c)
              /\ R!ClientCloses(c) <=> RP!ClientCloses(c)
    BY <1>8 DEF R!OnWrite, RP!OnWrite, R!RequestTimeout, RP!RequestTimeout, R!ChildDies,
                RP!ChildDies, R!ClientCloses, RP!ClientCloses, R!LiveStates, RP!LiveStates,
                R!CheckStates, RP!CheckStates, R!AccessStates, RP!AccessStates
<1>14. \A c : /\ R!Connect(c) <=> RP!Connect(c)
              /\ R!OnReadPartial(c) <=> RP!OnReadPartial(c)
              /\ R!OnReadBad(c) <=> RP!OnReadBad(c)
              /\ R!OnReadRequest(c) <=> RP!OnReadRequest(c)
    BY DEF R!Connect, RP!Connect, R!OnReadPartial, RP!OnReadPartial, R!OnReadBad, RP!OnReadBad,
           R!OnReadRequest, RP!OnReadRequest, R!NoResult, RP!NoResult
<1>15. \A f : R!Maintenance(f) <=> RP!Maintenance(f)
    BY DEF R!Maintenance, RP!Maintenance
<1>16. \A l : R!WorkerUpdates(l) <=> RP!WorkerUpdates(l)
    BY DEF R!WorkerUpdates, RP!WorkerUpdates, R!UpdateProcStatus, RP!UpdateProcStatus,
           R!Present, RP!Present, R!ProcStatus, RP!ProcStatus, R!NOT_PROCESS, RP!NOT_PROCESS,
           R!MIGRATION_BREAKOUT, RP!MIGRATION_BREAKOUT
<1>17. \A l : R!WorkerEnds(l) <=> RP!WorkerEnds(l)
    BY DEF R!WorkerEnds, RP!WorkerEnds, R!DeleteData, RP!DeleteData, R!Present, RP!Present,
           R!MIGRATING, RP!MIGRATING
<1>18. R!ReceptionNext <=> RP!ReceptionNext
    BY <1>3, <1>4, <1>5, <1>6, <1>9, <1>10, <1>11, <1>12, <1>13, <1>14, <1>15
       DEF R!ReceptionNext, RP!ReceptionNext, R!ServerStep, RP!ServerStep, R!ChildStep,
           RP!ChildStep, R!ClientStep, RP!ClientStep
<1> QED BY <1>1, <1>2, <1>12, <1>16, <1>17, <1>18 DEF R!Next, RP!Next

-----------------------------------------------------------------------------
(* Processes and their rows.                                               *)

\* The PROC_STATUS of the row of a process that is at a call of main().
ExportingCalls == {"modify_account", "set_password", "get_info", "download", "set_analyzing"}
AnalyzingCalls == {"filter", "set_migrating"}
MigratingCalls == {"imap_login", "append", "restore_account", "delete_data"}
StatusAt(s) ==
    IF s \in ExportingCalls THEN EXPORTING
    ELSE IF s \in AnalyzingCalls THEN ANALYZING
    ELSE IF s \in MigratingCalls THEN MIGRATING
    ELSE NOT_PROCESS

\* The row of a login with a process is where the process left it, and the row
\* of one whose process is about to be started has not been touched.
RowInv ==
    /\ \A p \in Running :
          /\ Present(queue, plogin[p])
          /\ queue[plogin[p]].proc_status = StatusAt(wpc[p])
    /\ \A c \in Conns :
          pc[c] = "execute" => queue[req[c].login_id].proc_status = NOT_PROCESS

\* The inductive invariant of the service: that of the server, one process per
\* login, and the rows.
ServiceInv ==
    /\ WorkerTypeOK
    /\ RP!ServerInv
    /\ RP!LaunchInv
    /\ RowInv

\* What a step of a process does to its row: nothing, ...
Advances(p) ==
    /\ \E s \in RunningStates :
          StatusAt(s) = StatusAt(wpc[p]) /\ wpc' = [wpc EXCEPT ![p] = s]
    /\ UNCHANGED <<plogin, queue>>
\* ... the next PROC_STATUS, ...
Raises(p) ==
    /\ wpc[p] \notin MigratingCalls
    /\ \E s \in RunningStates :
          /\ StatusAt(s) = StatusAt(wpc[p]) + 1
          /\ wpc' = [wpc EXCEPT ![p] = s]
          /\ queue' = UpdateProcStatus(queue, plogin[p], StatusAt(s))
    /\ UNCHANGED plogin
\* ... or the end of the process, with the row deleted only after MIGRATING.
Ends(p) ==
    /\ Gone(p)
    /\ \/ UNCHANGED queue
       \/ wpc[p] \in MigratingCalls /\ queue' = DeleteData(queue, plogin[p])

\* Every statement of main() is of one of the three kinds.
LEMMA StepKinds ==
    ASSUME WorkerTypeOK, NEW p \in Procs, ProcessStep(p)
    PROVE  /\ p \in Running /\ plogin[p] \in Logins
           /\ Advances(p) \/ Raises(p) \/ Ends(p)
           /\ UNCHANGED recvVars
<1> USE DEF WorkerTypeOK, Running, RunningStates, ExportStates, ImportStates
<1>1. p \in Running
    <2>1. CASE Die(p)
        BY <2>1 DEF Die
    <2>2. CASE WorkerStep(p)
        BY <2>2 DEF WorkerStep, GetMigrationInformation, LdapSearch, NsimConfirm, SetZimbraId,
              SetExporting, ModifyAccount, SetPassword, GetInfo, Download, ExportFails,
              SetAnalyzing, Filter, SetMigrating, SetStatus, ImapLogin, Append, Logout,
              RestoreAccount, DeleteRow, Goto
    <2> QED BY <2>1, <2>2 DEF ProcessStep
<1>2. Advances(p) \/ Raises(p) \/ Ends(p)
    <2> USE DEF StatusAt, ExportingCalls, AnalyzingCalls, MigratingCalls,
                NOT_PROCESS, EXPORTING, ANALYZING, MIGRATING, Goto
    <2>1. CASE GetMigrationInformation(p)
        BY <2>1 DEF GetMigrationInformation, Advances, Ends
    <2>2. CASE LdapSearch(p)
        BY <2>2 DEF LdapSearch, Advances
    <2>3. CASE NsimConfirm(p)
        BY <2>3 DEF NsimConfirm, Ends
    <2>4. CASE SetZimbraId(p)
        BY <2>4 DEF SetZimbraId, Advances
    <2>5. CASE SetExporting(p)
        BY <2>5 DEF SetExporting, SetStatus, Raises
    <2>6. CASE ModifyAccount(p)
        BY <2>6 DEF ModifyAccount, Advances
    <2>7. CASE SetPassword(p)
        BY <2>7 DEF SetPassword, Advances
    <2>8. CASE GetInfo(p)
        BY <2>8 DEF GetInfo, Advances
    <2>9. CASE Download(p)
        BY <2>9 DEF Download, Advances
    <2>10. CASE ExportFails(p)
        BY <2>10 DEF ExportFails, Advances
    <2>11. CASE SetAnalyzing(p)
        BY <2>11 DEF SetAnalyzing, SetStatus, Raises
    <2>12. CASE Filter(p)
        BY <2>12 DEF Filter, Advances, Ends
    <2>13. CASE SetMigrating(p)
        BY <2>13 DEF SetMigrating, SetStatus, Raises
    <2>14. CASE ImapLogin(p)
        BY <2>14 DEF ImapLogin, Advances
    <2>15. CASE Append(p)
        <3>1. wpc' = [wpc EXCEPT ![p] = "append"] /\ wpc[p] = "append"
            BY <2>15 DEF Append
        <3> QED BY <2>15, <3>1 DEF Append, Advances
    <2>16. CASE Logout(p)
        BY <2>16 DEF Logout, Advances
    <2>17. CASE RestoreAccount(p)
        BY <2>17 DEF RestoreAccount, Advances
    <2>18. CASE DeleteRow(p)
        BY <2>18 DEF DeleteRow, Ends
    <2>19. CASE Die(p)
        BY <2>19 DEF Die, Ends
    <2> QED
        BY <2>1, <2>2, <2>3, <2>4, <2>5, <2>6, <2>7, <2>8, <2>9, <2>10, <2>11, <2>12, <2>13,
           <2>14, <2>15, <2>16, <2>17, <2>18, <2>19 DEF ProcessStep, WorkerStep
<1>3. UNCHANGED recvVars
    BY DEF ProcessStep
<1> QED BY <1>1, <1>2, <1>3

\* WorkersOf counts the processes of a login; there is at most one.
LEMMA OneProcess ==
    ASSUME WorkerTypeOK, RP!LaunchInv
    PROVE  /\ \A l \in Logins : IsFiniteSet(ProcsOf(l)) /\ WorkersOf[l] = Cardinality(ProcsOf(l))
           /\ \A p, q \in Procs : plogin[p] \in Logins /\ plogin[p] = plogin[q] => p = q
           /\ \A p \in Procs, c \in Conns :
                 pc[c] = "execute" /\ req[c].login_id \in Logins => plogin[p] # req[c].login_id
<1>1. \A l \in Logins : IsFiniteSet(ProcsOf(l)) /\ WorkersOf[l] = Cardinality(ProcsOf(l))
    <2>1. \A l \in Logins : ProcsOf(l) \in SUBSET Procs
        BY DEF ProcsOf
    <2> QED BY <2>1, ProcsFinite, FS_Subset DEF WorkersOf
<1>2. ASSUME NEW p \in Procs, NEW q \in Procs, plogin[p] \in Logins, plogin[p] = plogin[q]
      PROVE  p = q
    <2> DEFINE S == ProcsOf(plogin[p])
    <2>1. p \in S /\ q \in S /\ IsFiniteSet(S)
        BY <1>1, <1>2 DEF ProcsOf
    <2>2. Cardinality(S) \in {0, 1}
        BY <1>1, <1>2 DEF RP!LaunchInv
    <2>3. Cardinality(S) # 0
        BY <2>1, FS_EmptySet
    <2>4. PICK x : S = {x}
        BY <2>1, <2>2, <2>3, FS_Singleton
    <2> QED BY <2>1, <2>4
<1>3. ASSUME NEW p \in Procs, NEW c \in Conns, pc[c] = "execute", req[c].login_id \in Logins
      PROVE  plogin[p] # req[c].login_id
    <2>1. Cardinality(ProcsOf(req[c].login_id)) = 0
        BY <1>1, <1>3 DEF RP!LaunchInv
    <2>2. ProcsOf(req[c].login_id) = {}
        BY <1>1, <1>3, <2>1, FS_EmptySet
    <2> QED BY <2>2 DEF ProcsOf
<1> QED BY <1>1, <1>2, <1>3

-----------------------------------------------------------------------------
(* The service implements Reception.                                       *)

\* A process that goes on is still counted, and one that is gone no longer.
LEMMA CountedProcesses ==
    ASSUME ServiceInv, NEW p \in Procs, p \in Running, plogin[p] \in Logins
    PROVE  /\ WorkersOf[plogin[p]] > 0
           /\ UNCHANGED plogin => UNCHANGED WorkersOf
           /\ Gone(p) => WorkersOf' = [WorkersOf EXCEPT ![plogin[p]] = @ - 1]
<1> DEFINE l == plogin[p]
<1>0. /\ \A k \in Logins : IsFiniteSet(ProcsOf(k)) /\ WorkersOf[k] = Cardinality(ProcsOf(k))
      /\ p \in ProcsOf(l)
    BY OneProcess DEF ServiceInv, ProcsOf
<1>1. WorkersOf[l] > 0
    <2>1. Cardinality(ProcsOf(l)) \in Nat /\ Cardinality(ProcsOf(l)) # 0
        BY <1>0, FS_CardinalityType, FS_EmptySet
    <2> QED BY <1>0, <2>1
<1>2. UNCHANGED plogin => UNCHANGED WorkersOf
    BY DEF WorkersOf, ProcsOf
<1>3. ASSUME Gone(p) PROVE WorkersOf' = [WorkersOf EXCEPT ![l] = @ - 1]
    <2>1. \A q \in Procs : plogin'[q] = IF q = p THEN NoLogin ELSE plogin[q]
        BY <1>3 DEF Gone, ServiceInv, WorkerTypeOK
    <2>2. \A k \in Logins : ProcsOf(k)' = IF k = l THEN ProcsOf(k) \ {p} ELSE ProcsOf(k)
        BY <2>1, NoLoginAssumption DEF ProcsOf
    <2>3. Cardinality(ProcsOf(l) \ {p}) = Cardinality(ProcsOf(l)) - 1
        BY <1>0, FS_RemoveElement
    <2>4. \A k \in Logins : Cardinality(ProcsOf(k)') =
             IF k = l THEN Cardinality(ProcsOf(k)) - 1 ELSE Cardinality(ProcsOf(k))
        BY <2>2, <2>3
    <2>5. WorkersOf' = [k \in Logins |-> Cardinality(ProcsOf(k)')]
        BY DEF WorkersOf
    <2>6. WorkersOf = [k \in Logins |-> Cardinality(ProcsOf(k))]
        BY DEF WorkersOf
    <2> HIDE DEF l
    <2> QED BY <2>4, <2>5, <2>6
<1> QED BY <1>1, <1>2, <1>3

\* What a process does is a step that Reception allows an msgmv, or none at all.
LEMMA ProcessSteps ==
    ASSUME ServiceInv, NEW p \in Procs, ProcessStep(p)
    PROVE  RP!WorkerUpdates(plogin[p]) \/ RP!WorkerEnds(plogin[p]) \/ UNCHANGED RP!vars
<1> DEFINE l == plogin[p]
<1> USE DEF RP!serverVars, RP!childVars, RP!dbVars, recvVars
<1>1. /\ p \in Running /\ l \in Logins
      /\ Advances(p) \/ Raises(p) \/ Ends(p)
      /\ UNCHANGED recvVars
    BY StepKinds DEF ServiceInv
<1>2. /\ WorkersOf[l] > 0
      /\ UNCHANGED plogin => UNCHANGED WorkersOf
      /\ Gone(p) => WorkersOf' = [WorkersOf EXCEPT ![l] = @ - 1]
    BY <1>1, CountedProcesses
<1>3. Present(queue, l) /\ queue[l].proc_status = StatusAt(wpc[p])
    BY <1>1 DEF ServiceInv, RowInv
<1>4. CASE Advances(p)
    BY <1>1, <1>2, <1>4 DEF Advances, RP!vars
<1>5. CASE Raises(p)
    <2> PICK s \in RunningStates :
            /\ StatusAt(s) = StatusAt(wpc[p]) + 1
            /\ queue' = UpdateProcStatus(queue, l, StatusAt(s))
        BY <1>5 DEF Raises
    <2>1. StatusAt(s) \in RP!ProcStatus /\ StatusAt(s) > queue[l].proc_status
        BY <1>3 DEF StatusAt, RP!ProcStatus, RP!NOT_PROCESS, RP!MIGRATION_BREAKOUT,
                    NOT_PROCESS, EXPORTING, ANALYZING, MIGRATING
    <2>2. queue' = RP!UpdateProcStatus(queue, l, StatusAt(s)) /\ RP!Present(queue, l)
        BY <1>3 DEF RP!UpdateProcStatus, UpdateProcStatus, RP!Present, Present
    <2>3. UNCHANGED <<RP!serverVars, sigchld, RP!childVars, prevent, WorkersOf>>
        BY <1>1, <1>2, <1>5 DEF Raises
    <2> QED BY <1>2, <2>1, <2>2, <2>3 DEF RP!WorkerUpdates
<1>6. CASE Ends(p)
    <2>1. UNCHANGED <<RP!serverVars, sigchld, RP!childVars, prevent>>
        BY <1>1
    <2>2. WorkersOf' = [WorkersOf EXCEPT ![l] = @ - 1]
        BY <1>2, <1>6 DEF Ends
    <2>3. \/ UNCHANGED queue
          \/ /\ RP!Present(queue, l) /\ queue[l].proc_status = RP!MIGRATING
             /\ queue' = RP!DeleteData(queue, l)
        BY <1>3, <1>6 DEF Ends, RP!Present, Present, RP!DeleteData, DeleteData, StatusAt,
              RP!MIGRATING, MIGRATING, MigratingCalls, ExportingCalls, AnalyzingCalls
    <2> QED BY <1>2, <2>1, <2>2, <2>3 DEF RP!WorkerEnds
<1> QED BY <1>1, <1>4, <1>5, <1>6

\* Every step of the service is one of Reception.
LEMMA StepRefines ==
    ASSUME ServiceInv, [Next]_vars
    PROVE  [RP!Next]_(RP!vars)
<1>1. CASE UNCHANGED vars
    BY <1>1 DEF vars, recvVars, procVars, RP!vars, RP!serverVars, RP!childVars, RP!dbVars,
                WorkersOf, ProcsOf
<1>2. CASE ReceptionStep
    BY <1>2, SameSteps DEF ReceptionStep, RP!Next
<1>3. ASSUME NEW c \in Conns, Launch(c) PROVE RP!Next
    BY <1>3, SameSteps DEF Launch, RP!Next, RP!ReceptionNext, RP!ChildStep
<1>4. ASSUME NEW p \in Procs, ProcessStep(p) PROVE [RP!Next]_(RP!vars)
    <2>1. plogin[p] \in Logins
        BY <1>4, StepKinds DEF ServiceInv
    <2> QED BY <1>4, <2>1, ProcessSteps DEF RP!Next
<1> QED BY <1>1, <1>2, <1>3, <1>4 DEF Next

-----------------------------------------------------------------------------
(* The invariant of the service.                                           *)

\* Before the first request there is no row and no process.
LEMMA ServiceInit == Init => ServiceInv
<1> SUFFICES ASSUME Init PROVE ServiceInv
    OBVIOUS
<1>1. WorkerTypeOK
    BY NoLoginAssumption DEF Init, WorkerInit, WorkerTypeOK
<1>2. RP!Init
    BY SameSteps DEF Init
<1>3. RP!ServerInv
    BY <1>2, RP!ServerInit, Constants
<1>4. RP!LaunchInv /\ RowInv
    BY <1>2 DEF Init, WorkerInit, RP!Init, RP!LaunchInv, RowInv, Running, RunningStates,
                ExportStates, ImportStates
<1> QED BY <1>1, <1>3, <1>4 DEF ServiceInv

\* No step of msgmvrcpt starts a process on a row that has been touched, and
\* none touches the row of a process.
LEMMA RowsUnderReception ==
    ASSUME ServiceInv, ReceptionStep
    PROVE  RowInv'
<1> USE DEF RowInv, RP!PassedStates
<1>0. /\ RP!TypeOK /\ RP!ReceptionNext
      /\ UNCHANGED <<wpc, plogin>> /\ Running' = Running /\ UNCHANGED WorkersOf
    BY SameSteps DEF ReceptionStep, procVars, ServiceInv, RP!ServerInv, Running, WorkersOf, ProcsOf
<1>1. CASE RP!Calm
    BY <1>0, <1>1 DEF RP!Calm, ServiceInv
<1>2. ASSUME NEW c \in Conns, RP!CountAll(c) \/ RP!CountExport(c) \/ RP!CountEas(c) PROVE RowInv'
    <2>1. ASSUME NEW from, NEW to, to # "execute", RP!Passes(c, from, to) PROVE RowInv'
        BY <1>0, <2>1 DEF RP!Passes, ServiceInv, RP!TypeOK
    <2> QED BY <1>0, <1>1, <1>2, <2>1, RP!CountSteps, Constants
<1>3. ASSUME NEW c \in Conns, RP!Insert(c) PROVE RowInv'
    <2> DEFINE l == req[c].login_id
    <2>0. l \in Logins /\ pc[c] = "insert" /\ ~Present(queue, l) /\ queue \in Table
        BY <1>0, <1>3, SameSteps, SameSets
           DEF RP!Insert, R!Request, RP!TypeOK, RP!AccessStates, RP!Present, Present
    <2>1. /\ queue'[l].proc_status = NOT_PROCESS
          /\ \A k \in Logins : k # l => queue'[k] = queue[k]
        BY <1>3, <2>0
           DEF RP!Insert, RP!InsertMigrationInformation, Table, RP!NOT_PROCESS, NOT_PROCESS
    <2>2. \A p \in Running : plogin[p] \in Logins /\ plogin[p] # l
        BY <2>0 DEF ServiceInv, Running, WorkerTypeOK, RunningStates, ExportStates, ImportStates
    <2>3. \A d \in Conns : pc'[d] = "execute" =>
             /\ d = c \/ pc[d] = "execute"
             /\ req'[d] = req[d] /\ req[d].login_id \in Logins
        BY <1>0, <1>3, SameSets
           DEF RP!Insert, RP!Goto, RP!DoReply, RP!TypeOK, RP!AccessStates, R!Request
    <2>4. \A d \in Conns : pc[d] = "execute" => queue[req[d].login_id].proc_status = NOT_PROCESS
        BY DEF ServiceInv
    <2> QED BY <1>0, <2>0, <2>1, <2>2, <2>3, <2>4 DEF ServiceInv, Present
<1>4. ASSUME NEW c \in Conns, RP!Execute(c) PROVE RowInv'
    BY <1>0, <1>4 DEF RP!Execute, RP!DoReply, RP!TypeOK, ServiceInv
<1> QED
    BY <1>0, <1>1, <1>2, <1>3, <1>4, RP!CalmSteps, Constants

\* A process is started on the untouched row of its login.
LEMMA RowsUnderLaunch ==
    ASSUME ServiceInv, NEW c \in Conns, Launch(c)
    PROVE  RowInv'
<1> DEFINE l == req[c].login_id
<1>0. RP!TypeOK /\ RP!Execute(c) /\ l \in Logins /\ pc[c] = "execute"
    BY SameSteps, SameSets DEF Launch, ServiceInv, RP!ServerInv, RP!TypeOK, R!Request
<1>1. PICK p \in Procs : Start(p, l)
    BY DEF Launch
<1>2. /\ wpc'[p] = "get_row" /\ plogin'[p] = l
      /\ \A q \in Procs \ {p} : wpc'[q] = wpc[q] /\ plogin'[q] = plogin[q]
    BY <1>1 DEF Start, Goto, ServiceInv, WorkerTypeOK
<1>3. Present(queue, l) /\ queue[l].proc_status = NOT_PROCESS /\ queue' = queue
    BY <1>0 DEF RP!Execute, ServiceInv, RP!LaunchInv, RowInv, RP!Present, Present
<1>4. \A d \in Conns : pc'[d] = "execute" => pc[d] = "execute" /\ req'[d] = req[d]
    BY <1>0 DEF RP!Execute, RP!DoReply, RP!TypeOK
<1>5. StatusAt("get_row") = NOT_PROCESS
    BY DEF StatusAt, ExportingCalls, AnalyzingCalls, MigratingCalls
<1> QED
    BY <1>2, <1>3, <1>4, <1>5 DEF RowInv, Running, ServiceInv

\* A process touches only its own row, and leaves it as its next call expects.
LEMMA RowsUnderProcess ==
    ASSUME ServiceInv, NEW p \in Procs, ProcessStep(p)
    PROVE  RowInv'
<1> DEFINE l == plogin[p]
<1>0. /\ p \in Running /\ l \in Logins /\ queue \in Table
      /\ Advances(p) \/ Raises(p) \/ Ends(p)
      /\ UNCHANGED recvVars
    BY StepKinds, SameSets DEF ServiceInv, RP!ServerInv, RP!TypeOK
<1>1. \A q \in Procs \ {p} : /\ wpc'[q] = wpc[q] /\ plogin'[q] = plogin[q]
                              /\ plogin[q] # l
    BY <1>0, OneProcess DEF Advances, Raises, Ends, Gone, ServiceInv, WorkerTypeOK
<1>2. \A c \in Conns : pc[c] = "execute" => req[c].login_id \in Logins \ {l}
    BY <1>0, OneProcess, SameSets DEF ServiceInv, RP!ServerInv, RP!TypeOK, R!Request
<1>3. \A k \in Logins \ {l} : queue'[k] = queue[k]
    BY <1>0 DEF Advances, Raises, Ends, UpdateProcStatus, DeleteData, Table
<1>4. Present(queue, l) /\ queue[l].proc_status = StatusAt(wpc[p]) /\ queue[l] \in Row
    BY <1>0 DEF ServiceInv, RowInv, Table, Present
<1>5. p \in Running' =>
         plogin'[p] = l /\ Present(queue', l) /\ queue'[l].proc_status = StatusAt(wpc'[p])
    <2>1. CASE Advances(p)
        BY <1>4, <2>1 DEF Advances, ServiceInv, WorkerTypeOK
    <2>2. CASE Raises(p)
        <3> PICK s \in RunningStates :
                /\ wpc' = [wpc EXCEPT ![p] = s]
                /\ queue' = UpdateProcStatus(queue, l, StatusAt(s))
            BY <2>2 DEF Raises
        <3>1. queue'[l] = [queue[l] EXCEPT !.proc_status = StatusAt(s)] /\ wpc'[p] = s
            BY <1>0, <1>4 DEF UpdateProcStatus, Table, ServiceInv, WorkerTypeOK
        <3>2. StatusAt(s) \in ProcStatus
            BY DEF StatusAt, ProcStatus, NOT_PROCESS, EXPORTING, ANALYZING, MIGRATING,
                   MIGRATION_BREAKOUT
        <3>3. queue'[l] \in Row /\ queue'[l].proc_status = StatusAt(s)
            BY <1>4, <3>1, <3>2 DEF Row
        <3> QED BY <2>2, <3>1, <3>3, NoRowIsNoRow DEF Present, Raises
    <2>3. CASE Ends(p)
        BY <2>3 DEF Ends, Gone, Running, RunningStates, ExportStates, ImportStates,
                    ServiceInv, WorkerTypeOK
    <2> QED BY <1>0, <2>1, <2>2, <2>3
<1>6. \A q \in Running \ {p} : plogin[q] \in Logins
    BY DEF ServiceInv, WorkerTypeOK, Running, RunningStates, ExportStates, ImportStates
<1> QED
    BY <1>0, <1>1, <1>2, <1>3, <1>5, <1>6 DEF RowInv, Running, Present, recvVars, ServiceInv

\* Every process has a login, and only a process has one.
LEMMA WorkerTypes ==
    ASSUME ServiceInv, [Next]_vars
    PROVE  WorkerTypeOK'
<1> USE DEF WorkerTypeOK, RunningStates, ExportStates, ImportStates
<1>0. WorkerTypeOK
    BY DEF ServiceInv
<1>1. CASE UNCHANGED vars \/ ReceptionStep
    BY <1>0, <1>1 DEF vars, procVars, storeVars, ReceptionStep
<1>2. ASSUME NEW c \in Conns, Launch(c) PROVE WorkerTypeOK'
    <2>1. req[c].login_id \in Logins /\ pc[c] = "execute"
        BY <1>2, SameSets DEF Launch, ServiceInv, RP!ServerInv, RP!TypeOK, R!Request
    <2>2. PICK p \in Procs : Start(p, req[c].login_id)
        BY <1>2 DEF Launch
    <2> QED BY <1>0, <2>1, <2>2, NoLoginAssumption DEF Start, Goto, storeVars
<1>3. ASSUME NEW p \in Procs, ProcessStep(p) PROVE WorkerTypeOK'
    <2> USE DEF Goto, storeVars
    <2>0. p \in Running /\ plogin[p] \in Logins
        BY <1>0, <1>3, StepKinds
    <2>1. ASSUME Gone(p), UNCHANGED storeVars PROVE WorkerTypeOK'
        BY <1>0, <2>1, NoLoginAssumption DEF Gone
    <2>2. CASE GetMigrationInformation(p) \/ Filter(p)
        BY <1>0, <2>0, <2>1, <2>2 DEF GetMigrationInformation, Filter
    <2>3. CASE NsimConfirm(p) \/ DeleteRow(p) \/ Die(p)
        BY <2>1, <2>3 DEF NsimConfirm, DeleteRow, Die
    <2>4. CASE LdapSearch(p) \/ SetZimbraId(p) \/ SetPassword(p) \/ GetInfo(p)
                  \/ ExportFails(p) \/ Logout(p)
        BY <1>0, <2>0, <2>4
           DEF LdapSearch, SetZimbraId, SetPassword, GetInfo, ExportFails, Logout
    <2>5. CASE SetExporting(p) \/ SetAnalyzing(p) \/ SetMigrating(p)
        BY <1>0, <2>0, <2>5 DEF SetExporting, SetAnalyzing, SetMigrating, SetStatus
    <2>6. CASE ModifyAccount(p) \/ RestoreAccount(p)
        BY <1>0, <2>0, <2>6 DEF ModifyAccount, RestoreAccount
    <2>7. CASE Download(p) \/ ImapLogin(p)
        BY <1>0, <2>0, <2>7 DEF Download, ImapLogin
    <2>8. CASE Append(p)
        <3> PICK m \in todo[p] :
                /\ todo' = [todo EXCEPT ![p] = @ \ {m}]
                /\ \/ nsim' = [nsim EXCEPT ![plogin[p]] = @ \cup {m}]
                   \/ UNCHANGED nsim
            BY <2>8 DEF Append
        <3>1. todo' \in [Procs -> SUBSET Mails] /\ m \in Mails
            BY <1>0
        <3>2. nsim' \in [Logins -> SUBSET Mails]
            BY <1>0, <2>0, <3>1
        <3> QED BY <1>0, <2>8, <3>1, <3>2 DEF Append
    <2> QED
        BY <1>3, <2>2, <2>3, <2>4, <2>5, <2>6, <2>7, <2>8 DEF ProcessStep, WorkerStep
<1> QED BY <1>1, <1>2, <1>3 DEF Next

\* The invariant of the service is inductive: the part of Reception is carried by
\* its own lemmas, since every step is one of Reception.
LEMMA ServiceStep ==
    ASSUME ServiceInv, [Next]_vars
    PROVE  ServiceInv'
<1>1. WorkerTypeOK'
    BY WorkerTypes
<1>2. [RP!Next]_(RP!vars)
    BY StepRefines
<1>3. RP!ServerInv'
    BY <1>2, RP!ServerStepInv, Constants DEF ServiceInv
<1>4. RP!LaunchInv'
    BY <1>2, RP!LaunchStep, Constants DEF ServiceInv, RP!ServerInv
<1>5. RowInv'
    <2>1. CASE UNCHANGED vars
        BY <2>1 DEF vars, recvVars, procVars, ServiceInv, RowInv, Running
    <2> QED
        BY <2>1, RowsUnderReception, RowsUnderLaunch, RowsUnderProcess DEF Next
<1> QED BY <1>1, <1>3, <1>4, <1>5 DEF ServiceInv

\* The invariant of the service holds in every state that it reaches.
LEMMA Invariance == Spec => []ServiceInv
<1>1. ServiceInv /\ [Next]_vars => ServiceInv'
    BY ServiceStep
<1> QED BY ServiceInit, <1>1, PTL DEF Spec

-----------------------------------------------------------------------------
(* What the service guarantees.                                            *)

\* Reception's view of msgmv is right: with the processes counted by WorkersOf,
\* every behaviour of the service is a behaviour of Reception.
THEOREM ServiceRefinesReception == Spec => ImplementsReception
<1>1. Init => R!Init
    BY DEF Init
<1>2. ServiceInv /\ [Next]_vars => [R!Next]_(R!vars)
    BY StepRefines, SameSteps
<1> QED BY Invariance, <1>1, <1>2, PTL DEF Spec, ImplementsReception, R!Spec

\* PROC_STATUS goes through 0, 1, 2, 3 without a gap and without going back, for
\* any number of requests and processes, whatever fails on the way.
THEOREM StatusesStepwise == Spec => StatusStepwise
<1> DEFINE P == \A l \in Logins :
                   Present(queue, l) /\ Present(queue', l) /\ queue'[l] # queue[l]
                      => /\ queue'[l].proc_status = queue[l].proc_status + 1
                         /\ queue'[l].proc_status # MIGRATION_BREAKOUT
<1>1. ASSUME ServiceInv, [Next]_vars PROVE [P]_vars
    <2>0. queue \in Table
        BY <1>1, SameSets DEF ServiceInv, RP!ServerInv, RP!TypeOK
    <2>1. CASE ReceptionStep
        <3>1. RP!ReceptionNext /\ RP!TypeOK
            BY <1>1, <2>1, SameSteps DEF ReceptionStep, ServiceInv, RP!ServerInv
        <3>2. ASSUME NEW c \in Conns, RP!Insert(c) PROVE P
            BY <2>0, <3>2 DEF RP!Insert, RP!InsertMigrationInformation, Table, RP!Present, Present
        <3>3. CASE UNCHANGED queue
            BY <3>3
        <3>4. ASSUME NEW c \in Conns,
                     RP!CountAll(c) \/ RP!CountExport(c) \/ RP!CountEas(c) \/ RP!Execute(c)
              PROVE  UNCHANGED queue
            BY <3>4 DEF RP!CountAll, RP!CountExport, RP!CountEas, RP!CheckCount, RP!Execute,
                        RP!dbVars
        <3>5. CASE RP!Calm
            BY <3>3, <3>5 DEF RP!Calm
        <3> QED BY <3>1, <3>2, <3>3, <3>4, <3>5, RP!CalmSteps, Constants
    <2>2. ASSUME NEW c \in Conns, Launch(c) PROVE P
        BY <2>2 DEF Launch, R!Execute
    <2>3. ASSUME NEW p \in Procs, ProcessStep(p) PROVE P
        <3>1. /\ p \in Running /\ plogin[p] \in Logins
              /\ Advances(p) \/ Raises(p) \/ Ends(p)
            BY <1>1, <2>3, StepKinds DEF ServiceInv
        <3>2. CASE Advances(p)
            BY <3>2 DEF Advances
        <3>3. CASE Raises(p)
            <4>1. /\ Present(queue, plogin[p])
                  /\ queue[plogin[p]].proc_status = StatusAt(wpc[p])
                  /\ queue[plogin[p]] \in Row
                BY <1>1, <2>0, <3>1 DEF ServiceInv, RowInv, Table, Present
            <4> PICK s \in RunningStates :
                    /\ StatusAt(s) = StatusAt(wpc[p]) + 1
                    /\ queue' = UpdateProcStatus(queue, plogin[p], StatusAt(s))
                BY <3>3 DEF Raises
            <4>2. /\ queue'[plogin[p]].proc_status = StatusAt(s)
                  /\ \A k \in Logins : k # plogin[p] => queue'[k] = queue[k]
                BY <2>0, <3>1, <4>1 DEF UpdateProcStatus, Table, Row
            <4>3. StatusAt(s) # MIGRATION_BREAKOUT
                BY DEF StatusAt, NOT_PROCESS, EXPORTING, ANALYZING, MIGRATING, MIGRATION_BREAKOUT
            <4> QED BY <4>1, <4>2, <4>3
        <3>4. CASE Ends(p)
            BY <2>0, <3>1, <3>4 DEF Ends, DeleteData, Present, Table
        <3> QED BY <3>1, <3>2, <3>3, <3>4
    <2> QED BY <1>1, <2>1, <2>2, <2>3 DEF Next
<1> QED BY Invariance, <1>1, PTL DEF Spec, StatusStepwise

\* A Zimbra account and an NSIM mailbox change only under a row that says so, for
\* any number of processes: none ever works on the stores of another's login.
THEOREM StoresUnderRow == Spec => StoresChangeUnderRow
<1> DEFINE P == \A l \in Logins :
                   /\ (junk'[l] /\ ~junk[l]) =>
                         Present(queue, l) /\ queue[l].proc_status = EXPORTING
                   /\ (nsim'[l] # nsim[l] \/ (junk[l] /\ ~junk'[l])) =>
                         Present(queue, l) /\ queue[l].proc_status = MIGRATING
<1>1. ASSUME ServiceInv, [Next]_vars PROVE [P]_vars
    <2>1. ASSUME UNCHANGED storeVars PROVE P
        BY <2>1 DEF storeVars
    <2>2. ASSUME NEW p \in Procs, ProcessStep(p) PROVE P
        <3>1. /\ p \in Running /\ plogin[p] \in Logins
              /\ Present(queue, plogin[p])
              /\ queue[plogin[p]].proc_status = StatusAt(wpc[p])
              /\ junk \in [Logins -> BOOLEAN] /\ nsim \in [Logins -> SUBSET Mails]
            BY <1>1, <2>2, StepKinds DEF ServiceInv, RowInv, WorkerTypeOK
        <3> USE DEF StatusAt, ExportingCalls, AnalyzingCalls, MigratingCalls, Goto
        <3>2. CASE ModifyAccount(p)
            BY <3>1, <3>2 DEF ModifyAccount
        <3>3. CASE Append(p)
            BY <3>1, <3>3 DEF Append
        <3>4. CASE RestoreAccount(p)
            BY <3>1, <3>4 DEF RestoreAccount
        <3>5. CASE ~ModifyAccount(p) /\ ~Append(p) /\ ~RestoreAccount(p)
            BY <2>1, <2>2, <3>5
               DEF ProcessStep, WorkerStep, GetMigrationInformation, LdapSearch, NsimConfirm,
                   SetZimbraId, SetExporting, SetPassword, GetInfo, Download, ExportFails,
                   SetAnalyzing, Filter, SetMigrating, SetStatus, ImapLogin, Logout, DeleteRow, Die
        <3> QED BY <3>2, <3>3, <3>4, <3>5
    <2>3. CASE ReceptionStep
        BY <2>1, <2>3 DEF ReceptionStep
    <2>4. ASSUME NEW c \in Conns, Launch(c) PROVE P
        BY <2>1, <2>4 DEF Launch, Start
    <2> QED BY <1>1, <2>2, <2>3, <2>4 DEF Next
<1> QED BY Invariance, <1>1, PTL DEF Spec, StoresChangeUnderRow

\* What is mapped one to one into a finite set is not larger.
LEMMA NoMore ==
    ASSUME NEW S, NEW T, IsFiniteSet(S), IsFiniteSet(T), NEW f \in [S -> T],
           \A x, y \in S : f[x] = f[y] => x = y
    PROVE  Cardinality(S) <= Cardinality(T)
<1>1. ~(Cardinality(T) < Cardinality(S))
    BY FS_PigeonHole
<1> QED BY <1>1, FS_CardinalityType

\* Processes that export have rows of their own among those that the second
\* count of access_db looks at.
LEMMA ExportsHaveRows ==
    ASSUME ServiceInv, RP!ExportBound
    PROVE  ExportLoadBounded
<1> DEFINE S == {p \in Procs : wpc[p] \in ExportStates}
           T == RP!ExportRows(queue)
           f == [p \in S |-> plogin[p]]
<1>1. IsFiniteSet(S) /\ IsFiniteSet(T)
    <2>1. T \subseteq Logins
        BY DEF RP!ExportRows, RP!Unprocessed, RP!Exporting, RP!AllRows
    <2> QED BY <2>1, ProcsFinite, LoginsFinite, FS_Subset
<1>2. f \in [S -> T]
    <2> SUFFICES ASSUME NEW p \in S PROVE plogin[p] \in T
        OBVIOUS
    <2>1. p \in Running /\ plogin[p] \in Logins /\ Present(queue, plogin[p])
        BY DEF ServiceInv, RowInv, Running, RunningStates, WorkerTypeOK, ExportStates
    <2>2. queue[plogin[p]].proc_status \in {NOT_PROCESS, EXPORTING}
        BY <2>1 DEF ServiceInv, RowInv, StatusAt, ExportStates, ExportingCalls, AnalyzingCalls,
                    MigratingCalls
    <2> QED
        BY <2>1, <2>2 DEF RP!ExportRows, RP!Unprocessed, RP!Exporting, RP!AllRows, RP!Present,
              Present, RP!NOT_PROCESS, NOT_PROCESS, RP!EXPORTING, EXPORTING
<1>3. \A p, q \in S : f[p] = f[q] => p = q
    <2>1. \A p \in S : p \in Procs /\ plogin[p] \in Logins
        BY DEF ServiceInv, WorkerTypeOK, ExportStates
    <2> QED BY <2>1, OneProcess DEF ServiceInv
<1>4. Cardinality(S) \in Nat /\ Cardinality(T) \in Nat
    BY <1>1, FS_CardinalityType
<1>5. Cardinality(S) <= Cardinality(T)
    <2> HIDE DEF S, T, f
    <2> QED BY <1>1, <1>2, <1>3, NoMore
<1>6. Cardinality(T) <= ExportMax + MaxConn
    BY SameSets DEF RP!ExportBound, RP!RecordCount
<1> QED BY <1>4, <1>5, <1>6, Constants DEF ExportLoadBounded

\* For any limits, requests and processes, the exports that run at one time do not
\* exceed TOOLSERV_EXPORT_MAX by more than TOOLSERV_LITSEN_COUNT: the bound on rows
\* proved of Reception, carried over by the refinement.
THEOREM ExportLoad == Spec => []ExportLoadBounded
<1>1. Spec => RP!Spec
    <2>1. Init => RP!Init
        BY SameSteps DEF Init
    <2>2. ServiceInv /\ [Next]_vars => [RP!Next]_(RP!vars)
        BY StepRefines
    <2> QED BY Invariance, <2>1, <2>2, PTL DEF Spec, RP!Spec
<1>2. RP!Spec => [](RP!TableBound /\ RP!ExportBound /\ RP!EasBound)
    BY RP!LimitsHold, Constants
<1>3. ServiceInv /\ RP!ExportBound => ExportLoadBounded
    BY ExportsHaveRows
<1> QED BY Invariance, <1>1, <1>2, <1>3, PTL
=============================================================================
