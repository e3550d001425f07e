------------------------------ MODULE Reception ------------------------------
(***************************************************************************)
(* msgmvrcpt -recept: the libevent server (zn_server) that forks a child   *)
(* for every accepted connection, and the children (zn_connection), which  *)
(* read a migration request, check the maintenance files, count and insert *)
(* in the migration table, start an msgmv process and reply.               *)
(*                                                                         *)
(* The parent's callbacks (accept, SIGCHLD, SIGINT, listener error) run    *)
(* one at a time in its event loop, so each is one action.  The children   *)
(* are separate processes: each access() and each SQL statement of theirs  *)
(* is an action of its own and interleaves with everything else.           *)
(***************************************************************************)
EXTENDS MigrationQueue

CONSTANTS
    Conns,          \* client connections, each a child process when accepted
    MaxConn,        \* TOOLSERV_LITSEN_COUNT
    TransactMax,    \* TOOLSERV_TRANSACT_MAX
    ExportMax,      \* TOOLSERV_EXPORT_MAX
    ConnectMax,     \* MBS_CONNECT_MAX
    ToolLock,       \* <TRANS_PREVENT_FILE4TOOLSERVER>.lock exists
    NoDir,          \* TRANS_PREVENT_DIR does not exist
    OpFiles,        \* bound: the maintenance files the operator touches
    MayStop,        \* bound: whether SIGINT and listener errors happen
    NoReq           \* no request is being handled

ASSUME ConnsFinite == IsFiniteSet(Conns)
ASSUME LimitsAssumption ==
    /\ MaxConn \in Nat /\ TransactMax \in Nat
    /\ ExportMax \in Nat /\ ConnectMax \in Nat
ASSUME MayStopAssumption == MayStop \in BOOLEAN
ASSUME OpFilesAssumption == OpFiles \subseteq Hosts \cup {ToolLock, NoDir}

Request == [login_id : Logins, eas_host : Hosts]

ASSUME NoReqAssumption == NoReq \notin Request

\* zn_result_code, and the ret of a request that has no result yet.
ResultCode == {"ACCEPT", "EXIST", "FORMAT_ERR", "SERV_BUSY", "EAS_BUSY",
               "SERV_MAINT", "EAS_MAINT", "DB_ERR", "SERV_ERR"}
NoResult   == "none"

VARIABLES
    \* zn_server
    listener,   \* _listener # NULL
    connCount,  \* _conn_count
    endFlag,    \* _end_flag
    loop,       \* the parent's event loop
    sigchld,    \* SIGCHLD is pending
    sigint,     \* SIGINT is pending
    \* zn_connection, one per child
    pc,         \* where the child is
    req,        \* _login_id and _eas_host while a request is handled
    ret,        \* the result of the last request handled
    closeFlag,  \* _close_flag
    readTimer,  \* the read timeout is TRANS_REQUEST_TIMER, not INT_MAX
    \* the world
    prevent,    \* the maintenance files that exist
    barred,     \* history: files present since the request was read
    queue,      \* the migration table
    workers     \* msgmv processes of a login that still work on its row

serverVars == <<listener, connCount, endFlag, loop, sigint>>
childVars  == <<pc, req, ret, closeFlag, readTimer, barred>>
dbVars     == <<queue, workers>>
vars       == <<serverVars, sigchld, childVars, prevent, dbVars>>

\* Where a child is: in its event loop or inside on_read, before the named call.
CheckStates  == {"prevent_dir", "prevent_tool", "prevent_eas"}
AccessStates == {"count_all", "count_export", "count_eas", "insert"}
LiveStates   == {"loop", "execute"} \cup CheckStates \cup AccessStates
\* No session; in the listen backlog; a child; a child exited and not reaped.
ConnStates   == {"none", "backlog", "zombie"} \cup LiveStates

Live     == {c \in Conns : pc[c] \in LiveStates}
Zombies  == {c \in Conns : pc[c] = "zombie"}
Children == Live \cup Zombies

TypeOK ==
    /\ listener \in BOOLEAN /\ endFlag \in BOOLEAN
    /\ sigchld \in BOOLEAN /\ sigint \in BOOLEAN
    /\ connCount \in Nat
    /\ loop \in {"running", "drained", "failed", "done"}
    /\ pc \in [Conns -> ConnStates]
    /\ req \in [Conns -> Request \cup {NoReq}]
    /\ \A c \in Conns :
          pc[c] \in CheckStates \cup AccessStates \cup {"execute"}
             => req[c] \in Request
    /\ ret \in [Conns -> ResultCode \cup {NoResult}]
    /\ closeFlag \in [Conns -> BOOLEAN] /\ readTimer \in [Conns -> BOOLEAN]
    /\ prevent \subseteq Hosts \cup {ToolLock, NoDir}
    /\ barred \in [Conns -> SUBSET (Hosts \cup {ToolLock, NoDir})]
    /\ queue \in Table
    /\ workers \in [Logins -> Nat]

Init ==
    /\ listener = TRUE /\ connCount = 0 /\ endFlag = FALSE /\ loop = "running"
    /\ sigchld = FALSE /\ sigint = FALSE
    /\ pc = [c \in Conns |-> "none"]
    /\ req = [c \in Conns |-> NoReq]
    /\ ret = [c \in Conns |-> NoResult]
    /\ closeFlag = [c \in Conns |-> FALSE]
    /\ readTimer = [c \in Conns |-> FALSE]
    /\ prevent = {}
    /\ barred = [c \in Conns |-> {}]
    /\ queue = EmptyTable
    /\ workers = [l \in Logins |-> 0]

-----------------------------------------------------------------------------
(* zn_server: the parent process                                           *)

\* A client connects; the kernel queues it for the listener.
Connect(c) ==
    /\ listener /\ pc[c] = "none"
    /\ pc' = [pc EXCEPT ![c] = "backlog"]
    /\ UNCHANGED <<serverVars, sigchld, req, ret, closeFlag, readTimer, barred,
                   prevent, dbVars>>

\* Mutant: the child is counted before fork() is known to have succeeded.
RefuseCounted(c) ==
    /\ loop # "done" /\ listener /\ pc[c] = "backlog"
    /\ connCount < MaxConn
    /\ connCount' = connCount + 1
    /\ pc' = [pc EXCEPT ![c] = "none"]
    /\ UNCHANGED <<listener, endFlag, loop, sigint, sigchld, req, ret, closeFlag,
                   readTimer, barred, prevent, dbVars>>

\* on_accept closes the socket: connCount >= MaxConn, or fork() fails, which it
\* may at any count.
Refuse(c) ==
    /\ loop # "done" /\ listener /\ pc[c] = "backlog"
    /\ pc' = [pc EXCEPT ![c] = "none"]
    /\ UNCHANGED <<serverVars, sigchld, req, ret, closeFlag, readTimer, barred,
                   prevent, dbVars>>

\* on_accept forks: the parent counts the child, the child runs start().
Accept(c) ==
    /\ loop # "done" /\ listener /\ pc[c] = "backlog"
    /\ connCount < MaxConn
    /\ connCount' = connCount + 1
    /\ pc' = [pc EXCEPT ![c] = "loop"]
    /\ ret' = [ret EXCEPT ![c] = NoResult]
    /\ closeFlag' = [closeFlag EXCEPT ![c] = FALSE]
    /\ readTimer' = [readTimer EXCEPT ![c] = TRUE]
    /\ UNCHANGED <<listener, endFlag, loop, sigint, sigchld, req, barred,
                   prevent, dbVars>>

\* Mutant: one waitpid() per signal.
SigchldReapsOne ==
    /\ loop # "done" /\ sigchld
    /\ sigchld' = FALSE
    /\ \E c \in Zombies : pc' = [pc EXCEPT ![c] = "none"]
    /\ connCount' = connCount - 1
    /\ loop' = IF endFlag /\ connCount' = 0 THEN "drained" ELSE loop
    /\ UNCHANGED <<listener, endFlag, sigint, req, ret, closeFlag, readTimer,
                   barred, prevent, dbVars>>

\* sigchld_handler: reap every child that has exited, count them down.
SigchldHandler ==
    /\ loop # "done" /\ sigchld
    /\ sigchld' = FALSE
    /\ pc' = [c \in Conns |-> IF pc[c] = "zombie" THEN "none" ELSE pc[c]]
    /\ connCount' = connCount - Cardinality(Zombies)
    /\ loop' = IF endFlag /\ connCount' = 0 THEN "drained" ELSE loop
    /\ UNCHANGED <<listener, endFlag, sigint, req, ret, closeFlag, readTimer,
                   barred, prevent, dbVars>>

\* The operator sends SIGINT.
Sigint ==
    /\ MayStop
    /\ loop # "done" /\ ~sigint
    /\ sigint' = TRUE
    /\ UNCHANGED <<listener, connCount, endFlag, loop, sigchld, childVars,
                   prevent, dbVars>>

\* Mutant: the loop is left without looking at the children.
StopAtOnce ==
    /\ loop # "done" /\ sigint
    /\ sigint' = FALSE
    /\ listener' = FALSE
    /\ pc' = [c \in Conns |-> IF pc[c] = "backlog" THEN "none" ELSE pc[c]]
    /\ loop' = "drained"
    /\ endFlag' = TRUE
    /\ UNCHANGED <<connCount, sigchld, req, ret, closeFlag, readTimer, barred,
                   prevent, dbVars>>

\* Mutant: _end_flag is only set when the loop is left at once.
StopForgetsEndFlag ==
    /\ loop # "done" /\ sigint
    /\ sigint' = FALSE
    /\ listener' = FALSE
    /\ pc' = [c \in Conns |-> IF pc[c] = "backlog" THEN "none" ELSE pc[c]]
    /\ loop' = IF connCount = 0 THEN "drained" ELSE loop
    /\ endFlag' = (endFlag \/ connCount = 0)
    /\ UNCHANGED <<connCount, sigchld, req, ret, closeFlag, readTimer, barred,
                   prevent, dbVars>>

\* stop(): close the listener, leave the loop at once if no child is left.
Stop ==
    /\ loop # "done" /\ sigint
    /\ sigint' = FALSE
    /\ listener' = FALSE
    /\ pc' = [c \in Conns |-> IF pc[c] = "backlog" THEN "none" ELSE pc[c]]
    /\ loop' = IF connCount = 0 THEN "drained" ELSE loop
    /\ endFlag' = TRUE
    /\ UNCHANGED <<connCount, sigchld, req, ret, closeFlag, readTimer, barred,
                   prevent, dbVars>>

\* error_cb: accept() failed, leave the loop whatever the children do.
ListenerError ==
    /\ MayStop
    /\ loop = "running" /\ listener
    /\ loop' = "failed"
    /\ UNCHANGED <<listener, connCount, endFlag, sigint, sigchld, childVars,
                   prevent, dbVars>>

\* event_base_dispatch returns; ~zn_server frees the listener.
LoopReturns ==
    /\ loop \in {"drained", "failed"}
    /\ loop' = "done"
    /\ listener' = FALSE
    /\ pc' = [c \in Conns |-> IF pc[c] = "backlog" THEN "none" ELSE pc[c]]
    /\ UNCHANGED <<connCount, endFlag, sigint, sigchld, req, ret, closeFlag,
                   readTimer, barred, prevent, dbVars>>

-----------------------------------------------------------------------------
(* zn_connection: a child process                                          *)

Goto(c, s) ==
    /\ pc' = [pc EXCEPT ![c] = s]
    /\ UNCHANGED <<serverVars, sigchld, req, ret, closeFlag, readTimer, barred,
                   prevent>>

\* do_reply: queue the response, remember to close once it is written.
DoReply(c, code) ==
    /\ pc' = [pc EXCEPT ![c] = "loop"]
    /\ req' = [req EXCEPT ![c] = NoReq]
    /\ ret' = [ret EXCEPT ![c] = code]
    /\ closeFlag' = [closeFlag EXCEPT ![c] = TRUE]
    /\ barred' = [barred EXCEPT ![c] = {}]
    /\ UNCHANGED <<serverVars, sigchld, readTimer, prevent>>

\* The bufferevent is freed, no event is left, the child's loop returns and the
\* process exits: a zombie whose parent gets SIGCHLD.
ChildExit(c) ==
    /\ pc' = [pc EXCEPT ![c] = "zombie"]
    /\ req' = [req EXCEPT ![c] = NoReq]
    /\ ret' = [ret EXCEPT ![c] = NoResult]
    /\ closeFlag' = [closeFlag EXCEPT ![c] = FALSE]
    /\ readTimer' = [readTimer EXCEPT ![c] = FALSE]
    /\ barred' = [barred EXCEPT ![c] = {}]
    /\ sigchld' = TRUE
    /\ UNCHANGED <<serverVars, prevent, dbVars>>

\* on_read with part of a line: only the read timeout changes.
OnReadPartial(c) ==
    /\ pc[c] = "loop"
    /\ readTimer' = [readTimer EXCEPT ![c] = FALSE]
    /\ UNCHANGED <<serverVars, sigchld, pc, req, ret, closeFlag, barred,
                   prevent, dbVars>>

\* on_read with a line check_request rejects.  A further line may arrive before
\* the response to an earlier one is written.
OnReadBad(c) ==
    /\ pc[c] = "loop"
    /\ readTimer' = [readTimer EXCEPT ![c] = FALSE]
    /\ ret' = [ret EXCEPT ![c] = "FORMAT_ERR"]
    /\ closeFlag' = [closeFlag EXCEPT ![c] = TRUE]
    /\ UNCHANGED <<serverVars, sigchld, pc, req, barred, prevent, dbVars>>

\* on_read with a line check_request takes.
OnReadRequest(c) ==
    /\ pc[c] = "loop"
    /\ readTimer' = [readTimer EXCEPT ![c] = FALSE]
    /\ ret' = [ret EXCEPT ![c] = NoResult]
    /\ \E r \in Request : req' = [req EXCEPT ![c] = r]
    /\ pc' = [pc EXCEPT ![c] = "prevent_dir"]
    /\ barred' = [barred EXCEPT ![c] = prevent]
    /\ UNCHANGED <<serverVars, sigchld, closeFlag, prevent, dbVars>>

\* check_prevent_file: three access() calls.
CheckFile(c, from, file, code, next) ==
    /\ pc[c] = from
    /\ \/ file \in prevent /\ DoReply(c, code)
       \/ file \notin prevent /\ Goto(c, next)
    /\ UNCHANGED dbVars

\* Mutant: the file of the EAS mailbox is looked for under the server's name.
CheckPreventEasWrongFile(c) == CheckFile(c, "prevent_eas", ToolLock, "EAS_MAINT", "count_all")

CheckPreventDir(c)  == CheckFile(c, "prevent_dir", NoDir, "SERV_ERR", "prevent_tool")
CheckPreventTool(c) == CheckFile(c, "prevent_tool", ToolLock, "SERV_MAINT", "prevent_eas")
CheckPreventEas(c)  == CheckFile(c, "prevent_eas", req[c].eas_host, "EAS_MAINT", "count_all")

\* access_db: a SELECT COUNT(*) compared with its limit.
CheckCount(c, from, rows, max, code, next) ==
    /\ pc[c] = from
    /\ \/ RecordCount(rows) > max /\ DoReply(c, code)
       \/ RecordCount(rows) <= max /\ Goto(c, next)
    /\ UNCHANGED dbVars

\* Mutants: limits that are one too large.
CountAllOffByOne(c) ==
    CheckCount(c, "count_all", AllRows(queue), TransactMax + 1, "SERV_BUSY", "count_export")
CountExportOffByOne(c) ==
    CheckCount(c, "count_export", ExportRows(queue), ExportMax + 1, "SERV_BUSY", "count_eas")
CountAll(c) ==
    CheckCount(c, "count_all", AllRows(queue), TransactMax, "SERV_BUSY", "count_export")
CountExport(c) ==
    CheckCount(c, "count_export", ExportRows(queue), ExportMax, "SERV_BUSY", "count_eas")
CountEas(c) ==
    CheckCount(c, "count_eas", EasRows(queue, req[c].eas_host), ConnectMax, "EAS_BUSY", "insert")

\* access_db: a connect or a statement fails and has had no effect.
DbError(c) ==
    /\ pc[c] \in AccessStates
    /\ DoReply(c, "DB_ERR")
    /\ UNCHANGED dbVars

\* Mutant: ER_DUP_ENTRY is not told from success.
InsertIgnoresDuplicate(c) ==
    /\ pc[c] = "insert" /\ Present(queue, req[c].login_id)
    /\ Goto(c, "execute")
    /\ UNCHANGED dbVars

\* access_db: the INSERT finds the key taken.
InsertDuplicate(c) ==
    /\ pc[c] = "insert" /\ Present(queue, req[c].login_id)
    /\ DoReply(c, "EXIST")
    /\ UNCHANGED dbVars

\* access_db: the INSERT succeeds, or it does but its answer is lost (timeout).
Insert(c) ==
    /\ pc[c] = "insert" /\ ~Present(queue, req[c].login_id)
    /\ queue' = InsertMigrationInformation(queue, req[c].login_id, req[c].eas_host)
    /\ Goto(c, "execute") \/ DoReply(c, "DB_ERR")
    /\ UNCHANGED workers

\* execute: the first fork() fails.
ExecuteForkFails(c) ==
    /\ pc[c] = "execute"
    /\ DoReply(c, "SERV_ERR")
    /\ UNCHANGED dbVars

\* execute: the second fork() or execlp() fails in the descendants; wait(NULL)
\* drops the exit status, so the request is accepted all the same.
ExecuteLost(c) ==
    /\ pc[c] = "execute"
    /\ DoReply(c, "ACCEPT")
    /\ UNCHANGED dbVars

\* execute: msgmv is running.
Execute(c) ==
    /\ pc[c] = "execute"
    /\ workers' = [workers EXCEPT ![req[c].login_id] = @ + 1]
    /\ DoReply(c, "ACCEPT")
    /\ UNCHANGED queue

\* on_write once the response is drained: end(0).
OnWrite(c) ==
    /\ pc[c] = "loop" /\ closeFlag[c]
    /\ ChildExit(c)

\* event_cb with BEV_EVENT_TIMEOUT: the client sent nothing in time.
RequestTimeout(c) ==
    /\ pc[c] = "loop" /\ readTimer[c]
    /\ ChildExit(c)

\* event_cb with BEV_EVENT_EOF or BEV_EVENT_ERROR; a queued response is dropped.
ClientCloses(c) ==
    /\ pc[c] = "loop"
    /\ ChildExit(c)

\* The child dies inside a handler: a signal to the process group, or an
\* exception (an unreadable DB_PASSWORD_XML) that ends main().
ChildDies(c) ==
    /\ pc[c] \in LiveStates \ {"loop"}
    /\ ChildExit(c)

-----------------------------------------------------------------------------
(* The world                                                               *)

\* The operator creates or removes a maintenance file.
Maintenance(f) ==
    /\ \/ f \notin prevent /\ prevent' = prevent \cup {f} /\ UNCHANGED barred
       \/ /\ f \in prevent
          /\ prevent' = prevent \ {f}
          /\ barred' = [c \in Conns |-> barred[c] \ {f}]
    /\ UNCHANGED <<serverVars, sigchld, pc, req, ret, closeFlag, readTimer, dbVars>>

\* msgmv, as the receptionist sees it: it raises the status of its row ...
WorkerUpdates(l) ==
    /\ workers[l] > 0 /\ Present(queue, l)
    /\ \E s \in ProcStatus :
          /\ s > queue[l].proc_status
          /\ queue' = UpdateProcStatus(queue, l, s)
    /\ UNCHANGED <<serverVars, sigchld, childVars, prevent, workers>>

\* ... and is done with it, having deleted it or not.
WorkerEnds(l) ==
    /\ workers[l] > 0
    /\ workers' = [workers EXCEPT ![l] = @ - 1]
    /\ \/ UNCHANGED queue
       \/ /\ Present(queue, l) /\ queue[l].proc_status = MIGRATING
          /\ queue' = DeleteData(queue, l)
    /\ UNCHANGED <<serverVars, sigchld, childVars, prevent>>

-----------------------------------------------------------------------------
ServerStep ==
    \/ SigchldHandler \/ Stop \/ LoopReturns
    \/ \E c \in Conns : Refuse(c) \/ Accept(c)

\* What a child does by itself once it holds a request.
ChildStep(c) ==
    \/ CheckPreventDir(c) \/ CheckPreventTool(c) \/ CheckPreventEas(c)
    \/ CountAll(c) \/ CountExport(c) \/ CountEas(c) \/ DbError(c)
    \/ InsertDuplicate(c) \/ Insert(c)
    \/ ExecuteForkFails(c) \/ ExecuteLost(c) \/ Execute(c)
    \/ OnWrite(c)

\* What the client makes happen, or withholds.
ClientStep(c) ==
    \/ Connect(c)
    \/ OnReadPartial(c) \/ OnReadBad(c) \/ OnReadRequest(c)
    \/ ClientCloses(c)

ReceptionNext ==
    \/ ServerStep
    \/ Sigint \/ ListenerError
    \/ \E c \in Conns : ChildStep(c) \/ RequestTimeout(c) \/ ChildDies(c) \/ ClientStep(c)
    \/ \E f \in OpFiles : Maintenance(f)

Next == ReceptionNext \/ \E l \in Logins : WorkerUpdates(l) \/ WorkerEnds(l)

Spec == Init /\ [][Next]_vars

-----------------------------------------------------------------------------
(* Safety                                                                  *)

\* _conn_count is the number of children forked and not yet reaped, so the
\* comparison in on_accept bounds the processes that really exist: every path
\* by which a child ends is counted down exactly once.
ConnCountExact == connCount = Cardinality(Children)

\* One SIGCHLD may stand for several exits: a child that exits between two runs
\* of sigchld_handler is never left unreaped without a signal pending for it.
NoForgottenChild == Zombies # {} => sigchld

\* stop() and sigchld_handler leave the event loop only when no child is
\* running or unreaped: a clean stop abandons no session.
CleanStop == loop = "drained" => Children = {}

\* Counting and inserting are separate statements of concurrent children, and
\* the comparison is ">": access_db lets the table grow past its limit, but by
\* no more than one row per child that may exist.
TableBound == RecordCount(AllRows(queue)) <= TransactMax + MaxConn

\* The same for the rows waiting for or in export and TOOLSERV_EXPORT_MAX.
ExportBound == RecordCount(ExportRows(queue)) <= ExportMax + MaxConn

\* The rows of one EAS mailbox host that wait for or are in export.
HostRows(q, h) == {l \in ExportRows(q) : q[l].eas_host = h}

\* The same for one host and MBS_CONNECT_MAX, although the condition of the
\* third count mentions other hosts' rows.
EasBound == \A h \in Hosts : RecordCount(HostRows(queue, h)) <= ConnectMax + MaxConn

\* The children about to run execute() for login l.
Launching(l) == {c \in Conns : pc[c] = "execute" /\ req[c].login_id = l}

\* At most one msgmv process works on the row of a login, however many requests
\* for it are handled at once: only the child whose INSERT took the key starts
\* one, and the key stays taken until that msgmv is done.
OneWorkerPerLogin == \A l \in Logins : workers[l] + Cardinality(Launching(l)) <= 1

\* A request read while a maintenance file was in place is never counted,
\* inserted or executed unless the file has been removed since.
MaintenanceHonoured ==
    \A c \in Conns :
        pc[c] \in AccessStates \cup {"execute"}
            => barred[c] \cap {NoDir, ToolLock, req[c].eas_host} = {}

\* A row that is not in process, with no msgmv for it and no child about to start one.
Abandoned(l) == l \in Unprocessed(queue) /\ workers[l] = 0 /\ Launching(l) = {}

\* A row whose msgmv was never started, because fork or execlp failed or the child
\* died after its INSERT, stays that way: nothing reads the table back, and every
\* later request for the login meets its key.
AbandonedRowStays == [][\A l \in Logins : Abandoned(l) => Abandoned(l)']_vars

-----------------------------------------------------------------------------
(* Liveness                                                                *)

\* The parent's loop runs its callbacks, children are scheduled and their
\* database statements time out, and a read timer that stays set fires.
\* A writable socket is served in the pass of the child's loop that also serves
\* its input, so further input cannot starve on_write for ever.
FairSpec ==
    /\ Spec
    /\ WF_vars(SigchldHandler) /\ WF_vars(Stop) /\ WF_vars(LoopReturns)
    /\ \A c \in Conns :
          /\ WF_vars(ChildStep(c))
          /\ SF_vars(OnWrite(c))
          /\ WF_vars(RequestTimeout(c))

\* Clients that do not keep an idle connection open for ever.
PoliteSpec == FairSpec /\ \A c \in Conns : WF_vars(ClientCloses(c))

\* After SIGINT the server leaves its loop, once its children are through,
\* whatever SIGCHLDs were merged or came before the SIGINT.
ServerStops == sigint ~> (loop = "done")
=============================================================================
