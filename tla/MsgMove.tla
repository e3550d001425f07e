------------------------------- MODULE MsgMove -------------------------------
(***************************************************************************)
(* The whole service: msgmvrcpt (Reception) starting msgmv processes       *)
(* (Worker), the two sharing the migration table and nothing else.         *)
(* Reception's own variable workers is the number of processes of a login  *)
(* that still run.                                                         *)
(***************************************************************************)
EXTENDS Worker

CONSTANTS Conns, MaxConn, TransactMax, ExportMax, ConnectMax,
          ToolLock, NoDir, OpFiles, MayStop, NoReq

VARIABLES listener, connCount, endFlag, loop, sigchld, sigint,
          pc, req, ret, closeFlag, readTimer, prevent, barred

\* The processes that run for login l.
ProcsOf(l) == {p \in Procs : plogin[p] = l}

WorkersOf == [l \in Logins |-> Cardinality(ProcsOf(l))]

R == INSTANCE Reception WITH workers <- WorkersOf

ASSUME ReceptionConstants ==
    /\ IsFiniteSet(Conns)
    /\ MaxConn \in Nat /\ TransactMax \in Nat
    /\ ExportMax \in Nat /\ ConnectMax \in Nat
    /\ MayStop \in BOOLEAN
    /\ OpFiles \subseteq Hosts \cup {ToolLock, NoDir}
    /\ NoReq \notin R!Request

recvVars == <<listener, connCount, endFlag, loop, sigchld, sigint,
              pc, req, ret, closeFlag, readTimer, prevent, barred>>
vars     == <<recvVars, queue, procVars, storeVars>>

TypeOK == R!TypeOK /\ WorkerTypeOK

Init == WorkerInit /\ R!Init

\* A child's execute() succeeds: the process it starts is a free one.
Launch(c) ==
    \E p \in Procs :
        /\ pc[c] = "execute"
        /\ Start(p, req[c].login_id)
        /\ R!Execute(c)

\* Everything else msgmvrcpt does leaves the processes alone.
ReceptionStep ==
    /\ UNCHANGED <<procVars, storeVars>>
    /\ R!ReceptionNext

\* And nothing a process does reaches msgmvrcpt but through the table.
ProcessStep(p) == (WorkerStep(p) \/ Die(p)) /\ UNCHANGED recvVars

Next ==
    \/ ReceptionStep
    \/ \E c \in Conns : Launch(c)
    \/ \E p \in Procs : ProcessStep(p)

Spec == Init /\ [][Next]_vars

-----------------------------------------------------------------------------
(* Reception's assumption on msgmv is met: every behaviour of the service  *)
(* is one of Reception, with its processes counted by WorkersOf.           *)
ImplementsReception == R!Spec

\* A PROC_STATUS only ever moves to the next one while its row exists, and
\* MIGRATION_BREAKOUT is not reached: processes of one login never overlap on
\* its row, and a failed export still passes through ANALYZING.
StatusStepwise ==
    [][\A l \in Logins :
          Present(queue, l) /\ Present(queue', l) /\ queue'[l] # queue[l]
             => /\ queue'[l].proc_status = queue[l].proc_status + 1
                /\ queue'[l].proc_status # MIGRATION_BREAKOUT]_vars

\* The Zimbra account and the NSIM mailbox of a login are changed only while
\* its row says so: an EXPORTING row for the account, a MIGRATING one for the
\* mails and for setting the account back.
StoresChangeUnderRow ==
    [][\A l \in Logins :
          /\ (junk'[l] /\ ~junk[l]) =>
                Present(queue, l) /\ queue[l].proc_status = EXPORTING
          /\ (nsim'[l] # nsim[l] \/ (junk[l] /\ ~junk'[l])) =>
                Present(queue, l) /\ queue[l].proc_status = MIGRATING]_vars

\* The exports that really load the mailbox servers stay within the limit of
\* access_db and its overshoot: a process that may export has a row counted.
ExportLoadBounded ==
    Cardinality({p \in Procs : wpc[p] \in ExportStates}) <= ExportMax + MaxConn

\* The row of a login is deleted only when NSIM holds all its mails.
DeletedOnlyWhenMoved ==
    [][\A l \in Logins :
          Present(queue, l) /\ ~Present(queue', l) => nsim[l] = Mails]_vars
=============================================================================
