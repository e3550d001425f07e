-------------------------------- MODULE Worker --------------------------------
(***************************************************************************)
(* msgmv (md_msgmove, zn_main.cpp): the process that migrates the mail of  *)
(* one login from the Zimbra server to NSIM.  It walks through main() from *)
(* top to bottom; every UPDATE, SOAP request, download and IMAP exchange   *)
(* is an action, so the table and the two mail stores change one step at a *)
(* time and the process may die between any two of them.                   *)
(***************************************************************************)
EXTENDS MigrationQueue

CONSTANTS
    Procs,      \* msgmv processes
    Mails,      \* the mails of a mailbox that pass the filters
    NoLogin     \* the login of a process that does not run

ASSUME ProcsFinite == IsFiniteSet(Procs)
ASSUME NoLoginAssumption == NoLogin \notin Logins

VARIABLES
    queue,      \* the migration table
    wpc,        \* the call of main() a process is about to make
    plogin,     \* LOGIN_ID of a process, argv[2]
    exported,   \* folder and mailbox are not NULL
    todo,       \* the mails the append loop has not reached
    junk,       \* the account exports spam: change_password(..., true)
    nsim        \* the mails NSIM has stored

procVars  == <<wpc, plogin, exported, todo>>
storeVars == <<junk, nsim>>

\* The calls made while the row is NOT_PROCESS or EXPORTING ...
ExportStates  == {"ldap", "nsim_confirm", "set_zimbra_id", "set_exporting",
                  "modify_account", "set_password", "get_info", "download",
                  "set_analyzing"}
\* ... and afterwards.
ImportStates  == {"filter", "set_migrating", "imap_login", "append",
                  "restore_account", "delete_data"}
RunningStates == {"get_row"} \cup ExportStates \cup ImportStates

Running == {p \in Procs : wpc[p] \in RunningStates}

WorkerTypeOK ==
    /\ wpc \in [Procs -> RunningStates \cup {"off"}]
    /\ plogin \in [Procs -> Logins \cup {NoLogin}]
    /\ \A p \in Procs : wpc[p] = "off" <=> plogin[p] = NoLogin
    /\ exported \in [Procs -> BOOLEAN]
    /\ todo \in [Procs -> SUBSET Mails]
    /\ junk \in [Logins -> BOOLEAN]
    /\ nsim \in [Logins -> SUBSET Mails]

WorkerInit ==
    /\ wpc = [p \in Procs |-> "off"]
    /\ plogin = [p \in Procs |-> NoLogin]
    /\ exported = [p \in Procs |-> FALSE]
    /\ todo = [p \in Procs |-> {}]
    /\ junk = [l \in Logins |-> FALSE]
    /\ nsim = [l \in Logins |-> {}]

-----------------------------------------------------------------------------
Goto(p, from, to) ==
    /\ wpc[p] = from
    /\ wpc' = [wpc EXCEPT ![p] = to]

\* The process is gone.
Gone(p) ==
    /\ wpc' = [wpc EXCEPT ![p] = "off"]
    /\ plogin' = [plogin EXCEPT ![p] = NoLogin]
    /\ exported' = [exported EXCEPT ![p] = FALSE]
    /\ todo' = [todo EXCEPT ![p] = {}]

\* execlp() of msgmv for login l.
Start(p, l) ==
    /\ Goto(p, "off", "get_row")
    /\ plogin' = [plogin EXCEPT ![p] = l]
    /\ UNCHANGED <<exported, todo, storeVars>>

\* get_migration_information: main() goes on only with a NOT_PROCESS row.
GetMigrationInformation(p) ==
    /\ wpc[p] = "get_row"
    /\ IF plogin[p] \in Unprocessed(queue)
       THEN Goto(p, "get_row", "ldap") /\ UNCHANGED <<plogin, exported, todo>>
       ELSE Gone(p)
    /\ UNCHANGED <<queue, storeVars>>

\* The LDAP search finds the account, or finds none and NSIM is asked.
LdapSearch(p) ==
    /\ Goto(p, "ldap", "set_zimbra_id") \/ Goto(p, "ldap", "nsim_confirm")
    /\ UNCHANGED <<plogin, exported, todo, queue, storeVars>>

\* nsim_login returns or throws; _check_response never does, so neither NO nor
\* BAD is seen.  Then ldap_values[0] reads an empty vector: the process is gone
\* on every path.
NsimConfirm(p) ==
    /\ wpc[p] = "nsim_confirm"
    /\ Gone(p)
    /\ UNCHANGED <<queue, storeVars>>

\* Mutant: the row is not marked EXPORTING before the account is changed.
SetZimbraIdOnly(p) ==
    /\ Goto(p, "set_zimbra_id", "modify_account")
    /\ UNCHANGED <<plogin, exported, todo, queue, storeVars>>

\* update_zimbra_id writes a column nothing reads.
SetZimbraId(p) ==
    /\ Goto(p, "set_zimbra_id", "set_exporting")
    /\ UNCHANGED <<plogin, exported, todo, queue, storeVars>>

SetStatus(p, from, s, to) ==
    /\ Goto(p, from, to)
    /\ queue' = UpdateProcStatus(queue, plogin[p], s)
    /\ UNCHANGED <<plogin, exported, todo, storeVars>>

SetExporting(p) == SetStatus(p, "set_exporting", EXPORTING, "modify_account")
SetAnalyzing(p) == SetStatus(p, "set_analyzing", ANALYZING, "filter")
SetMigrating(p) == SetStatus(p, "set_migrating", MIGRATING, "imap_login")

\* change_password(user_password, true), first request.
ModifyAccount(p) ==
    /\ Goto(p, "modify_account", "set_password")
    /\ junk' = [junk EXCEPT ![plogin[p]] = TRUE]
    /\ UNCHANGED <<plogin, exported, todo, queue, nsim>>

\* change_password, second request; get_info; neither changes what is modelled.
SetPassword(p) ==
    /\ Goto(p, "set_password", "get_info")
    /\ UNCHANGED <<plogin, exported, todo, queue, storeVars>>

GetInfo(p) ==
    /\ Goto(p, "get_info", "download")
    /\ UNCHANGED <<plogin, exported, todo, queue, storeVars>>

\* The archive is downloaded and unpacked into the mailbox.
Download(p) ==
    /\ Goto(p, "download", "set_analyzing")
    /\ exported' = [exported EXCEPT ![p] = TRUE]
    /\ UNCHANGED <<plogin, todo, queue, storeVars>>

\* Mutant: a failed export skips the analysis.
ExportFailsSkips(p) ==
    /\ wpc[p] \in {"modify_account", "set_password", "get_info", "download"}
    /\ wpc' = [wpc EXCEPT ![p] = "set_migrating"]
    /\ UNCHANGED <<plogin, exported, todo, queue, storeVars>>

\* A zn_exception of the export block is logged and main() goes on.
ExportFails(p) ==
    /\ wpc[p] \in {"modify_account", "set_password", "get_info", "download"}
    /\ wpc' = [wpc EXCEPT ![p] = "set_analyzing"]
    /\ UNCHANGED <<plogin, exported, todo, queue, storeVars>>

\* The folder and mailbox filters, on what the export left; folder-> or
\* mailbox-> of a NULL pointer kills the process.
Filter(p) ==
    /\ wpc[p] = "filter"
    /\ IF exported[p]
       THEN Goto(p, "filter", "set_migrating") /\ UNCHANGED <<plogin, exported, todo>>
       ELSE Gone(p)
    /\ UNCHANGED <<queue, storeVars>>

\* Connect, welcome, LOGIN and the CREATEs; no answer is looked at.
ImapLogin(p) ==
    /\ Goto(p, "imap_login", "append")
    /\ todo' = [todo EXCEPT ![p] = Mails]
    /\ UNCHANGED <<plogin, exported, queue, storeVars>>

\* One APPEND: NSIM stores the mail or answers NO, which is not looked at.
Append(p) ==
    /\ wpc[p] = "append"
    /\ \E m \in todo[p] :
          /\ todo' = [todo EXCEPT ![p] = @ \ {m}]
          /\ \/ nsim' = [nsim EXCEPT ![plogin[p]] = @ \cup {m}]
             \/ UNCHANGED nsim
    /\ UNCHANGED <<wpc, plogin, exported, queue, junk>>

Logout(p) ==
    /\ todo[p] = {}
    /\ Goto(p, "append", "restore_account")
    /\ UNCHANGED <<plogin, exported, todo, queue, storeVars>>

\* change_password(user_password, false); any failure is swallowed.
RestoreAccount(p) ==
    /\ Goto(p, "restore_account", "delete_data")
    /\ \/ junk' = [junk EXCEPT ![plogin[p]] = FALSE]
       \/ UNCHANGED junk
    /\ UNCHANGED <<plogin, exported, todo, queue, nsim>>

\* delete_data, and main() returns.
DeleteRow(p) ==
    /\ wpc[p] = "delete_data"
    /\ queue' = DeleteData(queue, plogin[p])
    /\ Gone(p)
    /\ UNCHANGED storeVars

\* Mutant: the row goes with the process, as the delete_data that is commented
\* out in the error paths would have it.
DieDeletesRow(p) ==
    /\ p \in Running
    /\ queue' = DeleteData(queue, plogin[p])
    /\ Gone(p)
    /\ UNCHANGED storeVars

\* The process ends before the call it is at: a signal, return 1, or an
\* exception nothing catches (any mysqlpp::Exception of an UPDATE, an LDAP or
\* IMAP failure, a filter that throws).
Die(p) ==
    /\ p \in Running
    /\ Gone(p)
    /\ UNCHANGED <<queue, storeVars>>

WorkerStep(p) ==
    \/ GetMigrationInformation(p) \/ LdapSearch(p) \/ NsimConfirm(p)
    \/ SetZimbraId(p) \/ SetExporting(p)
    \/ ModifyAccount(p) \/ SetPassword(p) \/ GetInfo(p) \/ Download(p)
    \/ ExportFails(p)
    \/ SetAnalyzing(p) \/ Filter(p) \/ SetMigrating(p)
    \/ ImapLogin(p) \/ Append(p) \/ Logout(p) \/ RestoreAccount(p)
    \/ DeleteRow(p)
=============================================================================
