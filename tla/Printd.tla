------------------------------- MODULE Printd -------------------------------
(***************************************************************************)
(* The print spooler of src/apue.3e/printer: printd with its main thread,  *)
(* its printer thread, its signal thread and one thread per client, the    *)
(* spool directories that survive it, and the clients (print.c).           *)
(*                                                                         *)
(* Every client has one document of Parts parts.  A document is known by   *)
(* its client: a data file holds [by, n], the first n parts of by's.       *)
(***************************************************************************)
EXTENDS Naturals, Sequences, FiniteSets

CONSTANTS Clients,
          Parts,      \* reads it takes to receive a document
          MaxDown,    \* bound: how often the daemon ends
          NULL

ASSUME PrintdAssumption == /\ IsFiniteSet(Clients) /\ NULL \notin Clients
                           /\ "empty" \notin Clients \cup {NULL}
                           /\ NULL \notin [by : Clients, n : Nat] \cup [id : Nat, of : Clients]
                           /\ Parts \in Nat \ {0} /\ MaxDown \in Nat

Ids == 1 .. Cardinality(Clients)  \* job numbers; bound: a document gets one at most

VARIABLES
    \* the spool directory
    jobno,    \* the job number in JOBFILE, 0 when it is empty
    data,     \* DATADIR: document received, or NULL
    reqs,     \* REQDIR: whose request, "empty" before it is written, or NULL
    \* printd
    up,       \* main thread: "down", "scan", "signal" (add_job of a scanned job), "serve"
    todo,     \* entries of REQDIR build_qonstart has not come to
    nextjob, queue, reread,
    pt, job,  \* printer thread: its next step, and the job it has picked
    th,       \* the next step of each client's thread
    \* struct worker_thread: the list head and the links of the nodes
    workers, next, prev,
    spin,     \* the signal thread is caught in the list, holding workerlock
    \* clients and history
    id,       \* the number a document was given, 0 before
    len,      \* parts of it received
    out,      \* what its client was told
    printed,  \* what came out of the printer: [of, by, n]
    downs,    \* how often the daemon has ended
    run       \* the value of downs when a document was numbered

disk == <<jobno, data, reqs>>
list == <<workers, next, prev, spin>>
printer == <<pt, job>>
docs == <<id, len, out, run>>
vars == <<disk, up, todo, nextjob, queue, reread, printer, th, list, docs, printed, downs>>

Job == [id : Ids, of : Clients]
Threads == {c \in Clients : th[c] \notin {"none", "end"}}

Init == /\ jobno = 0
        /\ data = [j \in Ids |-> NULL] /\ reqs = [j \in Ids |-> NULL]
        /\ up = "down" /\ todo = {} /\ nextjob = 0 /\ queue = <<>> /\ reread = FALSE
        /\ pt = "none" /\ job = NULL
        /\ th = [c \in Clients |-> "none"]
        /\ workers = NULL /\ spin = FALSE
        /\ next = [c \in Clients |-> NULL] /\ prev = [c \in Clients |-> NULL]
        /\ id = [c \in Clients |-> 0] /\ len = [c \in Clients |-> 0]
        /\ out = [c \in Clients |-> "none"] /\ run = [c \in Clients |-> 0]
        /\ printed = {} /\ downs = 0

-----------------------------------------------------------------------------
\* Mutant: the number in the job file is not used.
StartAtOne ==
    /\ up = "down"
    /\ nextjob' = 1
    /\ up' = "scan" /\ pt' = "ready"
    /\ todo' = {j \in Ids : reqs[j] # NULL}
    /\ UNCHANGED <<disk, queue, reread, job, th, list, docs, printed, downs>>

\* main, init_request, init_printer: the number in the job file, the printer and
\* signal threads, and build_qonstart at its first entry.
Start ==
    /\ up = "down"
    /\ nextjob' = IF jobno = 0 THEN 1 ELSE jobno
    /\ up' = "scan" /\ pt' = "ready"
    /\ todo' = {j \in Ids : reqs[j] # NULL}
    /\ UNCHANGED <<disk, queue, reread, job, th, list, docs, printed, downs>>

\* The process is gone, and with it all but the spool directory.
End == /\ up' = "down" /\ todo' = {} /\ nextjob' = 0 /\ queue' = <<>> /\ reread' = FALSE
       /\ pt' = "none" /\ job' = NULL
       /\ th' = [c \in Clients |-> IF c \in Threads THEN "end" ELSE th[c]]
       /\ workers' = NULL /\ spin' = FALSE
       /\ next' = [c \in Clients |-> NULL] /\ prev' = [c \in Clients |-> NULL]
       /\ downs' = downs + 1
       /\ UNCHANGED <<disk, docs, printed>>

\* A crash, at any moment.
Crash == up # "down" /\ downs < MaxDown /\ End

\* The list head points to a node that client_cleanup has freed.
Dangling == workers # NULL /\ workers \notin Threads

\* SIGTERM: kill_workers, then exit.  In memory that has been freed, and perhaps
\* given out again, its loop may never come to an end.
Sigterm == /\ up # "down" /\ downs < MaxDown /\ ~spin
           /\ \/ End
              \/ /\ Dangling
                 /\ spin' = TRUE
                 /\ UNCHANGED <<disk, up, todo, nextjob, queue, reread, printer, th,
                                workers, next, prev, docs, printed, downs>>

Sighup == /\ up # "down" /\ ~spin /\ ~reread
          /\ reread' = TRUE
          /\ UNCHANGED <<disk, up, todo, nextjob, queue, printer, th, list, docs,
                         printed, downs>>

\* build_qonstart: a request that was never written goes, with its data; any
\* other is queued, and the printer thread is told.
ScanEntry(j) ==
    /\ up = "scan" /\ j \in todo
    /\ todo' = todo \ {j}
    /\ IF reqs[j] = "empty"
       THEN /\ data' = [data EXCEPT ![j] = NULL] /\ reqs' = [reqs EXCEPT ![j] = NULL]
            /\ UNCHANGED <<queue, up>>
       ELSE /\ queue' = Append(queue, [id |-> j, of |-> reqs[j]])
            /\ up' = "signal"
            /\ UNCHANGED <<data, reqs>>
    /\ UNCHANGED <<jobno, nextjob, reread, printer, th, list, docs, printed, downs>>

\* pthread_cond_signal wakes the printer thread, if it sleeps.
Wake == pt' = IF pt = "asleep" THEN "ready" ELSE pt

ScanSignal == /\ up = "signal"
              /\ Wake
              /\ up' = "scan"
              /\ UNCHANGED <<disk, todo, nextjob, queue, reread, job, th, list, docs,
                             printed, downs>>

ScanEnd == /\ up = "scan" /\ todo = {}
           /\ up' = "serve"
           /\ UNCHANGED <<disk, todo, nextjob, queue, reread, printer, th, list, docs,
                          printed, downs>>

-----------------------------------------------------------------------------
\* Threads of clients.
Goto(c, label) == th' = [th EXCEPT ![c] = label]
Tell(c, answer) == out' = [out EXCEPT ![c] = answer]
daemon == <<up, todo, reread, printer, printed, downs>>

\* accept and pthread_create, for a client that has connected.
Accept(c) == /\ up = "serve" /\ th[c] = "none"
             /\ Goto(c, "add")
             /\ UNCHANGED <<daemon, disk, nextjob, queue, list, docs>>

\* add_worker: the head of a list that is not empty stays what it was.
AddWorker(c) ==
    /\ th[c] = "add" /\ ~spin
    /\ next' = [next EXCEPT ![c] = workers]
    /\ IF workers = NULL
       THEN /\ workers' = c
            /\ prev' = [prev EXCEPT ![c] = NULL]
       ELSE /\ prev' = [prev EXCEPT ![workers] = c, ![c] = NULL]
            /\ UNCHANGED workers
    /\ Goto(c, "header")
    /\ UNCHANGED <<daemon, disk, nextjob, queue, spin, docs>>

\* The request header arrives within its ten seconds, or does not.
ReadHeader(c) == /\ th[c] = "header"
                 /\ \/ Goto(c, "number") /\ UNCHANGED docs
                    \/ Goto(c, "clean") /\ Tell(c, "rejected") /\ UNCHANGED <<id, len, run>>
                 /\ UNCHANGED <<daemon, disk, nextjob, queue, list>>

get_newjobno(c) == /\ th[c] = "number"
                   /\ id' = [id EXCEPT ![c] = nextjob]
                   /\ run' = [run EXCEPT ![c] = downs]
                   /\ nextjob' = nextjob + 1
                   /\ Goto(c, "creat")
                   /\ UNCHANGED <<daemon, disk, queue, list, len, out>>

\* Mutant: the job is queued as soon as there is a data file.
CreatDataQueued(c) ==
    /\ th[c] = "creat"
    /\ data' = [data EXCEPT ![id[c]] = [by |-> c, n |-> 0]]
    /\ queue' = Append(queue, [id |-> id[c], of |-> c])
    /\ Goto(c, "receive")
    /\ UNCHANGED <<daemon, jobno, reqs, nextjob, list, docs>>

\* creat truncates a file of that name.
CreatData(c) ==
    /\ th[c] = "creat"
    /\ \/ /\ data' = [data EXCEPT ![id[c]] = [by |-> c, n |-> 0]]
          /\ Goto(c, "receive")
          /\ UNCHANGED docs
       \/ /\ Goto(c, "clean") /\ Tell(c, "rejected")
          /\ UNCHANGED <<data, id, len, run>>
    /\ UNCHANGED <<daemon, jobno, reqs, nextjob, queue, list>>

\* Whether the file a thread has open is still the one of that name.
Linked(c) == data[id[c]] # NULL /\ data[id[c]].by = c

\* tread has read a part; write stores it or fails.
ReceivePart(c) ==
    /\ th[c] = "receive" /\ len[c] < Parts
    /\ \/ /\ len' = [len EXCEPT ![c] = @ + 1]
          /\ data' = IF Linked(c) THEN [data EXCEPT ![id[c]].n = len[c] + 1] ELSE data
          /\ UNCHANGED <<th, out>>
       \/ /\ data' = [data EXCEPT ![id[c]] = NULL]
          /\ Goto(c, "clean") /\ Tell(c, "rejected")
          /\ UNCHANGED len
    /\ UNCHANGED <<daemon, jobno, reqs, nextjob, queue, list, id, run>>

\* No part for 20 seconds, which is how every document ends (the client does not
\* close its side), and how one ends whose client has stalled: the size in the
\* header is not looked at.
ReceiveEnd(c) == /\ th[c] = "receive"
                 /\ Goto(c, "request")
                 /\ UNCHANGED <<daemon, disk, nextjob, queue, list, docs>>

\* The control file.
CreatRequest(c) ==
    /\ th[c] = "request"
    /\ \/ /\ reqs' = [reqs EXCEPT ![id[c]] = "empty"]
          /\ Goto(c, "write")
          /\ UNCHANGED <<data, docs>>
       \/ /\ data' = [data EXCEPT ![id[c]] = NULL]
          /\ Goto(c, "clean") /\ Tell(c, "rejected")
          /\ UNCHANGED <<reqs, id, len, run>>
    /\ UNCHANGED <<daemon, jobno, nextjob, queue, list>>

\* Mutant: the client has its answer before its request is on the disk.
WriteRequestLate(c) ==
    /\ th[c] = "write"
    /\ Goto(c, "reply")
    /\ UNCHANGED <<daemon, disk, nextjob, queue, list, docs>>

WriteRequest(c) ==
    /\ th[c] = "write"
    /\ \/ /\ reqs' = [reqs EXCEPT ![id[c]] = c]
          /\ Goto(c, "reply")
          /\ UNCHANGED <<data, docs>>
       \/ /\ data' = [data EXCEPT ![id[c]] = NULL] /\ reqs' = [reqs EXCEPT ![id[c]] = NULL]
          /\ Goto(c, "clean") /\ Tell(c, "rejected")
          /\ UNCHANGED <<id, len, run>>
    /\ UNCHANGED <<daemon, jobno, nextjob, queue, list>>

Reply(c) == /\ th[c] = "reply"
            /\ Tell(c, "acked")
            /\ Goto(c, "queue")
            /\ UNCHANGED <<daemon, disk, nextjob, queue, list, id, len, run>>

\* add_job: the queue under joblock, then the signal without it.
AddJob(c) == /\ th[c] = "queue"
             /\ queue' = Append(queue, [id |-> id[c], of |-> c])
             /\ Goto(c, "signal")
             /\ UNCHANGED <<daemon, disk, nextjob, list, docs>>

\* Mutant: the signal is left out.
SignalLost(c) == /\ th[c] = "signal"
                 /\ Goto(c, "clean")
                 /\ UNCHANGED <<daemon, disk, nextjob, queue, list, docs>>

Signal(c) == /\ th[c] = "signal"
             /\ Wake
             /\ Goto(c, "clean")
             /\ UNCHANGED <<up, todo, reread, job, printed, downs, disk, nextjob, queue,
                            list, docs>>

\* client_cleanup: the node is unlinked if the walk from the head comes to it ...
Reachable(c) ==
    LET at[n \in 0 .. Cardinality(Clients)] ==
            IF n = 0 THEN workers ELSE IF at[n - 1] = NULL THEN NULL ELSE next[at[n - 1]]
    IN  \E n \in DOMAIN at : at[n] = c

Cleanup(c) ==
    /\ th[c] = "clean" /\ ~spin /\ ~Dangling
    /\ IF Reachable(c)
       THEN LET n == next[c]
                p == prev[c]
            IN  /\ prev' = [d \in Clients |-> IF d = n THEN p ELSE IF d = c THEN NULL ELSE prev[d]]
                /\ next' = [d \in Clients |-> IF d = p THEN n ELSE IF d = c THEN NULL ELSE next[d]]
                /\ workers' = IF p = NULL THEN n ELSE workers
       ELSE UNCHANGED <<workers, next, prev>>
    /\ Goto(c, "end")
    /\ UNCHANGED <<daemon, disk, nextjob, queue, spin, docs>>

\* ... and where the head is a freed node, the walk finds what it finds, or the
\* daemon dies of it.
CleanupFreed(c) ==
    /\ th[c] = "clean" /\ ~spin /\ Dangling
    /\ \/ /\ Goto(c, "end")
          /\ UNCHANGED <<daemon, disk, nextjob, queue, list, docs>>
       \/ downs < MaxDown /\ End

-----------------------------------------------------------------------------
\* The printer thread.
main == <<up, todo, nextjob, th, list, docs, downs>>

Wait == /\ pt = "ready" /\ queue = <<>>
        /\ pt' = "asleep"
        /\ UNCHANGED <<main, disk, queue, reread, job, printed>>

Pick == /\ pt = "ready" /\ queue # <<>>
        /\ job' = Head(queue) /\ queue' = Tail(queue)
        /\ pt' = "jobno"
        /\ UNCHANGED <<main, disk, reread, printed>>

update_jobno == /\ pt = "jobno"
                /\ jobno' = nextjob
                /\ pt' = "config"
                /\ UNCHANGED <<main, data, reqs, queue, reread, job, printed>>

\* A configuration that names no printer ends the daemon.
CheckConfig == /\ pt = "config"
               /\ \/ /\ pt' = "open" /\ reread' = FALSE
                     /\ UNCHANGED <<main, disk, queue, job, printed>>
                  \/ reread /\ downs < MaxDown /\ End

\* A job without data is cancelled; its control file stays.
OpenData == /\ pt = "open"
            /\ IF data[job.id] = NULL THEN pt' = "ready" /\ job' = NULL
                                      ELSE pt' = "send" /\ UNCHANGED job
            /\ UNCHANGED <<main, disk, queue, reread, printed>>

Sent == [of |-> job.of, by |-> data[job.id].by, n |-> data[job.id].n]

\* The printer takes the job and says so.  (A data file is unlinked while it is open
\* only where its number was given away; what is printed of it is not recorded.)
PrinterOk == /\ pt = "send"
             /\ printed' = printed \cup (IF data[job.id] = NULL THEN {} ELSE {Sent})
             /\ pt' = "unlink"
             /\ UNCHANGED <<main, disk, queue, reread, job>>

\* It cannot be reached, refuses the job, or prints it and is not understood:
\* replace_job puts the job back in front, to be tried again in a minute.
Defer == /\ pt = "send"
         /\ \/ UNCHANGED printed
            \/ data[job.id] # NULL /\ printed' = printed \cup {Sent}
         /\ queue' = <<job>> \o queue
         /\ job' = NULL /\ pt' = "ready"
         /\ UNCHANGED <<main, disk, reread>>

UnlinkData == /\ pt = "unlink"
              /\ data' = [data EXCEPT ![job.id] = NULL]
              /\ pt' = "unlink_request"
              /\ UNCHANGED <<main, jobno, reqs, queue, reread, job, printed>>

UnlinkRequest == /\ pt = "unlink_request"
                 /\ reqs' = [reqs EXCEPT ![job.id] = NULL]
                 /\ pt' = "ready" /\ job' = NULL
                 /\ UNCHANGED <<main, jobno, data, queue, reread, printed>>

-----------------------------------------------------------------------------
Client(c) == \/ AddWorker(c) \/ ReadHeader(c) \/ get_newjobno(c) \/ CreatData(c)
             \/ ReceivePart(c) \/ ReceiveEnd(c) \/ CreatRequest(c) \/ WriteRequest(c)
             \/ Reply(c) \/ AddJob(c) \/ Signal(c) \/ Cleanup(c) \/ CleanupFreed(c)

Scan == (\E j \in Ids : ScanEntry(j)) \/ ScanSignal \/ ScanEnd

Printer == \/ Wait \/ Pick \/ update_jobno \/ CheckConfig \/ OpenData
           \/ PrinterOk \/ Defer \/ UnlinkData \/ UnlinkRequest

Next == \/ Start \/ Scan \/ Crash \/ Sigterm \/ Sighup \/ Printer
        \/ \E c \in Clients : Accept(c) \/ Client(c)

\* The daemon is started again, its threads run, and a printer that is tried
\* again and again takes the job in the end.
Fairness == /\ WF_vars(Start) /\ WF_vars(Scan) /\ WF_vars(Printer) /\ SF_vars(PrinterOk)
            /\ \A c \in Clients : WF_vars(Client(c))

Spec == Init /\ [][Next]_vars /\ Fairness

-----------------------------------------------------------------------------
TypeOK ==
    /\ jobno \in Nat /\ nextjob \in Nat /\ downs \in Nat
    /\ data \in [Ids -> [by : Clients, n : 0 .. Parts] \cup {NULL}]
    /\ reqs \in [Ids -> Clients \cup {"empty", NULL}]
    /\ up \in {"down", "scan", "signal", "serve"} /\ todo \subseteq Ids
    /\ queue \in Seq(Job) /\ job \in Job \cup {NULL}
    /\ pt \in {"none", "ready", "asleep", "jobno", "config", "open", "send", "unlink",
               "unlink_request"}
    /\ th \in [Clients -> {"none", "add", "header", "number", "creat", "receive", "request",
                           "write", "reply", "queue", "signal", "clean", "end"}]
    /\ id \in [Clients -> Ids \cup {0}] /\ len \in [Clients -> 0 .. Parts]
    /\ out \in [Clients -> {"none", "rejected", "acked"}] /\ run \in [Clients -> Nat]
    /\ printed \subseteq [of : Clients, by : Clients, n : 0 .. Parts]
    /\ job # NULL <=> pt \notin {"none", "ready", "asleep"}
    /\ up = "down" <=> pt = "none"

\* No other document was ever given the number of this one.
Alone(c) == \A d \in Clients \ {c} : id[d] # id[c]

\* An acknowledged document is on the disk, complete and with its request, until
\* it has been printed, whenever the daemon dies, on the way in, on the way out
\* or at start; unless its number was given away again.
NoJobLost ==
    \A c \in Clients : out[c] = "acked" /\ Alone(c) =>
        \/ [of |-> c, by |-> c, n |-> len[c]] \in printed
        \/ reqs[id[c]] = c /\ data[id[c]] = [by |-> c, n |-> len[c]]

\* What is printed for a request is its document as it was received, not a part
\* of it and not another one; again, unless its number was given away.
PrintedRight ==
    \A x \in printed : Alone(x.of) => x.by = x.of /\ x.n = len[x.of]

\* A number is given away again only by a later daemon, and only when it was
\* still unsaved when that one started: the counter is saved when the printer
\* thread picks a job, not when a number is handed out.
ReusedOnlyUnsaved ==
    [][\A c \in Clients : id'[c] # id[c] =>
           /\ id'[c] >= jobno
           /\ \A d \in Clients : id[d] = id'[c] => run[d] < downs]_vars

\* The printer thread is never left asleep with a job in the queue, and a daemon
\* that dies and comes back finds its jobs: an acknowledged document is printed
\* at last, if the printer will take it and its number is its own.
AckedPrinted ==
    \A c \in Clients : out[c] = "acked" ~> (~Alone(c) \/ \E x \in printed : x.by = c)
=============================================================================
