----------------------------- MODULE PrintdProofs -----------------------------
(***************************************************************************)
(* What the print spooler guarantees for any number of clients, documents  *)
(* of any length and a daemon that may end any number of times.            *)
(***************************************************************************)
EXTENDS Printd, FiniteSetTheorems, SequenceTheorems, TLAPS

\* The documents that have been given a number.
Numbered == {c \in Clients : id[c] # 0}

\* What the numbers are good for: they are never more than the documents that have
\* one, the counter runs ahead of the job file and of every number of its own run.
CountInv ==
    /\ nextjob <= Cardinality(Numbered) + 1 /\ jobno <= Cardinality(Numbered) + 1
    /\ up # "down" => nextjob >= 1 /\ nextjob >= jobno
    /\ \A c \in Clients : /\ run[c] <= downs
                          /\ id[c] # 0 /\ run[c] = downs => up # "down" /\ id[c] < nextjob

\* Threads of clients live in a daemon that serves; while it reads the spool
\* directory, it has yet to come to the entries in todo.
UpInv ==
    /\ up # "serve" => \A c \in Clients : th[c] \in {"none", "end"}
    /\ up \in {"down", "serve"} => todo = {}
    /\ \A j \in todo : reqs[j] # NULL
    /\ up = "down" => queue = <<>>

\* A job is that of a document whose thread is past add_job, and is not in todo.
JobOK(q) ==
    /\ id[q.of] = q.id /\ q.id \notin todo
    /\ th[q.of] \in {"signal", "clean", "end"}
    /\ Alone(q.of) => reqs[q.id] \in {q.of, NULL}

QueueInv ==
    /\ \A i \in DOMAIN queue : JobOK(queue[i])
    /\ job # NULL => JobOK(job)

Early == {"none", "add", "header", "number"}
Written == {"reply", "queue", "signal", "clean", "end"}

\* What the spool directory has of a document.
Stored(c) == reqs[id[c]] = c /\ data[id[c]] = [by |-> c, n |-> len[c]]
Printed(c) == [of |-> c, by |-> c, n |-> len[c]] \in printed

DocInv ==
    /\ \A j \in Ids : data[j] # NULL => id[data[j].by] = j /\ data[j].n = len[data[j].by]
    /\ \A j \in Ids : reqs[j] \in Clients => id[reqs[j]] = j /\ th[reqs[j]] \in Written
    /\ \A c \in Clients :
          /\ th[c] \in Early => id[c] = 0
          /\ th[c] \in Early \cup {"creat"} => len[c] = 0
          /\ th[c] \notin Early \cup {"clean", "end"} => id[c] # 0
          /\ out[c] = "acked" => th[c] \in {"queue", "signal", "clean", "end"} /\ id[c] # 0
          /\ th[c] \in {"receive", "request", "write"} /\ Alone(c) => data[id[c]] # NULL
          /\ th[c] = "reply" \/ out[c] = "acked" => (Alone(c) => Stored(c) \/ Printed(c))
          /\ th[c] = "queue" => out[c] = "acked"

\* What has been printed, and what the printer thread is about to unlink.
PrintInv ==
    /\ \A x \in printed : /\ th[x.of] \in {"signal", "clean", "end"} /\ id[x.of] # 0
                          /\ Alone(x.of) => x.by = x.of /\ x.n = len[x.of]
    /\ pt = "send" /\ Alone(job.of) => data[job.id] # NULL
    /\ pt \in {"unlink", "unlink_request"} /\ Alone(job.of) => Printed(job.of)

SpoolInv == TypeOK /\ CountInv /\ UpInv /\ QueueInv /\ DocInv /\ PrintInv

-----------------------------------------------------------------------------
\* Job numbers are positive.
LEMMA IdsFacts == /\ Cardinality(Clients) \in Nat
                  /\ \A j : j \in Ids <=> j \in Nat /\ 1 <= j /\ j <= Cardinality(Clients)
  BY PrintdAssumption, FS_CardinalityType DEF Ids

\* Whether a number is its document's own depends on the numbers alone.
LEMMA SameAlone == ASSUME UNCHANGED id
                   PROVE  \A c : Alone(c)' <=> Alone(c)
  BY DEF Alone

\* Which documents have a number changes with the numbers only.
LEMMA SameNumbered == ASSUME UNCHANGED id
                      PROVE  UNCHANGED Numbered
  BY DEF Numbered

\* What a thread's step does that leaves files, numbers and the queue alone.
Ahead(c) ==
    \/ /\ <<th[c], th'[c]>> \in {<<"none", "add">>, <<"add", "header">>, <<"header", "number">>,
                                 <<"receive", "request">>, <<"signal", "clean">>,
                                 <<"clean", "end">>}
       /\ out'[c] = out[c]
    \/ th[c] \in {"header", "creat"} /\ th'[c] = "clean" /\ out'[c] = "rejected"
    \/ th[c] = "reply" /\ th'[c] = "queue" /\ out'[c] = "acked"

\* Steps of threads that change neither files, numbers nor the queue.
LEMMA Moves ==
    ASSUME SpoolInv, TypeOK', UpInv',
           UNCHANGED <<disk, todo, nextjob, queue, job, id, len, run, printed, downs>>,
           up # "down", up' # "down",
           pt' = pt \/ pt' \notin {"send", "unlink", "unlink_request"},
           \A c \in Clients : (th'[c] = th[c] /\ out'[c] = out[c]) \/ Ahead(c)
    PROVE  SpoolInv'
  <1>. USE SameAlone DEF disk
  <1>1. CountInv'
    BY SameNumbered DEF SpoolInv, CountInv
  <1>2. \A q : q \in Job /\ JobOK(q) => JobOK(q)'
    BY DEF JobOK, Ahead, Job
  <1>3. QueueInv'
    <2>1. \A i \in DOMAIN queue : queue[i] \in Job
      BY DEF SpoolInv, TypeOK
    <2>2. job # NULL => job \in Job
      BY DEF SpoolInv, TypeOK
    <2>. QED  BY <1>2, <2>1, <2>2 DEF SpoolInv, QueueInv
  <1>4. DocInv'
    <2>1. \A c \in Clients : /\ Stored(c)' <=> Stored(c)
                             /\ Printed(c)' <=> Printed(c)
      BY DEF Stored, Printed
    <2>2. \A j \in Ids : data[j] # NULL => id[data[j].by] = j /\ data[j].n = len[data[j].by]
      BY DEF SpoolInv, DocInv
    <2>3. \A j \in Ids : reqs[j] \in Clients => id[reqs[j]] = j /\ th'[reqs[j]] \in Written
      BY DEF SpoolInv, DocInv, Written, Ahead
    <2>4. ASSUME NEW c \in Clients
          PROVE  /\ th'[c] \in Early => id[c] = 0
                 /\ th'[c] \in Early \cup {"creat"} => len[c] = 0
                 /\ th'[c] \notin Early \cup {"clean", "end"} => id[c] # 0
                 /\ out'[c] = "acked" => th'[c] \in {"queue", "signal", "clean", "end"} /\ id[c] # 0
                 /\ th'[c] \in {"receive", "request", "write"} /\ Alone(c) => data[id[c]] # NULL
                 /\ th'[c] = "reply" \/ out'[c] = "acked" => (Alone(c) => Stored(c) \/ Printed(c))
                 /\ th'[c] = "queue" => out'[c] = "acked"
      BY <2>4 DEF SpoolInv, DocInv, Early, Ahead
    <2>. QED  BY <2>1, <2>2, <2>3, <2>4 DEF DocInv
  <1>5. PrintInv'
    <2>1. \A c \in Clients : Printed(c)' <=> Printed(c)
      BY DEF Printed
    <2>2. \A x \in printed : x.of \in Clients
      BY DEF SpoolInv, TypeOK
    <2>3. \A x \in printed : /\ th'[x.of] \in {"signal", "clean", "end"} /\ id[x.of] # 0
                             /\ Alone(x.of) => x.by = x.of /\ x.n = len[x.of]
      BY <2>2 DEF SpoolInv, PrintInv, Ahead
    <2>4. pt \in {"send", "unlink", "unlink_request"} => job.of \in Clients
      BY DEF SpoolInv, TypeOK, Job
    <2>. QED  BY <2>1, <2>3, <2>4 DEF SpoolInv, PrintInv
  <1>. QED  BY <1>1, <1>3, <1>4, <1>5 DEF SpoolInv

\* The steps that come under it.
Move(c) == \/ Accept(c) \/ AddWorker(c) \/ ReadHeader(c) \/ ReceiveEnd(c) \/ Reply(c)
           \/ Signal(c) \/ Cleanup(c)

\* The steps of client_thread that leave the files and the queue alone keep the invariant.
LEMMA ClientMoves ==
    ASSUME SpoolInv, NEW c \in Clients,
           Move(c) \/ (th[c] = "clean" /\ Goto(c, "end")
                       /\ UNCHANGED <<daemon, disk, nextjob, queue, list, docs>>)
    PROVE  SpoolInv'
  <1>. USE DEF disk, daemon, docs, printer, list, Move, Goto
  <1>1. /\ UNCHANGED <<disk, up, todo, nextjob, queue, job, id, len, run, printed, downs>>
        /\ pt' \in {pt, "ready"} /\ (pt' = pt \/ pt = "asleep")
    BY DEF Accept, AddWorker, ReadHeader, ReceiveEnd, Reply, Signal, Cleanup, Wake
  <1>2. up # "down" /\ up = "serve"
    BY DEF Accept, AddWorker, ReadHeader, ReceiveEnd, Reply, Signal, Cleanup, SpoolInv, UpInv
  <1>3. \E l \in {"add", "header", "number", "request", "queue", "clean", "end"} :
           th' = [th EXCEPT ![c] = l]
    BY DEF Accept, AddWorker, ReadHeader, ReceiveEnd, Reply, Signal, Cleanup
  <1>4. \E a \in {"rejected", "acked"} : out' = out \/ out' = [out EXCEPT ![c] = a]
    BY DEF Accept, AddWorker, ReadHeader, ReceiveEnd, Reply, Signal, Cleanup, Tell
  <1>5. th \in [Clients -> {"none", "add", "header", "number", "creat", "receive", "request",
                           "write", "reply", "queue", "signal", "clean", "end"}]
        /\ out \in [Clients -> {"none", "rejected", "acked"}]
    BY DEF SpoolInv, TypeOK
  <1>6. /\ th' \in [Clients -> {"none", "add", "header", "number", "creat", "receive", "request",
                           "write", "reply", "queue", "signal", "clean", "end"}]
        /\ out' \in [Clients -> {"none", "rejected", "acked"}]
    BY <1>3, <1>4, <1>5
  <1>7. TypeOK'
    BY <1>1, <1>6 DEF SpoolInv, TypeOK
  <1>8. UpInv'
    BY <1>1, <1>2 DEF SpoolInv, UpInv
  <1>9. \A d \in Clients \ {c} : th'[d] = th[d] /\ out'[d] = out[d]
    BY <1>3, <1>4, <1>5
  <1>10. Ahead(c)
    BY <1>5 DEF Ahead, Accept, AddWorker, ReadHeader, ReceiveEnd, Reply, Signal, Cleanup, Tell
  <1>. QED  BY <1>1, <1>2, <1>7, <1>8, <1>9, <1>10, Moves

\* Steps of the daemon that leave files, numbers and the queue alone.
LEMMA DaemonMoves ==
    ASSUME SpoolInv,
           \/ Sighup \/ ScanSignal \/ ScanEnd \/ Wait
           \/ Sigterm /\ UNCHANGED <<disk, up, todo, nextjob, queue, reread, printer, th,
                                     workers, next, prev, docs, printed, downs>>
           \/ CheckConfig /\ pt' = "open" /\ UNCHANGED <<main, disk, queue, job, printed>>
    PROVE  SpoolInv'
  <1>. USE DEF disk, daemon, docs, printer, list, main
  <1>1. /\ UNCHANGED <<disk, todo, nextjob, queue, job, th, id, len, run, out, printed, downs>>
        /\ pt' = pt \/ (pt \in {"ready", "asleep"} /\ pt' \in {"ready", "asleep"})
                    \/ (pt = "config" /\ pt' = "open")
        /\ up' = up \/ (up \in {"signal", "scan"} /\ up' = "scan")
                    \/ (up = "scan" /\ up' = "serve" /\ todo = {})
    BY DEF Sighup, ScanSignal, ScanEnd, Wait, CheckConfig, Wake, Sigterm
  <1>2. up # "down" /\ up' # "down"
    BY <1>1 DEF Sighup, ScanSignal, ScanEnd, Wait, CheckConfig, Sigterm, SpoolInv, TypeOK
  <1>3. TypeOK'
    BY <1>1, <1>2 DEF SpoolInv, TypeOK
  <1>4. UpInv'
    BY <1>1, <1>2 DEF SpoolInv, UpInv
  <1>. QED  BY <1>1, <1>2, <1>3, <1>4, Moves

\* The end of the daemon: what is on the disk is as good as it was.
LEMMA EndKeeps == ASSUME SpoolInv, up # "down", End
                  PROVE  SpoolInv'
  <1>. USE SameAlone DEF disk, docs
  <1>1. /\ UNCHANGED <<disk, id, len, out, run, printed>>
        /\ up' = "down" /\ pt' = "none" /\ job' = NULL /\ queue' = <<>> /\ todo' = {}
        /\ downs' = downs + 1 /\ nextjob' = 0
    BY DEF End
  <1>2. \A c \in Clients : th'[c] = "end" \/ (th'[c] = "none" /\ th[c] = "none")
    BY DEF End, Threads
  <1>3. TypeOK'
    <2>1. th' \in [Clients -> {"none", "add", "header", "number", "creat", "receive", "request",
                               "write", "reply", "queue", "signal", "clean", "end"}]
      BY <1>2 DEF End
    <2>2. queue' \in Seq(Job)
      BY <1>1
    <2>. QED  BY <1>1, <2>1, <2>2 DEF SpoolInv, TypeOK
  <1>4. CountInv'
    <2>1. downs \in Nat /\ jobno \in Nat /\ \A c \in Clients : run[c] \in Nat
      BY DEF SpoolInv, TypeOK
    <2>2. Cardinality(Numbered) \in Nat
      BY PrintdAssumption, FS_Subset, FS_CardinalityType DEF Numbered
    <2>. QED  BY <1>1, <2>1, <2>2, SameNumbered DEF SpoolInv, CountInv
  <1>5. UpInv'
    BY <1>1, <1>2 DEF UpInv
  <1>6. QueueInv'
    BY <1>1 DEF QueueInv
  <1>7. DocInv'
    <2>1. \A c \in Clients : /\ Stored(c)' <=> Stored(c)
                             /\ Printed(c)' <=> Printed(c)
      BY <1>1 DEF Stored, Printed
    <2>2. \A j \in Ids : reqs[j] \in Clients => id[reqs[j]] = j /\ th'[reqs[j]] \in Written
      BY <1>2 DEF SpoolInv, DocInv, Written
    <2>3. ASSUME NEW c \in Clients
          PROVE  /\ th'[c] \in Early => id[c] = 0
                 /\ th'[c] \in Early \cup {"creat"} => len[c] = 0
                 /\ th'[c] \in Early \cup {"clean", "end"}
                 /\ out[c] = "acked" => th'[c] \in {"queue", "signal", "clean", "end"} /\ id[c] # 0
                 /\ th'[c] \notin {"receive", "request", "write", "reply", "queue"}
                 /\ out[c] = "acked" => (Alone(c) => Stored(c) \/ Printed(c))
      BY <1>2 DEF SpoolInv, DocInv, Early
    <2>. QED  BY <1>1, <2>1, <2>2, <2>3 DEF SpoolInv, DocInv
  <1>8. PrintInv'
    <2>1. \A x \in printed : x.of \in Clients
      BY DEF SpoolInv, TypeOK
    <2>. QED  BY <1>1, <1>2, <2>1 DEF SpoolInv, PrintInv
  <1>. QED  BY <1>3, <1>4, <1>5, <1>6, <1>7, <1>8 DEF SpoolInv

\* The numbers go on where the job file left them.
LEMMA StartKeeps == ASSUME SpoolInv, Start
                    PROVE  SpoolInv'
  <1>. USE SameAlone DEF disk, docs, list
  <1>1. /\ UNCHANGED <<disk, queue, job, th, id, len, out, run, printed, downs>>
        /\ up = "down" /\ up' = "scan" /\ pt' = "ready"
        /\ todo' = {j \in Ids : reqs[j] # NULL}
        /\ nextjob' = IF jobno = 0 THEN 1 ELSE jobno
    BY DEF Start
  <1>2. queue = <<>> /\ job = NULL
    BY <1>1 DEF SpoolInv, TypeOK, UpInv
  <1>3. TypeOK'
    BY <1>1, <1>2 DEF SpoolInv, TypeOK
  <1>4. CountInv'
    <2>1. Cardinality(Numbered) \in Nat
      BY PrintdAssumption, FS_Subset, FS_CardinalityType DEF Numbered
    <2>. QED  BY <1>1, <2>1, SameNumbered DEF SpoolInv, CountInv, TypeOK
  <1>5. UpInv'
    BY <1>1 DEF SpoolInv, UpInv
  <1>6. QueueInv'
    BY <1>1, <1>2 DEF QueueInv
  <1>7. DocInv'
    <2>1. \A c \in Clients : /\ Stored(c)' <=> Stored(c)
                             /\ Printed(c)' <=> Printed(c)
      BY <1>1 DEF Stored, Printed
    <2>. QED  BY <1>1, <2>1 DEF SpoolInv, DocInv
  <1>8. PrintInv'
    BY <1>1 DEF SpoolInv, PrintInv
  <1>. QED  BY <1>3, <1>4, <1>5, <1>6, <1>7, <1>8 DEF SpoolInv

\* Jobs are those of the clients, in the queue or picked.
LEMMA QueueFacts ==
    ASSUME SpoolInv
    PROVE  /\ \A i \in DOMAIN queue : queue[i] \in Job /\ JobOK(queue[i])
           /\ job # NULL => job \in Job /\ JobOK(job)
  BY DEF SpoolInv, TypeOK, QueueInv

\* An entry whose request was never written goes: nobody was told of it.
LEMMA ScanRemoves ==
    ASSUME SpoolInv, NEW j \in Ids, ScanEntry(j), reqs[j] = "empty"
    PROVE  SpoolInv'
  <1>. USE SameAlone DEF docs, list, printer
  <1>1. /\ UNCHANGED <<jobno, nextjob, up, queue, job, pt, th, id, len, out, run, printed, downs>>
        /\ up = "scan" /\ todo' = todo \ {j} /\ j \in todo
        /\ data' = [data EXCEPT ![j] = NULL] /\ reqs' = [reqs EXCEPT ![j] = NULL]
    BY DEF ScanEntry
  <1>2. /\ \A k \in Ids : k # j => data'[k] = data[k] /\ reqs'[k] = reqs[k]
        /\ data'[j] = NULL /\ reqs'[j] = NULL
    BY <1>1 DEF SpoolInv, TypeOK
  <1>3. TypeOK'
    <2>1. /\ data' \in [Ids -> [by : Clients, n : 0 .. Parts] \cup {NULL}]
          /\ reqs' \in [Ids -> Clients \cup {"empty", NULL}]
      BY <1>1 DEF SpoolInv, TypeOK
    <2>. QED  BY <1>1, <2>1 DEF SpoolInv, TypeOK
  <1>4. CountInv'
    BY <1>1, SameNumbered DEF SpoolInv, CountInv
  <1>5. UpInv'
    BY <1>1, <1>2 DEF SpoolInv, UpInv, TypeOK
  <1>6. QueueInv'
    <2>1. \A q : q \in Job /\ JobOK(q) => JobOK(q)'
      BY <1>1, <1>2 DEF JobOK, Job
    <2>. QED  BY <1>1, <2>1, QueueFacts DEF QueueInv
  <1>7. DocInv'
    <2>1. \A c \in Clients : id[c] # 0 => id[c] \in Ids
      BY DEF SpoolInv, TypeOK
    <2>2. \A c \in Clients : out[c] = "acked" /\ Alone(c) => Stored(c)' \/ Printed(c)'
      <3>1. ASSUME NEW c \in Clients, out[c] = "acked", Alone(c), Stored(c)
            PROVE  Stored(c)'
        <4>1. id[c] \in Ids /\ reqs[id[c]] = c /\ c # "empty"
          BY <2>1, <3>1, PrintdAssumption DEF SpoolInv, DocInv, Stored
        <4>. QED  BY <1>1, <1>2, <3>1, <4>1 DEF Stored
      <3>. QED  BY <1>1, <3>1 DEF SpoolInv, DocInv, Printed
    <2>3. \A c \in Clients : th[c] \in {"none", "end"}
      BY <1>1 DEF SpoolInv, UpInv
    <2>4. NULL \notin Clients
      BY PrintdAssumption
    <2>. QED  BY <1>1, <1>2, <2>2, <2>3, <2>4 DEF SpoolInv, DocInv
  <1>8. PrintInv'
    <2>1. \A c \in Clients : Printed(c)' <=> Printed(c)
      BY <1>1 DEF Printed
    <2>2. job # NULL => job.of \in Clients /\ job.id \in Ids /\ job.id # j
      BY <1>1, QueueFacts DEF JobOK, Job
    <2>3. pt \in {"send", "unlink", "unlink_request"} => job # NULL
      BY DEF SpoolInv, TypeOK
    <2>. QED  BY <1>1, <1>2, <2>1, <2>2, <2>3 DEF SpoolInv, PrintInv
  <1>. QED  BY <1>3, <1>4, <1>5, <1>6, <1>7, <1>8 DEF SpoolInv

\* Any other entry becomes a job again.
LEMMA ScanQueues ==
    ASSUME SpoolInv, NEW j \in Ids, ScanEntry(j), reqs[j] # "empty"
    PROVE  SpoolInv'
  <1>. USE SameAlone DEF docs, list, printer
  <1>1. /\ UNCHANGED <<jobno, nextjob, data, reqs, job, pt, th, id, len, out, run, printed, downs>>
        /\ up = "scan" /\ up' = "signal" /\ todo' = todo \ {j} /\ j \in todo
    BY DEF ScanEntry
  <1>2. reqs[j] \in Clients
    BY <1>1 DEF SpoolInv, TypeOK, UpInv
  <1>3. PICK q : q = [id |-> j, of |-> reqs[j]]
    OBVIOUS
  <1>4. q \in Job /\ q.id = j /\ q.of = reqs[j]
    BY <1>2, <1>3 DEF Job
  <1>5. queue' = Append(queue, q)
    BY <1>3 DEF ScanEntry
  <1>6. TypeOK'
    <2>1. queue' \in Seq(Job)
      BY <1>4, <1>5 DEF SpoolInv, TypeOK
    <2>. QED  BY <1>1, <2>1 DEF SpoolInv, TypeOK
  <1>7. CountInv'
    BY <1>1, SameNumbered DEF SpoolInv, CountInv
  <1>8. UpInv'
    BY <1>1 DEF SpoolInv, UpInv
  <1>9. QueueInv'
    <2>1. \A p : p \in Job /\ JobOK(p) => JobOK(p)'
      BY <1>1 DEF JobOK, Job
    <2>2. JobOK(q)'
      <3>1. id[q.of] = j /\ th[q.of] \in Written
        BY <1>2, <1>4 DEF SpoolInv, DocInv
      <3>2. th[q.of] = "end"
        BY <1>1, <1>2, <1>4, <3>1 DEF SpoolInv, UpInv, Written
      <3>. QED  BY <1>1, <1>3, <1>4, <3>1, <3>2 DEF JobOK
    <2>3. ASSUME NEW i \in DOMAIN queue'
          PROVE  (i \in DOMAIN queue /\ queue'[i] = queue[i]) \/ queue'[i] = q
      BY <1>5, <2>3 DEF SpoolInv, TypeOK
    <2>4. (\A i \in DOMAIN queue : JobOK(queue[i]))'
      BY <2>1, <2>2, <2>3, QueueFacts
    <2>. QED  BY <1>1, <2>1, <2>4, QueueFacts DEF QueueInv
  <1>10. DocInv'
    <2>1. \A c \in Clients : /\ Stored(c)' <=> Stored(c)
                             /\ Printed(c)' <=> Printed(c)
      BY <1>1 DEF Stored, Printed
    <2>. QED  BY <1>1, <2>1 DEF SpoolInv, DocInv
  <1>11. PrintInv'
    <2>1. \A c \in Clients : Printed(c)' <=> Printed(c)
      BY <1>1 DEF Printed
    <2>2. pt \in {"send", "unlink", "unlink_request"} => job.of \in Clients
      BY DEF SpoolInv, TypeOK, Job
    <2>. QED  BY <1>1, <2>1, <2>2 DEF SpoolInv, PrintInv
  <1>. QED  BY <1>6, <1>7, <1>8, <1>9, <1>10, <1>11 DEF SpoolInv

\* A number is given to a document that had none, and to nobody else of this run.
LEMMA get_newjobnoKeeps ==
    ASSUME SpoolInv, NEW c \in Clients, get_newjobno(c)
    PROVE  SpoolInv'
  <1>. USE DEF daemon, disk, list, printer
  <1>1. /\ UNCHANGED <<jobno, data, reqs, up, todo, queue, job, pt, len, out, printed, downs>>
        /\ th[c] = "number" /\ nextjob' = nextjob + 1
    BY DEF get_newjobno
  <1>2. id[c] = 0 /\ up = "serve"
    BY <1>1 DEF SpoolInv, DocInv, UpInv, Early
  <1>3. /\ th'[c] = "creat" /\ id'[c] = nextjob /\ run'[c] = downs
        /\ \A d \in Clients \ {c} : th'[d] = th[d] /\ id'[d] = id[d] /\ run'[d] = run[d]
    BY DEF get_newjobno, Goto, SpoolInv, TypeOK
  <1>4. /\ IsFiniteSet(Numbered) /\ IsFiniteSet(Numbered') /\ c \notin Numbered
        /\ Cardinality(Numbered) \in Nat /\ Cardinality(Numbered') = Cardinality(Numbered) + 1
        /\ Cardinality(Numbered') <= Cardinality(Clients)
    <2>1. IsFiniteSet(Numbered) /\ c \notin Numbered
      BY <1>2, PrintdAssumption, FS_Subset DEF Numbered
    <2>2. nextjob # 0
      BY <1>2 DEF SpoolInv, CountInv, TypeOK
    <2>3. Numbered' = Numbered \cup {c}
      BY <1>3, <2>2 DEF Numbered
    <2>4. Numbered' \subseteq Clients
      BY <2>3 DEF Numbered
    <2>. QED  BY <2>1, <2>3, <2>4, PrintdAssumption, FS_AddElement, FS_Subset, FS_CardinalityType
  <1>5. nextjob \in Ids
    BY <1>2, <1>4, IdsFacts DEF SpoolInv, CountInv, TypeOK
  <1>6. \A d \in Clients : d # c /\ id[d] # 0 /\ Alone(d)' => Alone(d)
    BY <1>2, <1>3 DEF Alone
  <1>7. TypeOK'
    <2>1. /\ th' \in [Clients -> {"none", "add", "header", "number", "creat", "receive", "request",
                                  "write", "reply", "queue", "signal", "clean", "end"}]
          /\ id' \in [Clients -> Ids \cup {0}] /\ run' \in [Clients -> Nat] /\ nextjob' \in Nat
      BY <1>5 DEF SpoolInv, TypeOK, get_newjobno, Goto
    <2>. QED  BY <1>1, <2>1 DEF SpoolInv, TypeOK
  <1>8. CountInv'
    <2>1. /\ nextjob' <= Cardinality(Numbered') + 1 /\ jobno <= Cardinality(Numbered') + 1
          /\ nextjob' >= 1 /\ nextjob' >= jobno
      BY <1>1, <1>2, <1>4 DEF SpoolInv, CountInv, TypeOK
    <2>2. ASSUME NEW d \in Clients
          PROVE  run'[d] <= downs /\ (id'[d] # 0 /\ run'[d] = downs => id'[d] < nextjob')
      <3>1. CASE d = c
        BY <1>1, <1>3, <3>1 DEF SpoolInv, TypeOK
      <3>2. CASE d # c
        <4>1. id[d] \in Nat
          BY IdsFacts DEF SpoolInv, TypeOK
        <4>. QED  BY <1>1, <1>3, <3>2, <4>1 DEF SpoolInv, TypeOK, CountInv
      <3>. QED  BY <3>1, <3>2
    <2>. QED  BY <1>1, <1>2, <2>1, <2>2 DEF CountInv
  <1>9. UpInv'
    BY <1>1, <1>2 DEF SpoolInv, UpInv
  <1>10. QueueInv'
    <2>1. ASSUME NEW q \in Job, JobOK(q)
          PROVE  JobOK(q)'
      <3>1. q.of \in Clients /\ q.of # c /\ id[q.of] # 0
        BY <1>1, <2>1, IdsFacts DEF JobOK, Job
      <3>. QED  BY <1>1, <1>3, <1>6, <2>1, <3>1 DEF JobOK
    <2>. QED  BY <1>1, <2>1, QueueFacts DEF QueueInv
  <1>11. DocInv'
    <2>1. \A d \in Clients : d # c => (Stored(d)' <=> Stored(d)) /\ (Printed(d)' <=> Printed(d))
      BY <1>1, <1>3 DEF Stored, Printed
    <2>2. \A j \in Ids : data[j] # NULL => id'[data[j].by] = j
      <3>1. \A j \in Ids : data[j] # NULL => data[j].by \in Clients /\ data[j].by # c
        BY <1>2, IdsFacts DEF SpoolInv, DocInv, TypeOK
      <3>. QED  BY <1>3, <3>1 DEF SpoolInv, DocInv
    <2>3. \A j \in Ids : reqs[j] \in Clients => id'[reqs[j]] = j /\ th'[reqs[j]] \in Written
      BY <1>1, <1>3 DEF SpoolInv, DocInv, Written
    <2>4. ASSUME NEW d \in Clients, d # c
          PROVE  /\ th'[d] \in Early => id'[d] = 0
                 /\ th'[d] \in Early \cup {"creat"} => len'[d] = 0
                 /\ th'[d] \notin Early \cup {"clean", "end"} => id'[d] # 0
                 /\ out'[d] = "acked" => th'[d] \in {"queue", "signal", "clean", "end"} /\ id'[d] # 0
                 /\ th'[d] \in {"receive", "request", "write"} /\ Alone(d)' => data'[id'[d]] # NULL
                 /\ th'[d] = "reply" \/ out'[d] = "acked" => (Alone(d)' => Stored(d)' \/ Printed(d)')
                 /\ th'[d] = "queue" => out'[d] = "acked"
      BY <1>1, <1>3, <1>6, <2>1, <2>4 DEF SpoolInv, DocInv, Early
    <2>5. /\ th'[c] = "creat" /\ len'[c] = 0 /\ out'[c] # "acked" /\ id'[c] # 0
      BY <1>1, <1>3, <1>5, IdsFacts DEF SpoolInv, DocInv, Early
    <2>. QED  BY <1>1, <2>2, <2>3, <2>4, <2>5 DEF SpoolInv, DocInv, Early
  <1>12. PrintInv'
    <2>1. \A x \in printed : x.of \in Clients /\ x.of # c
      BY <1>1 DEF SpoolInv, PrintInv, TypeOK
    <2>2. job # NULL => job.of \in Clients /\ job.of # c /\ id[job.of] # 0
      BY <1>1, IdsFacts, QueueFacts DEF JobOK, Job
    <2>3. pt \in {"send", "unlink", "unlink_request"} => job # NULL
      BY DEF SpoolInv, TypeOK
    <2>4. \A d \in Clients : Printed(d)' <=> Printed(d)
      BY <1>1 DEF Printed
    <2>. QED  BY <1>1, <1>3, <1>6, <2>1, <2>2, <2>3, <2>4 DEF SpoolInv, PrintInv
  <1>. QED  BY <1>7, <1>8, <1>9, <1>10, <1>11, <1>12 DEF SpoolInv

\* Steps in which a client's thread receives: it touches only the files of its own
\* number, and no document it shares that number with is counted on.
LEMMA FileSteps ==
    ASSUME SpoolInv, TypeOK', NEW c \in Clients,
           UNCHANGED <<jobno, up, todo, nextjob, queue, job, pt, id, run, printed, downs>>,
           th[c] \in {"creat", "receive", "request", "write"},
           \A d \in Clients \ {c} : th'[d] = th[d] /\ out'[d] = out[d] /\ len'[d] = len[d],
           \A j \in Ids : j # id[c] => data'[j] = data[j] /\ reqs'[j] = reqs[j],
           \/ data'[id[c]] = NULL
           \/ data'[id[c]] = [by |-> c, n |-> len'[c]]
           \/ data'[id[c]] = data[id[c]] /\ (data[id[c]].by # c \/ len'[c] = len[c]),
           \/ reqs'[id[c]] \in {"empty", NULL}
           \/ reqs'[id[c]] = c /\ th'[c] = "reply"
           \/ reqs'[id[c]] = reqs[id[c]],
           th'[c] \in {"receive", "request", "write", "reply", "clean"},
           out'[c] # "acked",
           th'[c] \in {"receive", "request", "write"} /\ Alone(c) => data'[id[c]] # NULL,
           th'[c] = "reply" /\ Alone(c) => Stored(c)'
    PROVE  SpoolInv'
  <1>. USE SameAlone
  <1>1. id[c] # 0 /\ id[c] \in Ids /\ up = "serve" /\ todo = {}
    <2>1. id[c] # 0 /\ up = "serve"
      BY DEF SpoolInv, DocInv, UpInv, Early
    <2>. QED  BY <2>1 DEF SpoolInv, UpInv, TypeOK
  <1>2. \A d \in Clients : d # c /\ Alone(d) => id[d] # id[c]
    BY DEF Alone
  <1>3. \A d \in Clients : id[d] # 0 => id[d] \in Ids
    BY DEF SpoolInv, TypeOK
  <1>4. CountInv'
    BY SameNumbered DEF SpoolInv, CountInv
  <1>5. UpInv'
    BY <1>1 DEF UpInv
  <1>6. QueueInv'
    <2>1. ASSUME NEW q \in Job, JobOK(q)
          PROVE  JobOK(q)'
      <3>1. q.of \in Clients /\ q.of # c /\ q.id \in Ids /\ id[q.of] = q.id
        BY <2>1 DEF JobOK, Job
      <3>. QED  BY <1>2, <2>1, <3>1 DEF JobOK
    <2>. QED  BY <2>1, QueueFacts DEF QueueInv
  <1>7. DocInv'
    <2>1. ASSUME NEW d \in Clients, d # c, id[d] # id[c], id[d] # 0
          PROVE  (Stored(d)' <=> Stored(d)) /\ (Printed(d)' <=> Printed(d))
      BY <1>3, <2>1 DEF Stored, Printed
    <2>2. ASSUME NEW j \in Ids, data'[j] # NULL
          PROVE  id[data'[j].by] = j /\ data'[j].n = len'[data'[j].by]
      <3>1. CASE j # id[c]
        <4>1. data'[j] = data[j] /\ data[j].by \in Clients /\ id[data[j].by] = j
              /\ data[j].n = len[data[j].by]
          BY <2>2, <3>1 DEF SpoolInv, DocInv, TypeOK
        <4>. QED  BY <3>1, <4>1
      <3>2. CASE j = id[c] /\ data'[j] = [by |-> c, n |-> len'[c]]
        BY <3>2
      <3>3. CASE j = id[c] /\ data'[j] = data[j] /\ (data[j].by # c \/ len'[c] = len[c])
        <4>1. data[j].by \in Clients /\ id[data[j].by] = j /\ data[j].n = len[data[j].by]
          BY <2>2, <3>3 DEF SpoolInv, DocInv, TypeOK
        <4>. QED  BY <3>3, <4>1
      <3>. QED  BY <2>2, <3>1, <3>2, <3>3
    <2>3. ASSUME NEW j \in Ids, reqs'[j] \in Clients
          PROVE  id[reqs'[j]] = j /\ th'[reqs'[j]] \in Written
      <3>1. CASE reqs'[j] = reqs[j]
        <4>1. id[reqs[j]] = j /\ th[reqs[j]] \in Written /\ reqs[j] # c
          BY <2>3, <3>1 DEF SpoolInv, DocInv, Written
        <4>. QED  BY <2>3, <3>1, <4>1
      <3>2. CASE j = id[c] /\ reqs'[j] = c /\ th'[c] = "reply"
        BY <3>2 DEF Written
      <3>. QED  BY <2>3, <3>1, <3>2, PrintdAssumption
    <2>4. ASSUME NEW d \in Clients, d # c
          PROVE  /\ th'[d] \in Early => id'[d] = 0
                 /\ th'[d] \in Early \cup {"creat"} => len'[d] = 0
                 /\ th'[d] \notin Early \cup {"clean", "end"} => id'[d] # 0
                 /\ out'[d] = "acked" => th'[d] \in {"queue", "signal", "clean", "end"} /\ id'[d] # 0
                 /\ th'[d] \in {"receive", "request", "write"} /\ Alone(d) => data'[id'[d]] # NULL
                 /\ th'[d] = "reply" \/ out'[d] = "acked" => (Alone(d) => Stored(d)' \/ Printed(d)')
                 /\ th'[d] = "queue" => out'[d] = "acked"
      <3>1. /\ th[d] \in Early => id[d] = 0
            /\ th[d] \in Early \cup {"creat"} => len[d] = 0
            /\ th[d] \notin Early \cup {"clean", "end"} => id[d] # 0
            /\ out[d] = "acked" => th[d] \in {"queue", "signal", "clean", "end"} /\ id[d] # 0
            /\ th[d] \in {"receive", "request", "write"} /\ Alone(d) => data[id[d]] # NULL
            /\ th[d] = "reply" \/ out[d] = "acked" => (Alone(d) => Stored(d) \/ Printed(d))
            /\ th[d] = "queue" => out[d] = "acked"
        BY DEF SpoolInv, DocInv
      <3>. QED  BY <1>2, <1>3, <2>1, <2>4, <3>1 DEF Early
    <2>. QED  BY <1>1, <2>2, <2>3, <2>4 DEF DocInv, Early
  <1>8. PrintInv'
    <2>1. \A x \in printed : x.of \in Clients /\ x.of # c
      BY DEF SpoolInv, PrintInv, TypeOK
    <2>2. job # NULL => job.of \in Clients /\ job.of # c /\ id[job.of] = job.id /\ job.id \in Ids
      BY QueueFacts DEF JobOK, Job
    <2>3. pt \in {"send", "unlink", "unlink_request"} => job # NULL
      BY DEF SpoolInv, TypeOK
    <2>4. \A d \in Clients : d # c => (Printed(d)' <=> Printed(d))
      BY DEF Printed
    <2>. QED  BY <1>2, <2>1, <2>2, <2>3, <2>4 DEF SpoolInv, PrintInv
  <1>. QED  BY <1>4, <1>5, <1>6, <1>7, <1>8 DEF SpoolInv

\* While a document is received its daemon serves, and its client knows nothing.
LEMMA Receiving ==
    ASSUME SpoolInv, NEW c \in Clients, th[c] \in {"creat", "receive", "request", "write"}
    PROVE  /\ id[c] # 0 /\ id[c] \in Ids /\ up = "serve" /\ out[c] # "acked"
           /\ th[c] = "creat" => len[c] = 0
           /\ th[c] # "creat" /\ Alone(c) => data[id[c]] # NULL
  <1>1. id[c] # 0 /\ out[c] # "acked" /\ (th[c] = "creat" => len[c] = 0)
    BY DEF SpoolInv, DocInv, Early
  <1>2. up = "serve"
    BY DEF SpoolInv, UpInv
  <1>3. id[c] \in Ids
    BY <1>1 DEF SpoolInv, TypeOK
  <1>4. th[c] # "creat" /\ Alone(c) => data[id[c]] # NULL
    BY DEF SpoolInv, DocInv
  <1>. QED  BY <1>1, <1>2, <1>3, <1>4

\* A thread that fails takes its files with it, and its client is told.
LEMMA Failures ==
    ASSUME SpoolInv, NEW c \in Clients,
           th[c] \in {"receive", "request", "write"},
           data' = [data EXCEPT ![id[c]] = NULL],
           reqs' = reqs \/ reqs' = [reqs EXCEPT ![id[c]] = NULL],
           Goto(c, "clean"), Tell(c, "rejected"),
           UNCHANGED <<daemon, jobno, nextjob, queue, list, id, len, run>>
    PROVE  SpoolInv'
  <1>. USE DEF daemon, printer
  <1>1. id[c] \in Ids
    BY Receiving
  <1>2. /\ th'[c] = "clean" /\ out'[c] = "rejected"
        /\ \A d \in Clients \ {c} : th'[d] = th[d] /\ out'[d] = out[d] /\ len'[d] = len[d]
    BY DEF SpoolInv, TypeOK, Goto, Tell
  <1>3. /\ data'[id[c]] = NULL /\ reqs'[id[c]] \in {reqs[id[c]], NULL}
        /\ \A j \in Ids : j # id[c] => data'[j] = data[j] /\ reqs'[j] = reqs[j]
    BY <1>1 DEF SpoolInv, TypeOK
  <1>4. TypeOK'
    <2>1. /\ th' \in [Clients -> {"none", "add", "header", "number", "creat", "receive", "request",
                                  "write", "reply", "queue", "signal", "clean", "end"}]
          /\ out' \in [Clients -> {"none", "rejected", "acked"}]
      BY DEF SpoolInv, TypeOK, Goto, Tell
    <2>2. /\ data' \in [Ids -> [by : Clients, n : 0 .. Parts] \cup {NULL}]
          /\ reqs' \in [Ids -> Clients \cup {"empty", NULL}]
      BY <1>1 DEF SpoolInv, TypeOK
    <2>. QED  BY <2>1, <2>2 DEF SpoolInv, TypeOK
  <1>. QED  BY <1>2, <1>3, <1>4, FileSteps

\* Creating the data file keeps the invariant: its number is new.
LEMMA CreatDataKeeps ==
    ASSUME SpoolInv, NEW c \in Clients, CreatData(c)
    PROVE  SpoolInv'
  <1>. USE DEF daemon, printer, docs, disk, list
  <1>1. th[c] = "creat" /\ id[c] \in Ids /\ len[c] = 0 /\ up = "serve" /\ out[c] # "acked"
    BY Receiving DEF CreatData
  <1>2. UNCHANGED <<jobno, reqs, nextjob, queue, up, todo, reread, pt, job, printed, downs,
                    id, len, run>>
    BY DEF CreatData
  <1>3. CASE data' = [data EXCEPT ![id[c]] = [by |-> c, n |-> 0]] /\ Goto(c, "receive")
             /\ UNCHANGED docs
    <2>1. /\ th'[c] = "receive" /\ out' = out
          /\ \A d \in Clients \ {c} : th'[d] = th[d] /\ out'[d] = out[d] /\ len'[d] = len[d]
      BY <1>3 DEF SpoolInv, TypeOK, Goto
    <2>2. /\ data'[id[c]] = [by |-> c, n |-> len'[c]] /\ data'[id[c]] # NULL
          /\ \A j \in Ids : j # id[c] => data'[j] = data[j]
      <3>1. data'[id[c]] = [by |-> c, n |-> 0]
        BY <1>1, <1>3 DEF SpoolInv, TypeOK
      <3>2. [by |-> c, n |-> 0] \in [by : Clients, n : Nat]
        OBVIOUS
      <3>. QED  BY <1>1, <1>3, <3>1, <3>2, PrintdAssumption DEF SpoolInv, TypeOK
    <2>3. TypeOK'
      <3>1. th' \in [Clients -> {"none", "add", "header", "number", "creat", "receive", "request",
                                 "write", "reply", "queue", "signal", "clean", "end"}]
        BY <1>3 DEF SpoolInv, TypeOK, Goto
      <3>2. data' \in [Ids -> [by : Clients, n : 0 .. Parts] \cup {NULL}]
        <4>1. [by |-> c, n |-> 0] \in [by : Clients, n : 0 .. Parts]
          BY PrintdAssumption
        <4>. QED  BY <1>1, <1>3, <4>1 DEF SpoolInv, TypeOK
      <3>. QED  BY <1>2, <1>3, <3>1, <3>2 DEF SpoolInv, TypeOK
    <2>. QED  BY <1>1, <1>2, <2>1, <2>2, <2>3, FileSteps
  <1>4. CASE Goto(c, "clean") /\ Tell(c, "rejected") /\ UNCHANGED <<data, id, len, run>>
    <2>1. /\ th'[c] = "clean" /\ out'[c] = "rejected"
          /\ \A d \in Clients \ {c} : th'[d] = th[d] /\ out'[d] = out[d] /\ len'[d] = len[d]
      BY <1>4 DEF SpoolInv, TypeOK, Goto, Tell
    <2>2. TypeOK'
      <3>1. /\ th' \in [Clients -> {"none", "add", "header", "number", "creat", "receive", "request",
                                    "write", "reply", "queue", "signal", "clean", "end"}]
            /\ out' \in [Clients -> {"none", "rejected", "acked"}]
        BY <1>4 DEF SpoolInv, TypeOK, Goto, Tell
      <3>. QED  BY <1>2, <1>4, <3>1 DEF SpoolInv, TypeOK
    <2>. QED  BY <1>1, <1>2, <1>4, <2>1, <2>2, FileSteps
  <1>. QED  BY <1>3, <1>4 DEF CreatData

\* Writing a part of the document keeps the invariant.
LEMMA ReceivePartKeeps ==
    ASSUME SpoolInv, NEW c \in Clients, ReceivePart(c)
    PROVE  SpoolInv'
  <1>. USE DEF daemon, printer, disk
  <1>1. th[c] = "receive" /\ id[c] \in Ids /\ out[c] # "acked" /\ len[c] \in Nat /\ len[c] < Parts
    BY Receiving DEF ReceivePart, SpoolInv, TypeOK
  <1>2. UNCHANGED <<jobno, reqs, nextjob, queue, up, todo, reread, pt, job, printed, downs,
                    id, run>>
    BY DEF ReceivePart
  <1>3. CASE /\ len' = [len EXCEPT ![c] = @ + 1] /\ UNCHANGED <<th, out>>
             /\ data' = IF Linked(c) THEN [data EXCEPT ![id[c]].n = len[c] + 1] ELSE data
    <2>1. /\ len'[c] = len[c] + 1 /\ len' \in [Clients -> 0 .. Parts]
          /\ \A d \in Clients \ {c} : len'[d] = len[d]
      BY <1>1, <1>3, PrintdAssumption DEF SpoolInv, TypeOK
    <2>2. CASE Linked(c)
      <3>1. data[id[c]] \in [by : Clients, n : 0 .. Parts] /\ data[id[c]].by = c
        BY <1>1, <2>2 DEF Linked, SpoolInv, TypeOK
      <3>2. [data[id[c]] EXCEPT !.n = len[c] + 1] = [by |-> c, n |-> len'[c]]
        BY <2>1, <3>1
      <3>3. data' = [data EXCEPT ![id[c]] = [by |-> c, n |-> len'[c]]]
        BY <1>1, <1>3, <2>2, <3>2 DEF SpoolInv, TypeOK
      <3>4. [by |-> c, n |-> len'[c]] \in [by : Clients, n : 0 .. Parts]
        BY <2>1
      <3>5. [by |-> c, n |-> len'[c]] \in [by : Clients, n : Nat]
        BY <1>1, <2>1
      <3>6. data' \in [Ids -> [by : Clients, n : 0 .. Parts] \cup {NULL}]
        BY <1>1, <3>3, <3>4 DEF SpoolInv, TypeOK
      <3>7. TypeOK'
        BY <1>2, <1>3, <2>1, <3>6 DEF SpoolInv, TypeOK
      <3>8. /\ data'[id[c]] = [by |-> c, n |-> len'[c]] /\ data'[id[c]] # NULL
            /\ \A j \in Ids : j # id[c] => data'[j] = data[j]
        BY <1>1, <3>3, <3>5, PrintdAssumption DEF SpoolInv, TypeOK
      <3>. QED  BY <1>1, <1>2, <1>3, <2>1, <3>7, <3>8, FileSteps
    <2>3. CASE ~Linked(c)
      <3>1. data' = data /\ (data[id[c]] = NULL \/ data[id[c]].by # c)
        BY <1>3, <2>3 DEF Linked
      <3>2. TypeOK'
        BY <1>2, <1>3, <2>1, <3>1 DEF SpoolInv, TypeOK
      <3>3. Alone(c) => data[id[c]] # NULL
        BY <1>1 DEF SpoolInv, DocInv
      <3>. QED  BY <1>1, <1>2, <1>3, <2>1, <3>1, <3>2, <3>3, FileSteps
    <2>. QED  BY <2>2, <2>3
  <1>4. CASE /\ data' = [data EXCEPT ![id[c]] = NULL]
             /\ Goto(c, "clean") /\ Tell(c, "rejected") /\ UNCHANGED len
    BY <1>1, <1>2, <1>4, Failures DEF ReceivePart
  <1>. QED  BY <1>3, <1>4 DEF ReceivePart

\* The control file keeps the invariant, also when it fails and the data file goes.
LEMMA CreatRequestKeeps ==
    ASSUME SpoolInv, NEW c \in Clients, CreatRequest(c)
    PROVE  SpoolInv'
  <1>. USE DEF daemon, printer, docs, disk
  <1>1. th[c] = "request" /\ id[c] \in Ids /\ out[c] # "acked"
        /\ (Alone(c) => data[id[c]] # NULL)
    BY Receiving DEF CreatRequest
  <1>2. UNCHANGED <<jobno, nextjob, queue, up, todo, reread, pt, job, printed, downs,
                    id, len, run>>
    BY DEF CreatRequest
  <1>3. CASE /\ reqs' = [reqs EXCEPT ![id[c]] = "empty"] /\ Goto(c, "write")
             /\ UNCHANGED <<data, docs>>
    <2>1. /\ th'[c] = "write" /\ out' = out /\ \A d \in Clients \ {c} : th'[d] = th[d]
          /\ reqs'[id[c]] = "empty" /\ \A j \in Ids : j # id[c] => reqs'[j] = reqs[j]
      BY <1>1, <1>3 DEF SpoolInv, TypeOK, Goto
    <2>2. TypeOK'
      <3>1. /\ th' \in [Clients -> {"none", "add", "header", "number", "creat", "receive", "request",
                                    "write", "reply", "queue", "signal", "clean", "end"}]
            /\ reqs' \in [Ids -> Clients \cup {"empty", NULL}]
        BY <1>1, <1>3 DEF SpoolInv, TypeOK, Goto
      <3>. QED  BY <1>2, <1>3, <3>1 DEF SpoolInv, TypeOK
    <2>. QED  BY <1>1, <1>2, <1>3, <2>1, <2>2, FileSteps
  <1>4. CASE /\ data' = [data EXCEPT ![id[c]] = NULL]
             /\ Goto(c, "clean") /\ Tell(c, "rejected") /\ UNCHANGED <<reqs, id, len, run>>
    BY <1>1, <1>4, Failures DEF CreatRequest
  <1>. QED  BY <1>3, <1>4 DEF CreatRequest

\* Where the number is the document's own, so is the data file; with the request
\* the document is stored.
LEMMA WriteRequestKeeps ==
    ASSUME SpoolInv, NEW c \in Clients, WriteRequest(c)
    PROVE  SpoolInv'
  <1>. USE DEF daemon, printer, docs, disk
  <1>1. th[c] = "write" /\ id[c] \in Ids /\ out[c] # "acked"
        /\ (Alone(c) => data[id[c]] # NULL)
    BY Receiving DEF WriteRequest
  <1>2. UNCHANGED <<jobno, nextjob, queue, up, todo, reread, pt, job, printed, downs,
                    id, len, run>>
    BY DEF WriteRequest
  <1>3. CASE /\ reqs' = [reqs EXCEPT ![id[c]] = c] /\ Goto(c, "reply")
             /\ UNCHANGED <<data, docs>>
    <2>1. /\ th'[c] = "reply" /\ out' = out /\ \A d \in Clients \ {c} : th'[d] = th[d]
          /\ reqs'[id[c]] = c /\ \A j \in Ids : j # id[c] => reqs'[j] = reqs[j]
      BY <1>1, <1>3 DEF SpoolInv, TypeOK, Goto
    <2>2. TypeOK'
      <3>1. /\ th' \in [Clients -> {"none", "add", "header", "number", "creat", "receive", "request",
                                    "write", "reply", "queue", "signal", "clean", "end"}]
            /\ reqs' \in [Ids -> Clients \cup {"empty", NULL}]
        BY <1>1, <1>3 DEF SpoolInv, TypeOK, Goto
      <3>. QED  BY <1>2, <1>3, <3>1 DEF SpoolInv, TypeOK
    <2>3. ASSUME Alone(c) PROVE Stored(c)'
      <3>1. data[id[c]] \in [by : Clients, n : 0 .. Parts]
        BY <1>1, <2>3 DEF SpoolInv, TypeOK
      <3>2. id[data[id[c]].by] = id[c] /\ data[id[c]].n = len[data[id[c]].by]
        BY <1>1, <2>3 DEF SpoolInv, DocInv
      <3>3. data[id[c]].by = c
        BY <2>3, <3>1, <3>2 DEF Alone
      <3>4. data[id[c]] = [by |-> c, n |-> len[c]]
        BY <3>1, <3>2, <3>3
      <3>. QED  BY <1>2, <1>3, <2>1, <3>4 DEF Stored
    <2>. QED  BY <1>1, <1>2, <1>3, <2>1, <2>2, <2>3, FileSteps
  <1>4. CASE /\ data' = [data EXCEPT ![id[c]] = NULL] /\ reqs' = [reqs EXCEPT ![id[c]] = NULL]
             /\ Goto(c, "clean") /\ Tell(c, "rejected") /\ UNCHANGED <<id, len, run>>
    BY <1>1, <1>4, Failures DEF WriteRequest
  <1>. QED  BY <1>3, <1>4 DEF WriteRequest

\* A job is queued with its request on the disk.
LEMMA AddJobKeeps ==
    ASSUME SpoolInv, NEW c \in Clients, AddJob(c)
    PROVE  SpoolInv'
  <1>. USE SameAlone DEF daemon, disk, list, printer, docs
  <1>1. /\ UNCHANGED <<jobno, data, reqs, nextjob, up, todo, job, pt, id, len, out, run, printed,
                       downs>>
        /\ th[c] = "queue"
    BY DEF AddJob
  <1>2. th'[c] = "signal" /\ \A d \in Clients : d # c => th'[d] = th[d]
    BY DEF AddJob, Goto, SpoolInv, TypeOK
  <1>3. id[c] # 0 /\ out[c] = "acked" /\ up = "serve"
    BY <1>1 DEF SpoolInv, DocInv, UpInv, Early
  <1>4. id[c] \in Ids
    BY <1>3 DEF SpoolInv, TypeOK
  <1>5. PICK q : q = [id |-> id[c], of |-> c]
    OBVIOUS
  <1>6. q \in Job /\ q.id = id[c] /\ q.of = c
    BY <1>4, <1>5 DEF Job
  <1>7. queue' = Append(queue, q)
    BY <1>5 DEF AddJob
  <1>8. TypeOK'
    <2>1. queue' \in Seq(Job)
      BY <1>6, <1>7 DEF SpoolInv, TypeOK
    <2>2. th' \in [Clients -> {"none", "add", "header", "number", "creat", "receive", "request",
                               "write", "reply", "queue", "signal", "clean", "end"}]
      BY DEF AddJob, Goto, SpoolInv, TypeOK
    <2>. QED  BY <1>1, <2>1, <2>2 DEF SpoolInv, TypeOK
  <1>9. CountInv'
    BY <1>1, SameNumbered DEF SpoolInv, CountInv
  <1>10. UpInv'
    BY <1>1, <1>3 DEF SpoolInv, UpInv
  <1>11. QueueInv'
    <2>1. \A p : p \in Job /\ JobOK(p) => JobOK(p)'
      BY <1>1, <1>2 DEF JobOK, Job
    <2>2. JobOK(q)'
      <3>1. Alone(c) => reqs[id[c]] = c
        <4>1. ~Printed(c)
          <5>. DEFINE x == [of |-> c, by |-> c, n |-> len[c]]
          <5>1. x.of = c
            OBVIOUS
          <5>. HIDE DEF x
          <5>2. x \notin printed
            BY <1>1, <5>1 DEF SpoolInv, PrintInv
          <5>. QED  BY <5>2 DEF Printed, x
        <4>. QED  BY <1>3, <4>1 DEF SpoolInv, DocInv, Stored
      <3>2. todo = {}
        BY <1>3 DEF SpoolInv, UpInv
      <3>. QED  BY <1>1, <1>2, <1>5, <1>6, <3>1, <3>2 DEF JobOK
    <2>3. ASSUME NEW i \in DOMAIN queue'
          PROVE  (i \in DOMAIN queue /\ queue'[i] = queue[i]) \/ queue'[i] = q
      BY <1>7, <2>3 DEF SpoolInv, TypeOK
    <2>4. (\A i \in DOMAIN queue : JobOK(queue[i]))'
      BY <2>1, <2>2, <2>3, QueueFacts
    <2>. QED  BY <1>1, <2>1, <2>4, QueueFacts DEF QueueInv
  <1>12. DocInv'
    <2>1. \A d \in Clients : /\ Stored(d)' <=> Stored(d)
                             /\ Printed(d)' <=> Printed(d)
      BY <1>1 DEF Stored, Printed
    <2>2. \A j \in Ids : reqs[j] \in Clients => id[reqs[j]] = j /\ th'[reqs[j]] \in Written
      BY <1>2 DEF SpoolInv, DocInv, Written
    <2>. QED  BY <1>1, <1>2, <1>3, <2>1, <2>2 DEF SpoolInv, DocInv, Early
  <1>13. PrintInv'
    <2>1. \A d \in Clients : Printed(d)' <=> Printed(d)
      BY <1>1 DEF Printed
    <2>2. pt \in {"send", "unlink", "unlink_request"} => job.of \in Clients
      BY DEF SpoolInv, TypeOK, Job
    <2>3. \A x \in printed : x.of \in Clients
      BY DEF SpoolInv, TypeOK
    <2>. QED  BY <1>1, <1>2, <2>1, <2>2, <2>3 DEF SpoolInv, PrintInv
  <1>. QED  BY <1>8, <1>9, <1>10, <1>11, <1>12, <1>13 DEF SpoolInv

\* The printer thread leaves the clients' threads and the numbers alone.
LEMMA PrinterFrame ==
    ASSUME SpoolInv, up # "down", UNCHANGED main, jobno' \in {jobno, nextjob},
           \A j \in todo : reqs'[j] = reqs[j]
    PROVE  CountInv' /\ UpInv'
  <1>. USE DEF main, docs
  <1>1. CountInv'
    BY SameNumbered DEF SpoolInv, CountInv, TypeOK
  <1>2. UpInv'
    BY DEF SpoolInv, UpInv
  <1>. QED  BY <1>1, <1>2

\* What is unchanged with the files and what was printed.
LEMMA SameFiles ==
    ASSUME SpoolInv, UNCHANGED <<data, reqs, th, id, len, out>>, printed \subseteq printed'
    PROVE  DocInv'
  <1>1. \A c \in Clients : (Stored(c)' <=> Stored(c)) /\ (Printed(c) => Printed(c)')
    BY DEF Stored, Printed
  <1>. QED  BY <1>1, SameAlone DEF SpoolInv, DocInv

\* The printer thread holds a job from Pick on, in a daemon that runs.
LEMMA Picked ==
    ASSUME SpoolInv, pt \notin {"none", "ready", "asleep"}
    PROVE  /\ job \in Job /\ JobOK(job) /\ up # "down"
           /\ job.of \in Clients /\ job.id \in Ids /\ id[job.of] = job.id
           /\ th[job.of] \in {"signal", "clean", "end"} /\ job.id \notin todo
  <1>1. job # NULL /\ up # "down"
    BY DEF SpoolInv, TypeOK
  <1>2. job \in Job /\ JobOK(job)
    BY <1>1, QueueFacts
  <1>. QED  BY <1>1, <1>2 DEF JobOK, Job

\* Taking the first job of the queue to the printer keeps the invariant.
LEMMA PickKeeps == ASSUME SpoolInv, Pick
                   PROVE  SpoolInv'
  <1>. USE SameAlone DEF main, disk, docs
  <1>1. /\ UNCHANGED <<jobno, data, reqs, th, id, len, out, printed, todo, up>>
        /\ pt = "ready" /\ pt' = "jobno" /\ up # "down"
    BY DEF Pick, SpoolInv, TypeOK
  <1>2. /\ queue # <<>> /\ queue \in Seq(Job) /\ job' = Head(queue) /\ queue' = Tail(queue)
    BY DEF Pick, SpoolInv, TypeOK
  <1>3. /\ 1 \in DOMAIN queue /\ job' = queue[1] /\ queue' \in Seq(Job)
        /\ \A i \in DOMAIN queue' : i + 1 \in DOMAIN queue /\ queue'[i] = queue[i + 1]
    BY <1>2
  <1>4. job' \in Job /\ job' # NULL
    <2>1. queue[1] \in Job
      BY <1>2, <1>3
    <2>2. queue[1] \in [id : Nat, of : Clients]
      BY <2>1, IdsFacts DEF Job
    <2>. QED  BY <1>3, <2>1, <2>2, PrintdAssumption
  <1>5. TypeOK'
    BY <1>1, <1>3, <1>4 DEF Pick, SpoolInv, TypeOK
  <1>6. QueueInv'
    <2>1. \A q : JobOK(q) => JobOK(q)'
      BY <1>1 DEF JobOK
    <2>2. (\A i \in DOMAIN queue : JobOK(queue[i]))'
      BY <1>3, <2>1, QueueFacts
    <2>3. JobOK(job)'
      <3>1. PICK q : q = queue[1]
        OBVIOUS
      <3>2. JobOK(q)'
        BY <1>3, <2>1, <3>1, QueueFacts
      <3>. QED  BY <1>3, <3>1, <3>2 DEF JobOK
    <2>. QED  BY <2>2, <2>3 DEF QueueInv
  <1>7. PrintInv'
    BY <1>1 DEF SpoolInv, PrintInv
  <1>8. CountInv' /\ UpInv'
    BY <1>1, PrinterFrame DEF Pick
  <1>9. DocInv'
    BY <1>1, SameFiles
  <1>. QED  BY <1>5, <1>6, <1>7, <1>8, <1>9 DEF SpoolInv

\* Saving the next number in the job file keeps the invariant.
LEMMA update_jobnoKeeps == ASSUME SpoolInv, update_jobno
                           PROVE  SpoolInv'
  <1>. USE SameAlone DEF main, disk, docs
  <1>1. /\ UNCHANGED <<data, reqs, th, id, len, out, printed, todo, up, queue, job>>
        /\ pt = "jobno" /\ pt' = "config" /\ up # "down" /\ jobno' = nextjob
    BY DEF update_jobno, SpoolInv, TypeOK
  <1>2. TypeOK'
    BY <1>1 DEF update_jobno, SpoolInv, TypeOK
  <1>3. QueueInv'
    <2>1. \A q : JobOK(q) => JobOK(q)'
      BY <1>1 DEF JobOK
    <2>. QED  BY <1>1, <2>1 DEF SpoolInv, QueueInv
  <1>4. PrintInv'
    BY <1>1 DEF SpoolInv, PrintInv
  <1>5. CountInv' /\ UpInv'
    BY <1>1, PrinterFrame DEF update_jobno
  <1>6. DocInv'
    BY <1>1, SameFiles
  <1>. QED  BY <1>2, <1>3, <1>4, <1>5, <1>6 DEF SpoolInv

\* Opening the data file of the job keeps the invariant, also when it fails.
LEMMA OpenDataKeeps == ASSUME SpoolInv, OpenData
                       PROVE  SpoolInv'
  <1>. USE SameAlone DEF main, disk, docs
  <1>1. /\ UNCHANGED <<jobno, data, reqs, th, id, len, out, printed, todo, up, queue>>
        /\ pt = "open" /\ up # "down"
        /\ \/ pt' = "ready" /\ job' = NULL
           \/ pt' = "send" /\ job' = job /\ data[job.id] # NULL
    BY DEF OpenData, SpoolInv, TypeOK
  <1>2. TypeOK'
    BY <1>1 DEF OpenData, SpoolInv, TypeOK
  <1>3. QueueInv'
    <2>1. \A q : JobOK(q) => JobOK(q)'
      BY <1>1 DEF JobOK
    <2>. QED  BY <1>1, <2>1 DEF SpoolInv, QueueInv
  <1>4. PrintInv'
    BY <1>1 DEF SpoolInv, PrintInv
  <1>5. CountInv' /\ UpInv'
    BY <1>1, PrinterFrame DEF OpenData
  <1>6. DocInv'
    BY <1>1, SameFiles
  <1>. QED  BY <1>2, <1>3, <1>4, <1>5, <1>6 DEF SpoolInv

\* What is sent for a job is the document of its client, where the number is its own.
LEMMA SentRight ==
    ASSUME SpoolInv, pt = "send", data[job.id] # NULL
    PROVE  /\ Sent \in [of : Clients, by : Clients, n : 0 .. Parts] /\ Sent.of = job.of
           /\ Alone(job.of) => Sent = [of |-> job.of, by |-> job.of, n |-> len[job.of]]
  <1>1. job.of \in Clients /\ job.id \in Ids /\ id[job.of] = job.id
    BY Picked
  <1>2. data[job.id] \in [by : Clients, n : 0 .. Parts]
    BY <1>1 DEF SpoolInv, TypeOK
  <1>3. id[data[job.id].by] = job.id /\ data[job.id].n = len[data[job.id].by]
    BY <1>1 DEF SpoolInv, DocInv
  <1>4. Alone(job.of) => data[job.id].by = job.of
    BY <1>1, <1>2, <1>3 DEF Alone
  <1>. QED  BY <1>1, <1>2, <1>3, <1>4 DEF Sent

\* Once it is printed, it is among what came out of the printer.
LEMMA PrintedKeeps ==
    ASSUME SpoolInv, pt = "send", UNCHANGED <<th, id, len>>,
           \/ UNCHANGED printed
           \/ data[job.id] # NULL /\ printed' = printed \cup {Sent}
    PROVE  /\ printed' \subseteq [of : Clients, by : Clients, n : 0 .. Parts]
           /\ \A x \in printed' : /\ th[x.of] \in {"signal", "clean", "end"} /\ id[x.of] # 0
                                  /\ Alone(x.of) => x.by = x.of /\ x.n = len[x.of]
  <1>1. /\ printed \subseteq [of : Clients, by : Clients, n : 0 .. Parts]
        /\ \A x \in printed : /\ th[x.of] \in {"signal", "clean", "end"} /\ id[x.of] # 0
                              /\ Alone(x.of) => x.by = x.of /\ x.n = len[x.of]
    BY DEF SpoolInv, TypeOK, PrintInv
  <1>2. ASSUME NEW x, x = Sent, data[job.id] # NULL
        PROVE  /\ x \in [of : Clients, by : Clients, n : 0 .. Parts]
               /\ th[x.of] \in {"signal", "clean", "end"} /\ id[x.of] # 0
               /\ Alone(x.of) => x.by = x.of /\ x.n = len[x.of]
    <2>1. th[job.of] \in {"signal", "clean", "end"} /\ id[job.of] # 0
      BY Picked, IdsFacts
    <2>2. /\ x \in [of : Clients, by : Clients, n : 0 .. Parts] /\ x.of = job.of
          /\ Alone(job.of) => x = [of |-> job.of, by |-> job.of, n |-> len[job.of]]
      BY <1>2, SentRight
    <2>. QED  BY <2>1, <2>2
  <1>. QED  BY <1>1, <1>2

\* The printer's answer keeps the invariant: the job has been printed.
LEMMA PrinterOkKeeps == ASSUME SpoolInv, PrinterOk
                        PROVE  SpoolInv'
  <1>. USE SameAlone DEF main, disk, docs
  <1>1. /\ UNCHANGED <<jobno, data, reqs, th, id, len, out, todo, up, queue, job>>
        /\ pt = "send" /\ pt' = "unlink" /\ up # "down"
        /\ \/ data[job.id] = NULL /\ printed' = printed
           \/ data[job.id] # NULL /\ printed' = printed \cup {Sent}
    BY DEF PrinterOk, SpoolInv, TypeOK
  <1>2. /\ printed' \subseteq [of : Clients, by : Clients, n : 0 .. Parts]
        /\ \A x \in printed' : /\ th[x.of] \in {"signal", "clean", "end"} /\ id[x.of] # 0
                               /\ Alone(x.of) => x.by = x.of /\ x.n = len[x.of]
    BY <1>1, PrintedKeeps
  <1>3. TypeOK'
    BY <1>1, <1>2 DEF PrinterOk, SpoolInv, TypeOK
  <1>4. QueueInv'
    <2>1. \A q : JobOK(q) => JobOK(q)'
      BY <1>1 DEF JobOK
    <2>. QED  BY <1>1, <2>1 DEF SpoolInv, QueueInv
  <1>5. PrintInv'
    <2>1. Alone(job.of) => Printed(job.of)'
      BY <1>1, SentRight DEF SpoolInv, PrintInv, Printed
    <2>. QED  BY <1>1, <1>2, <2>1 DEF PrintInv
  <1>6. CountInv' /\ UpInv'
    BY <1>1, PrinterFrame DEF PrinterOk
  <1>7. DocInv'
    BY <1>1, SameFiles
  <1>. QED  BY <1>3, <1>4, <1>5, <1>6, <1>7 DEF SpoolInv

\* What the queue holds after a job is put in front of it.
LEMMA InFront ==
    ASSUME NEW q \in Job, NEW t \in Seq(Job)
    PROVE  \A r : r = <<q>> \o t =>
              /\ r \in Seq(Job)
              /\ \A i \in DOMAIN r : r[i] = q \/ \E k \in DOMAIN t : r[i] = t[k]
  <1>. SUFFICES ASSUME NEW r, NEW s, s = <<q>>, r = s \o t
                PROVE  /\ r \in Seq(Job)
                       /\ \A i \in DOMAIN r : r[i] = q \/ \E k \in DOMAIN t : r[i] = t[k]
    OBVIOUS
  <1>1. s \in Seq(Job) /\ Len(s) = 1 /\ s[1] = q
    OBVIOUS
  <1>2. r \in Seq(Job) /\ Len(r) = 1 + Len(t)
    BY <1>1, ConcatProperties
  <1>3. \A i \in 1 .. Len(r) : r[i] = IF i <= 1 THEN s[i] ELSE t[i - 1]
    BY <1>1, <1>2, ConcatProperties
  <1>4. ASSUME NEW i \in 1 .. Len(r), i # 1
        PROVE  i - 1 \in DOMAIN t
    BY <1>2, <1>4
  <1>5. DOMAIN r = 1 .. Len(r)
    BY <1>2
  <1>. QED  BY <1>1, <1>2, <1>3, <1>4, <1>5

\* Putting the job back in front of the queue keeps the invariant.
LEMMA DeferKeeps == ASSUME SpoolInv, Defer
                    PROVE  SpoolInv'
  <1>. USE SameAlone DEF main, disk, docs
  <1>1. /\ UNCHANGED <<jobno, data, reqs, th, id, len, out, todo, up>>
        /\ pt = "send" /\ pt' = "ready" /\ up # "down" /\ job' = NULL
        /\ queue' = <<job>> \o queue
        /\ \/ UNCHANGED printed
           \/ data[job.id] # NULL /\ printed' = printed \cup {Sent}
    BY DEF Defer, SpoolInv, TypeOK
  <1>2. /\ printed' \subseteq [of : Clients, by : Clients, n : 0 .. Parts]
        /\ \A x \in printed' : /\ th[x.of] \in {"signal", "clean", "end"} /\ id[x.of] # 0
                               /\ Alone(x.of) => x.by = x.of /\ x.n = len[x.of]
    BY <1>1, PrintedKeeps
  <1>3. PICK q : q = job
    OBVIOUS
  <1>4. q \in Job /\ JobOK(q)
    BY <1>1, <1>3, Picked
  <1>5. /\ queue' \in Seq(Job)
        /\ \A i \in DOMAIN queue' : queue'[i] = q \/ \E k \in DOMAIN queue : queue'[i] = queue[k]
    <2>1. queue \in Seq(Job)
      BY DEF SpoolInv, TypeOK
    <2>2. queue' = <<q>> \o queue
      BY <1>1, <1>3
    <2>3. \A r : r = <<q>> \o queue =>
              /\ r \in Seq(Job)
              /\ \A i \in DOMAIN r : r[i] = q \/ \E k \in DOMAIN queue : r[i] = queue[k]
      BY <1>4, <2>1, InFront
    <2>. QED  BY <2>2, <2>3
  <1>6. TypeOK'
    BY <1>1, <1>2, <1>5 DEF Defer, SpoolInv, TypeOK
  <1>7. QueueInv'
    <2>1. \A p : JobOK(p) => JobOK(p)'
      BY <1>1 DEF JobOK
    <2>2. (\A i \in DOMAIN queue : JobOK(queue[i]))'
      BY <1>4, <1>5, <2>1, QueueFacts
    <2>. QED  BY <1>1, <2>2 DEF QueueInv
  <1>8. PrintInv'
    BY <1>1, <1>2 DEF PrintInv
  <1>9. CountInv' /\ UpInv'
    BY <1>1, PrinterFrame DEF Defer
  <1>10. DocInv'
    BY <1>1, SameFiles
  <1>. QED  BY <1>6, <1>7, <1>8, <1>9, <1>10 DEF SpoolInv

\* A file goes only when its document has been printed.
LEMMA UnlinkKeeps == ASSUME SpoolInv, UnlinkData \/ UnlinkRequest
                     PROVE  SpoolInv'
  <1>. USE SameAlone DEF main, disk, docs
  <1>1. /\ UNCHANGED <<jobno, th, id, len, out, todo, up, queue, printed>>
        /\ pt \in {"unlink", "unlink_request"}
        /\ \/ pt' = "unlink_request" /\ job' = job
           \/ pt' = "ready" /\ job' = NULL
    BY DEF UnlinkData, UnlinkRequest
  <1>2. PICK q : q = job
    OBVIOUS
  <1>3. /\ q \in Job /\ JobOK(q) /\ up # "down"
        /\ q.of \in Clients /\ q.id \in Ids /\ id[q.of] = q.id
        /\ th[q.of] \in {"signal", "clean", "end"} /\ q.id \notin todo
        /\ Alone(q.of) => Printed(q.of)
    BY <1>1, <1>2, Picked DEF SpoolInv, PrintInv
  <1>4. /\ data' \in [Ids -> [by : Clients, n : 0 .. Parts] \cup {NULL}]
        /\ reqs' \in [Ids -> Clients \cup {"empty", NULL}]
        /\ \A j \in Ids : data'[j] # data[j] => j = q.id /\ data'[j] = NULL
        /\ \A j \in Ids : reqs'[j] # reqs[j] => j = q.id /\ reqs'[j] = NULL
    BY <1>1, <1>2, <1>3 DEF UnlinkData, UnlinkRequest, SpoolInv, TypeOK
  <1>5. TypeOK'
    BY <1>1, <1>4 DEF UnlinkData, UnlinkRequest, SpoolInv, TypeOK
  <1>6. QueueInv'
    <2>1. \A p \in Job : JobOK(p) => JobOK(p)'
      BY <1>1, <1>4 DEF JobOK, Job
    <2>. QED  BY <1>1, <2>1, QueueFacts DEF QueueInv
  <1>7. CountInv' /\ UpInv'
    <2>1. \A j \in todo : j \in Ids
      BY DEF SpoolInv, TypeOK
    <2>. QED  BY <1>1, <1>3, <1>4, <2>1, PrinterFrame DEF UnlinkData, UnlinkRequest
  <1>8. DocInv'
    <2>1. \A c \in Clients : Printed(c)' <=> Printed(c)
      BY <1>1 DEF Printed
    <2>2. ASSUME NEW c \in Clients, Alone(c), id[c] = q.id
          PROVE  c = q.of /\ Printed(c)
      BY <1>3, <2>2 DEF Alone
    <2>3. ASSUME NEW c \in Clients, id[c] # q.id, id[c] \in Ids
          PROVE  Stored(c) => Stored(c)'
      BY <1>1, <1>4, <2>3 DEF Stored
    <2>4. \A c \in Clients : id[c] # 0 => id[c] \in Ids
      BY DEF SpoolInv, TypeOK
    <2>5. ASSUME NEW c \in Clients
          PROVE  /\ th[c] \in {"receive", "request", "write"} /\ Alone(c) => data'[id[c]] # NULL
                 /\ th[c] = "reply" \/ out[c] = "acked" => (Alone(c) => Stored(c)' \/ Printed(c)')
      <3>1. th[c] \in {"receive", "request", "write"} /\ Alone(c) => data'[id[c]] # NULL
        <4>. SUFFICES ASSUME th[c] \in {"receive", "request", "write"}, Alone(c)
                      PROVE  data'[id[c]] # NULL
          OBVIOUS
        <4>1. data[id[c]] # NULL /\ id[c] \in Ids
          BY Receiving
        <4>2. id[c] # q.id
          BY <1>3, <2>2
        <4>. QED  BY <1>4, <4>1, <4>2
      <3>2. th[c] = "reply" \/ out[c] = "acked" => (Alone(c) => Stored(c)' \/ Printed(c)')
        <4>. SUFFICES ASSUME th[c] = "reply" \/ out[c] = "acked", Alone(c)
                      PROVE  Stored(c)' \/ Printed(c)'
          OBVIOUS
        <4>1. (Stored(c) \/ Printed(c)) /\ id[c] \in Ids
          BY <2>4 DEF SpoolInv, DocInv, Early
        <4>. QED  BY <2>1, <2>2, <2>3, <4>1
      <3>. QED  BY <3>1, <3>2
    <2>6. \A j \in Ids : data'[j] # NULL => data'[j] = data[j]
      BY <1>4
    <2>7. \A j \in Ids : reqs'[j] \in Clients => reqs'[j] = reqs[j]
      BY <1>4, PrintdAssumption
    <2>8. \A j \in Ids : data'[j] # NULL => id[data'[j].by] = j /\ data'[j].n = len[data'[j].by]
      BY <2>6 DEF SpoolInv, DocInv
    <2>9. \A j \in Ids : reqs'[j] \in Clients => id[reqs'[j]] = j /\ th[reqs'[j]] \in Written
      BY <2>7 DEF SpoolInv, DocInv
    <2>. QED  BY <1>1, <2>5, <2>8, <2>9 DEF SpoolInv, DocInv
  <1>9. PrintInv'
    <2>1. Alone(q.of) => Printed(q.of)'
      BY <1>1, <1>3 DEF Printed
    <2>. QED  BY <1>1, <1>2, <2>1 DEF SpoolInv, PrintInv
  <1>. QED  BY <1>5, <1>6, <1>7, <1>8, <1>9 DEF SpoolInv

-----------------------------------------------------------------------------
\* The invariant holds before the daemon has ever run.
LEMMA InitSpool == Init => SpoolInv
  <1>. SUFFICES ASSUME Init PROVE SpoolInv
    OBVIOUS
  <1>1. /\ \A c \in Clients : id[c] = 0 /\ len[c] = 0 /\ th[c] = "none" /\ out[c] = "none"
                              /\ run[c] = 0
        /\ \A j \in Ids : data[j] = NULL /\ reqs[j] = NULL
    BY DEF Init
  <1>2. TypeOK
    BY PrintdAssumption DEF Init, TypeOK
  <1>3. CountInv
    <2>1. Numbered = {}
      BY <1>1 DEF Numbered
    <2>. QED  BY <1>1, <2>1, FS_EmptySet DEF Init, CountInv
  <1>4. UpInv /\ QueueInv
    BY <1>1 DEF Init, UpInv, QueueInv
  <1>5. DocInv
    BY <1>1, PrintdAssumption DEF DocInv, Early
  <1>6. PrintInv
    BY DEF Init, PrintInv
  <1>. QED  BY <1>2, <1>3, <1>4, <1>5, <1>6 DEF SpoolInv

\* The invariant depends on the variables only.
LEMMA StutterSpool == SpoolInv /\ UNCHANGED vars => SpoolInv'
  <1>. SUFFICES ASSUME SpoolInv, UNCHANGED vars PROVE SpoolInv'
    OBVIOUS
  <1>. USE SameAlone DEF vars, disk, printer, docs
  <1>1. UNCHANGED <<jobno, data, reqs, up, todo, nextjob, queue, pt, job, th, id, len, out, run,
                    printed, downs>>
    OBVIOUS
  <1>2. TypeOK'
    BY <1>1 DEF SpoolInv, TypeOK
  <1>3. CountInv'
    BY <1>1, SameNumbered DEF SpoolInv, CountInv
  <1>4. UpInv'
    BY <1>1 DEF SpoolInv, UpInv
  <1>5. QueueInv'
    <2>1. \A q : JobOK(q) => JobOK(q)'
      BY <1>1 DEF JobOK
    <2>. QED  BY <1>1, <2>1 DEF SpoolInv, QueueInv
  <1>6. DocInv'
    BY <1>1, SameFiles
  <1>7. PrintInv'
    <2>1. \A c : Printed(c)' <=> Printed(c)
      BY <1>1 DEF Printed
    <2>. QED  BY <1>1, <2>1 DEF SpoolInv, PrintInv
  <1>. QED  BY <1>2, <1>3, <1>4, <1>5, <1>6, <1>7 DEF SpoolInv

\* Each of the daemon's and the clients' steps keeps the invariant.
LEMMA NextSpool == SpoolInv /\ Next => SpoolInv'
  <1>. SUFFICES ASSUME SpoolInv, Next PROVE SpoolInv'
    OBVIOUS
  <1>1. CASE Start
    BY <1>1, StartKeeps
  <1>2. CASE Scan
    BY <1>2, ScanRemoves, ScanQueues, DaemonMoves DEF Scan
  <1>3. CASE Crash
    BY <1>3, EndKeeps DEF Crash
  <1>4. CASE Sigterm
    BY <1>4, EndKeeps, DaemonMoves DEF Sigterm
  <1>5. CASE Sighup
    BY <1>5, DaemonMoves
  <1>6. CASE Printer
    <2>1. CASE CheckConfig
      <3>1. up # "down"
        BY <2>1 DEF CheckConfig, SpoolInv, TypeOK
      <3>. QED  BY <2>1, <3>1, EndKeeps, DaemonMoves DEF CheckConfig
    <2>. QED  BY <1>6, <2>1, DaemonMoves, PickKeeps, update_jobnoKeeps, OpenDataKeeps,
                 PrinterOkKeeps, DeferKeeps, UnlinkKeeps DEF Printer
  <1>7. ASSUME NEW c \in Clients, Accept(c) \/ Client(c)
        PROVE  SpoolInv'
    <2>1. CASE CleanupFreed(c)
      <3>1. up # "down"
        BY <2>1 DEF CleanupFreed, SpoolInv, UpInv
      <3>. QED  BY <2>1, <3>1, EndKeeps, ClientMoves DEF CleanupFreed
    <2>2. CASE Move(c)
      BY <2>2, ClientMoves
    <2>. QED  BY <1>7, <2>1, <2>2, get_newjobnoKeeps, CreatDataKeeps, ReceivePartKeeps,
                 CreatRequestKeeps, WriteRequestKeeps, AddJobKeeps DEF Client, Move
  <1>. QED  BY <1>1, <1>2, <1>3, <1>4, <1>5, <1>6, <1>7 DEF Next

\* The invariant holds in every state the spooler reaches, whenever and however
\* often the daemon dies.
THEOREM SpoolInvariance == Spec => []SpoolInv
  BY InitSpool, NextSpool, StutterSpool, PTL DEF Spec

\* NoJobLost for every number of clients, parts and ends of the daemon: from
\* client_thread's answer on, a document whose number is its own is on the disk
\* with its request, or has been printed.
THEOREM NoAckedJobLost == Spec => []NoJobLost
  <1>1. SpoolInv => NoJobLost
    BY DEF SpoolInv, DocInv, NoJobLost, Stored, Printed
  <1>. QED  BY <1>1, SpoolInvariance, PTL

\* PrintedRight in general: what printer_thread sends for a request is the whole of
\* what client_thread received for it, where the number is its own.
THEOREM PrintsRight == Spec => []PrintedRight
  <1>1. SpoolInv => PrintedRight
    BY DEF SpoolInv, PrintInv, PrintedRight
  <1>. QED  BY <1>1, SpoolInvariance, PTL

\* ReusedOnlyUnsaved in general: get_newjobno hands out nothing below the number in
\* the job file, and nothing it has handed out in the same run.
THEOREM ReusesOnlyUnsaved == Spec => ReusedOnlyUnsaved
  <1>. DEFINE A == \A c \in Clients : id'[c] # id[c] =>
                     /\ id'[c] >= jobno
                     /\ \A d \in Clients : id[d] = id'[c] => run[d] < downs
  <1>1. SpoolInv /\ [Next]_vars => [A]_vars
    <2>. SUFFICES ASSUME SpoolInv, Next, NEW c \in Clients, id'[c] # id[c]
                  PROVE  /\ id'[c] >= jobno
                         /\ \A d \in Clients : id[d] = id'[c] => run[d] < downs
      OBVIOUS
    <2>. USE DEF main, docs, disk, list, daemon
    <2>1. ~(Scan \/ Start \/ Crash \/ Sigterm \/ Sighup \/ Printer)
      BY DEF Scan, ScanEntry, ScanSignal, ScanEnd, Start, Crash, Sigterm, Sighup, End, Printer,
             Wait, Pick, update_jobno, CheckConfig, OpenData, PrinterOk, Defer, UnlinkData,
             UnlinkRequest
    <2>2. PICK e \in Clients : get_newjobno(e)
      <3>1. PICK e \in Clients : Accept(e) \/ Client(e)
        BY <2>1 DEF Next
      <3>2. get_newjobno(e)
        BY <3>1 DEF Accept, Client, AddWorker, ReadHeader, CreatData, ReceivePart, ReceiveEnd,
                    CreatRequest, WriteRequest, Reply, AddJob, Signal, Cleanup, CleanupFreed, End
      <3>. QED  BY <3>2
    <2>3. e = c /\ id'[c] = nextjob /\ up = "serve" /\ th[c] = "number"
      BY <2>2 DEF get_newjobno, SpoolInv, TypeOK, UpInv
    <2>4. nextjob \in Nat /\ jobno \in Nat /\ nextjob >= jobno /\ nextjob >= 1
      BY <2>3 DEF SpoolInv, CountInv, TypeOK
    <2>5. ASSUME NEW d \in Clients, id[d] = nextjob
          PROVE  run[d] < downs
      <3>1. run[d] \in Nat /\ downs \in Nat
        BY DEF SpoolInv, TypeOK
      <3>2. run[d] <= downs /\ (id[d] # 0 /\ run[d] = downs => id[d] < nextjob)
        BY DEF SpoolInv, CountInv
      <3>. QED  BY <2>4, <2>5, <3>1, <3>2
    <2>. QED  BY <2>3, <2>4, <2>5
  <1>. QED  BY <1>1, SpoolInvariance, PTL DEF Spec, ReusedOnlyUnsaved
=============================================================================
