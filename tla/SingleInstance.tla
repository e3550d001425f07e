--------------------------- MODULE SingleInstance ---------------------------
(***************************************************************************)
(* Three ways in which the programs of this repository keep a second copy  *)
(* of themselves out: the PID file of msgmvrcpt (zn_toolserv.cpp), the     *)
(* locked PID file of a daemon (single.c) and the named semaphore of       *)
(* zn_exclusive_lock.  The way is chosen at the start; processes then      *)
(* start, run and stop one beside the other, and may be killed at any      *)
(* step.                                                                   *)
(***************************************************************************)
EXTENDS Integers, FiniteSets

CONSTANTS Procs,      \* the processes ever started, each of them once
          none        \* no file, no process

ASSUME SingleInstanceAssumption == IsFiniteSet(Procs) /\ none \notin Procs

\* _sem_value: every user of a name gives the same one.
sem_value == 1

VARIABLES
    design,           \* "pidfile", "lockfile" or "semaphore"
    mode,             \* get_startup_mode: the option each process is started with
    pc,
    name,             \* what is bound to each name, which has its maker's name
    content,          \* the PID a file holds, none while it is empty
    fd,               \* what each process has open
    lock,             \* the holder of the lock of each file
    port,             \* the process that listens on TOOLSERV_PORT_NO
    sem,              \* the value of each semaphore
    raced,            \* history: two found no PID file before either made it
    gaveup, lost      \* history: whose wait for a semaphore failed, who was killed inside

vars == <<design, mode, pc, name, content, fd, lock, port, sem, raced, gaveup, lost>>
files == <<name, content, fd, lock>>
history == <<raced, gaveup, lost>>

Modes == {"recept", "retry"}
\* ended: "refused" for another one's sake, "failed" by an error of its own,
\* "stopped" as asked, "killed".
Ended == {"refused", "failed", "stopped", "killed"}
Running(p) == pc[p] \notin Ended \cup {"never"}
File(p) == name[mode[p]]

Init == /\ design \in {"pidfile", "lockfile", "semaphore"}
        /\ mode \in [Procs -> IF design = "pidfile" THEN Modes ELSE {"recept"}]
        /\ pc = [p \in Procs |-> "never"]
        /\ name = [m \in Modes |-> none]
        /\ content = [p \in Procs |-> none]
        /\ fd = [p \in Procs |-> none]
        /\ lock = [p \in Procs |-> none]
        /\ port = none
        /\ sem = [p \in Procs |-> 0]
        /\ raced = FALSE
        /\ gaveup = [p \in Procs |-> {}] /\ lost = [p \in Procs |-> {}]

Goto(p, label) == pc' = [pc EXCEPT ![p] = label]

\* open or sem_open with O_CREAT: what the name has, or a new one.
Bound(p) == IF File(p) = none THEN p ELSE File(p)
Open(p) == /\ name' = [name EXCEPT ![mode[p]] = Bound(p)]
           /\ fd' = [fd EXCEPT ![p] = Bound(p)]

StartProcess(p) == /\ pc[p] = "never" /\ Goto(p, "init")
                   /\ UNCHANGED <<design, mode, files, port, sem, history>>

-----------------------------------------------------------------------------
\* create_pidfile: access
Access(p) == /\ design = "pidfile" /\ pc[p] = "init"
             /\ IF File(p) # none
                  THEN Goto(p, "refused") /\ UNCHANGED raced
                  ELSE /\ Goto(p, "create")
                       /\ raced' = (raced \/ \E q \in Procs \ {p} : mode[q] = mode[p]
                                                              /\ pc[q] = "create")
             /\ UNCHANGED <<design, mode, files, port, sem, gaveup, lost>>

\* fopen "w+": empties a file that is already there.
Fopen(p) == /\ design = "pidfile" /\ pc[p] = "create"
            /\ Open(p) /\ content' = [content EXCEPT ![Bound(p)] = none]
            /\ Goto(p, "write")
            /\ UNCHANGED <<design, mode, lock, port, sem, history>>

\* The PID is written at the start of what was opened, and closed.  The name of
\* the file is set from here on, and main removes the file when it ends.
WritePidFile(p) == /\ design = "pidfile" /\ pc[p] = "write"
                   /\ content' = [content EXCEPT ![fd[p]] = p]
                   /\ fd' = [fd EXCEPT ![p] = none]
                   /\ Goto(p, IF mode[p] = "retry" THEN "leave" ELSE "bind")
                   /\ UNCHANGED <<design, mode, name, lock, port, sem, history>>

\* fopen, fwrite or fflush fails: the file stays as it is, its name is not set.
PidFileFails(p) == /\ design = "pidfile" /\ pc[p] \in {"create", "write"}
                   /\ fd' = [fd EXCEPT ![p] = none] /\ Goto(p, "failed")
                   /\ UNCHANGED <<design, mode, name, content, lock, port, sem, history>>

\* Mutant: a process whose file names another one makes way for it.
BindNamed(p) == /\ design = "pidfile" /\ pc[p] = "bind"
                /\ IF port = none /\ File(p) # none /\ content[File(p)] = p
                     THEN port' = p /\ Goto(p, "serve")
                     ELSE UNCHANGED port /\ Goto(p, "outbid")
                /\ UNCHANGED <<design, mode, files, sem, history>>

\* zn_server::run: the listener, or the exception that main catches.
Bind(p) == /\ design = "pidfile" /\ pc[p] = "bind"
           /\ IF port = none THEN port' = p /\ Goto(p, "serve")
                             ELSE UNCHANGED port /\ Goto(p, "outbid")
           /\ UNCHANGED <<design, mode, files, sem, history>>

\* zn_server::stop frees the listener; the loop ends with the last child.
Stop(p) == /\ design = "pidfile" /\ pc[p] = "serve"
           /\ port' = none /\ Goto(p, "drain")
           /\ UNCHANGED <<design, mode, files, sem, history>>

Drained(p) == /\ design = "pidfile" /\ pc[p] = "drain" /\ Goto(p, "leave")
              /\ UNCHANGED <<design, mode, files, port, sem, history>>

\* remove_pidfile: whosever file has the name now.
Remove(p) == /\ design = "pidfile" /\ pc[p] \in {"outbid", "leave"}
             /\ name' = [name EXCEPT ![mode[p]] = none]
             /\ Goto(p, IF pc[p] = "outbid" THEN "refused" ELSE "stopped")
             /\ UNCHANGED <<design, mode, content, fd, lock, port, sem, history>>

-----------------------------------------------------------------------------
\* Mutant: O_TRUNC, which comes before the lock.
OpenLockFileTrunc(p) == /\ design = "lockfile" /\ pc[p] = "init"
                        /\ Open(p) /\ content' = [content EXCEPT ![Bound(p)] = none]
                        /\ Goto(p, "lock")
                        /\ UNCHANGED <<design, mode, lock, port, sem, history>>

\* already_running: open
OpenLockFile(p) == /\ design = "lockfile" /\ pc[p] = "init"
                   /\ Open(p) /\ Goto(p, "lock")
                   /\ UNCHANGED <<design, mode, content, lock, port, sem, history>>

\* Mutant: a PID in the file is taken for a running daemon.
LockFileByPid(p) == /\ design = "lockfile" /\ pc[p] = "lock"
                    /\ IF lock[fd[p]] = none /\ content[fd[p]] = none
                         THEN /\ lock' = [lock EXCEPT ![fd[p]] = p]
                              /\ Goto(p, "truncate") /\ UNCHANGED fd
                         ELSE /\ fd' = [fd EXCEPT ![p] = none]
                              /\ Goto(p, "refused") /\ UNCHANGED lock
                    /\ UNCHANGED <<design, mode, name, content, port, sem, history>>

\* lockfile: F_SETLK does not wait.
LockFile(p) == /\ design = "lockfile" /\ pc[p] = "lock"
               /\ IF lock[fd[p]] = none
                    THEN /\ lock' = [lock EXCEPT ![fd[p]] = p]
                         /\ Goto(p, "truncate") /\ UNCHANGED fd
                    ELSE /\ fd' = [fd EXCEPT ![p] = none]
                         /\ Goto(p, "refused") /\ UNCHANGED lock
               /\ UNCHANGED <<design, mode, name, content, port, sem, history>>

Truncate(p) == /\ design = "lockfile" /\ pc[p] = "truncate"
               /\ content' = [content EXCEPT ![fd[p]] = none]
               /\ Goto(p, "writepid")
               /\ UNCHANGED <<design, mode, name, fd, lock, port, sem, history>>

WriteLockFile(p) == /\ design = "lockfile" /\ pc[p] = "writepid"
                    /\ content' = [content EXCEPT ![fd[p]] = p]
                    /\ Goto(p, "serve")
                    /\ UNCHANGED <<design, mode, name, fd, lock, port, sem, history>>

\* The kernel closes what a dead process had open, which drops its locks and its
\* listener; a file and the value of a semaphore stay.
Released(p) == /\ fd' = [fd EXCEPT ![p] = none]
               /\ lock' = [f \in Procs |-> IF lock[f] = p THEN none ELSE lock[f]]
               /\ port' = IF port = p THEN none ELSE port
               /\ UNCHANGED <<name, content, sem>>

\* thr_fn: SIGTERM
Sigterm(p) == /\ design = "lockfile" /\ pc[p] = "serve"
              /\ Released(p) /\ Goto(p, "stopped")
              /\ UNCHANGED <<design, mode, history>>

-----------------------------------------------------------------------------
\* Mutant: every opener sets the value.
SemOpenSet(p) == /\ design = "semaphore" /\ pc[p] = "init"
                 /\ Open(p) /\ sem' = [sem EXCEPT ![Bound(p)] = sem_value]
                 /\ Goto(p, "wait")
                 /\ UNCHANGED <<design, mode, content, lock, port, history>>

\* zn_exclusive_lock::lock: sem_open
SemOpen(p) == /\ design = "semaphore" /\ pc[p] = "init"
              /\ Open(p)
              /\ sem' = IF File(p) = none THEN [sem EXCEPT ![p] = sem_value] ELSE sem
              /\ Goto(p, "wait")
              /\ UNCHANGED <<design, mode, content, lock, port, history>>

\* Mutant: the value is taken down without a look at it.
SemWaitNot(p) == /\ design = "semaphore" /\ pc[p] = "wait"
                 /\ sem' = [sem EXCEPT ![fd[p]] = @ - 1]
                 /\ Goto(p, "inside")
                 /\ UNCHANGED <<design, mode, files, port, history>>

SemWait(p) == /\ design = "semaphore" /\ pc[p] = "wait" /\ sem[fd[p]] > 0
              /\ sem' = [sem EXCEPT ![fd[p]] = @ - 1]
              /\ Goto(p, "inside")
              /\ UNCHANGED <<design, mode, files, port, history>>

\* The wait ends with an error: its deadline, which is taken from a member that
\* nobody sets and may be any time, or a signal.  lock() throws.
SemGivesUp(p) == /\ design = "semaphore" /\ pc[p] = "wait" /\ sem[fd[p]] = 0
                 /\ gaveup' = [gaveup EXCEPT ![fd[p]] = @ \cup {p}]
                 /\ Goto(p, "thrown")
                 /\ UNCHANGED <<design, mode, files, port, sem, raced, lost>>

\* The destructor posts whether the wait had succeeded or not.
SemRelease(p) == /\ design = "semaphore" /\ pc[p] \in {"inside", "thrown"}
                 /\ sem' = [sem EXCEPT ![fd[p]] = @ + 1]
                 /\ fd' = [fd EXCEPT ![p] = none]
                 /\ Goto(p, IF pc[p] = "inside" THEN "stopped" ELSE "failed")
                 /\ UNCHANGED <<design, mode, name, content, lock, port, history>>

\* unlink, by one that is inside: those who come later make a new semaphore.
SemUnlink(p) == /\ design = "semaphore" /\ pc[p] = "inside" /\ File(p) # none
                /\ name' = [name EXCEPT ![mode[p]] = none]
                /\ UNCHANGED <<design, mode, pc, content, fd, lock, port, sem, history>>

-----------------------------------------------------------------------------
Kill(p) == /\ Running(p)
           /\ Released(p) /\ Goto(p, "killed")
           /\ lost' = IF pc[p] = "inside" THEN [lost EXCEPT ![fd[p]] = @ \cup {p}] ELSE lost
           /\ UNCHANGED <<design, mode, raced, gaveup>>

\* What a process does of itself.
Step(p) == \/ Access(p) \/ Fopen(p) \/ WritePidFile(p) \/ Bind(p) \/ Remove(p)
           \/ OpenLockFile(p) \/ LockFile(p) \/ Truncate(p) \/ WriteLockFile(p)
           \/ SemOpen(p) \/ SemWait(p) \/ SemRelease(p)

\* What may also happen to it.
Event(p) == \/ StartProcess(p) \/ PidFileFails(p) \/ Stop(p) \/ Drained(p) \/ Sigterm(p)
            \/ SemGivesUp(p) \/ SemUnlink(p) \/ Kill(p)

Next == \E p \in Procs : Step(p) \/ Event(p)

\* A process that is not waiting goes on.
Fairness == \A p \in Procs : WF_vars(Step(p))

Spec == Init /\ [][Next]_vars /\ Fairness

-----------------------------------------------------------------------------
Labels == Ended \cup {"never", "init", "create", "write", "bind", "serve", "outbid", "drain",
                      "leave", "lock", "truncate", "writepid", "wait", "inside", "thrown"}

\* Types; what a process has open, locks or listens on is never that of a dead one.
TypeOK == /\ design \in {"pidfile", "lockfile", "semaphore"}
          /\ mode \in [Procs -> Modes]
          /\ pc \in [Procs -> Labels]
          /\ name \in [Modes -> Procs \cup {none}]
          /\ content \in [Procs -> Procs \cup {none}]
          /\ fd \in [Procs -> Procs \cup {none}]
          /\ lock \in [Procs -> Procs \cup {none}]
          /\ port \in Procs \cup {none}
          /\ sem \in [Procs -> Nat]
          /\ raced \in BOOLEAN
          /\ gaveup \in [Procs -> SUBSET Procs] /\ lost \in [Procs -> SUBSET Procs]
          /\ \A p \in Procs : ~ Running(p) =>
                fd[p] = none /\ port # p /\ \A f \in Procs : lock[f] # p

\* The file through which an operator finds the server names the one that serves:
\* always where the file is locked (single.c), and in msgmvrcpt unless two
\* processes passed the test of create_pidfile together at some time.
FileNamesServer ==
    \A p \in Procs : pc[p] \in {"serve", "drain"} /\ ~ raced
                        => File(p) # none /\ content[File(p)] = p

\* Processes started together do not all make way for each other: one that is
\* refused, by the file, by the port or by the lock, leaves one of its mode that
\* got further and was not.
NotAllRefused ==
    \A p \in Procs : pc[p] = "refused" =>
        \E q \in Procs : mode[q] = mode[p] /\ pc[q] \notin {"never", "init", "lock", "refused"}

\* Who has a file or semaphore open and is at the label.
At(f, label) == {p \in Procs : fd[p] = f /\ pc[p] = label}

\* A semaphore of zn_exclusive_lock lets one process in at a time, plus one for
\* every wait that failed and was posted for all the same, less one for every
\* process killed inside.
SemaphoreConserved ==
    \A f \in Procs :
        design = "semaphore" /\ (f \in {name["recept"]} \cup {fd[p] : p \in Procs}) =>
            sem[f] + Cardinality(At(f, "inside")) + Cardinality(lost[f]) =
                sem_value + Cardinality({p \in gaveup[f] : pc[p] = "failed"})

Alone(p) == \A q \in Procs \ {p} : ~ Running(q)

\* A process that starts when no other runs comes to serve, whatever happened to
\* those before it: always with the locked file, and with the PID file when none
\* was left behind; unless it fails or is killed, or another one starts.
StartRecovers ==
    \A p \in Procs :
        (/\ pc[p] = "init" /\ Alone(p) /\ mode[p] = "recept"
         /\ design = "lockfile" \/ (design = "pidfile" /\ File(p) = none))
            ~> (pc[p] \in {"serve", "failed", "killed"} \/ ~ Alone(p))
=============================================================================
