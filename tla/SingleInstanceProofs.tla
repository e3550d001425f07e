------------------------ MODULE SingleInstanceProofs ------------------------
(***************************************************************************)
(* What holds of SingleInstance for any number of processes.               *)
(***************************************************************************)
EXTENDS SingleInstance, FiniteSetTheorems, TLAPS

\* A process that has passed the test of create_pidfile and has not yet ended.
Owns(p) == pc[p] \in {"create", "write", "bind", "serve", "drain", "leave", "outbid"}

\* What each step of a process implies of what it has open, and the port.
Opened ==
    /\ \A p \in Procs : pc[p] \in {"write", "lock", "truncate", "writepid", "wait", "inside",
                                   "thrown"}
                          => fd[p] \in Procs
    /\ \A p \in Procs : pc[p] \in {"bind", "serve", "drain", "outbid"} => mode[p] = "recept"
    /\ \A p \in Procs : pc[p] \in {"init", "create"} => fd[p] = none
    /\ \A p \in Procs : design = "pidfile" /\ pc[p] \in {"bind", "serve", "drain", "leave", "outbid"}
                          => fd[p] = none
    /\ \A f \in Procs : lock[f] # none => design = "lockfile"
    /\ port # none => pc[port] = "serve" /\ mode[port] = "recept"
    /\ \A m \in Modes : name[m] # none => mode[name[m]] = m
    /\ \A p \in Procs : pc[p] \in {"create", "write", "bind", "drain", "leave", "outbid"}
                          => design = "pidfile"
    /\ \A p \in Procs : pc[p] \in {"lock", "truncate", "writepid"} => design = "lockfile"
    /\ \A p \in Procs : pc[p] \in {"wait", "inside", "thrown"} => design = "semaphore"
    /\ \A p \in Procs : pc[p] = "serve" => design \in {"pidfile", "lockfile"}

\* The PID file while no two processes have raced for it: one owner of each mode,
\* whose file it is.
OneOwner ==
    design = "pidfile" /\ ~ raced =>
        /\ \A p, q \in Procs : Owns(p) /\ Owns(q) /\ mode[p] = mode[q] => p = q
        /\ \A p \in Procs : pc[p] # "outbid"
        /\ \A p \in Procs : pc[p] = "write" => fd[p] = File(p)
        /\ \A p \in Procs : pc[p] \in {"bind", "serve", "drain", "leave"}
                              => File(p) # none /\ content[File(p)] = p

\* The locked file: everybody has the same one open, and one that is past the lock
\* holds it.
OneHolder ==
    design = "lockfile" =>
        /\ \A p \in Procs : mode[p] = "recept"
        /\ \A p \in Procs : pc[p] \in {"lock", "truncate", "writepid", "serve"}
                              => File(p) # none /\ fd[p] = File(p)
        /\ \A p \in Procs : pc[p] \in {"truncate", "writepid", "serve"} => lock[fd[p]] = p
        /\ \A f \in Procs : lock[f] # none => pc[lock[f]] \in {"truncate", "writepid", "serve"}
        /\ \A p \in Procs : pc[p] = "serve" => content[fd[p]] = p

\* One that got through and was not refused, or has not been yet.
Past == {"create", "write", "bind", "serve", "drain", "leave", "truncate", "writepid",
         "stopped", "failed", "killed"}

\* Whoever made way, or is about to, made it for one that did not.
MadeWay ==
    /\ \A p \in Procs : pc[p] \in {"refused", "outbid"} =>
          \E q \in Procs : mode[q] = mode[p] /\ pc[q] \in Past
    /\ \A m \in Modes : design = "pidfile" /\ name[m] # none =>
          \E q \in Procs : mode[q] = m /\ pc[q] \in Past \cup {"outbid"}

IInv == TypeOK /\ Opened /\ OneOwner /\ OneHolder /\ MadeWay

\* The initial states have the invariant.
LEMMA InitIInv == Init => IInv
<1> SUFFICES ASSUME Init PROVE IInv
    OBVIOUS
<1> USE SingleInstanceAssumption DEF Init, Ended, Modes, File, Running
<1>1. TypeOK
    BY DEF TypeOK, Labels
<1>2. Opened
    BY DEF Opened
<1>3. OneOwner
    BY DEF OneOwner, Owns
<1>4. OneHolder
    BY DEF OneHolder
<1>5. MadeWay
    BY DEF MadeWay, Past
<1> QED BY <1>1, <1>2, <1>3, <1>4, <1>5 DEF IInv

\* Every step keeps the types, and leaves a process that ends with nothing open.
LEMMA TypeStep ==
    ASSUME IInv, [Next]_vars
    PROVE  TypeOK'
<1> USE SingleInstanceAssumption DEF IInv, TypeOK, Opened, OneHolder, Labels, Ended, Modes, File, Running, sem_value, Goto, files, history
<1>1. CASE UNCHANGED vars
    BY <1>1 DEF vars
<1>2. ASSUME NEW p \in Procs, StartProcess(p) PROVE TypeOK'
    BY <1>2 DEF StartProcess
<1>3. ASSUME NEW p \in Procs, Access(p) PROVE TypeOK'
    <2>1. raced' \in BOOLEAN
        BY <1>3 DEF Access
    <2>2. /\ pc[p] = "init"
          /\ \/ pc' = [pc EXCEPT ![p] = "refused"]
             \/ pc' = [pc EXCEPT ![p] = "create"]
        BY <1>3 DEF Access
    <2>3. UNCHANGED <<design, mode, name, content, fd, lock, port, sem, gaveup, lost>>
        BY <1>3 DEF Access
    <2>4. design = "pidfile"
        BY <1>3 DEF Access
    <2>5. fd[p] = none /\ port # p /\ \A f \in Procs : lock[f] # p
        BY <2>2, <2>4
    <2> QED BY <2>1, <2>2, <2>3, <2>5
<1>4. ASSUME NEW p \in Procs, Fopen(p) PROVE TypeOK'
    BY <1>4 DEF Fopen, Open, Bound
<1>5. ASSUME NEW p \in Procs, WritePidFile(p) PROVE TypeOK'
    BY <1>5 DEF WritePidFile
<1>6. ASSUME NEW p \in Procs, PidFileFails(p) PROVE TypeOK'
    BY <1>6 DEF PidFileFails
<1>7. ASSUME NEW p \in Procs, Bind(p) PROVE TypeOK'
    BY <1>7 DEF Bind
<1>8. ASSUME NEW p \in Procs, Stop(p) PROVE TypeOK'
    BY <1>8 DEF Stop
<1>9. ASSUME NEW p \in Procs, Drained(p) PROVE TypeOK'
    BY <1>9 DEF Drained
<1>10. ASSUME NEW p \in Procs, Remove(p) PROVE TypeOK'
    BY <1>10 DEF Remove
<1>11. ASSUME NEW p \in Procs, OpenLockFile(p) PROVE TypeOK'
    BY <1>11 DEF OpenLockFile, Open, Bound
<1>12. ASSUME NEW p \in Procs, LockFile(p) PROVE TypeOK'
    BY <1>12 DEF LockFile
<1>13. ASSUME NEW p \in Procs, Truncate(p) PROVE TypeOK'
    BY <1>13 DEF Truncate
<1>14. ASSUME NEW p \in Procs, WriteLockFile(p) PROVE TypeOK'
    BY <1>14 DEF WriteLockFile
<1>15. ASSUME NEW p \in Procs, Sigterm(p) PROVE TypeOK'
    BY <1>15 DEF Sigterm, Released
<1>16. ASSUME NEW p \in Procs, SemOpen(p) PROVE TypeOK'
    BY <1>16 DEF SemOpen, Open, Bound
<1>17. ASSUME NEW p \in Procs, SemWait(p) PROVE TypeOK'
    BY <1>17 DEF SemWait
<1>18. ASSUME NEW p \in Procs, SemGivesUp(p) PROVE TypeOK'
    BY <1>18 DEF SemGivesUp
<1>19. ASSUME NEW p \in Procs, SemRelease(p) PROVE TypeOK'
    BY <1>19 DEF SemRelease
<1>20. ASSUME NEW p \in Procs, SemUnlink(p) PROVE TypeOK'
    BY <1>20 DEF SemUnlink
<1>21. ASSUME NEW p \in Procs, Kill(p) PROVE TypeOK'
    BY <1>21 DEF Kill, Released
<1> QED
    BY <1>1, <1>2, <1>3, <1>4, <1>5, <1>6, <1>7, <1>8, <1>9, <1>10, <1>11,
       <1>12, <1>13, <1>14, <1>15, <1>16, <1>17, <1>18, <1>19, <1>20, <1>21 DEF Next, Step, Event

\* Every step keeps what the labels say of descriptors and of the port.
LEMMA OpenedStep ==
    ASSUME IInv, [Next]_vars
    PROVE  Opened'
<1> USE SingleInstanceAssumption DEF IInv, TypeOK, Opened, OneHolder, Labels, Ended, Modes, File, Running, sem_value, Goto, files, history
<1>1. CASE UNCHANGED vars
    BY <1>1 DEF vars
<1>2. ASSUME NEW p \in Procs, StartProcess(p) PROVE Opened'
    BY <1>2 DEF StartProcess
<1>3. ASSUME NEW p \in Procs, Access(p) PROVE Opened'
    BY <1>3 DEF Access
<1>4. ASSUME NEW p \in Procs, Fopen(p) PROVE Opened'
    BY <1>4 DEF Fopen, Open, Bound
<1>5. ASSUME NEW p \in Procs, WritePidFile(p) PROVE Opened'
    BY <1>5 DEF WritePidFile
<1>6. ASSUME NEW p \in Procs, PidFileFails(p) PROVE Opened'
    BY <1>6 DEF PidFileFails
<1>7. ASSUME NEW p \in Procs, Bind(p) PROVE Opened'
    BY <1>7 DEF Bind
<1>8. ASSUME NEW p \in Procs, Stop(p) PROVE Opened'
    BY <1>8 DEF Stop
<1>9. ASSUME NEW p \in Procs, Drained(p) PROVE Opened'
    BY <1>9 DEF Drained
<1>10. ASSUME NEW p \in Procs, Remove(p) PROVE Opened'
    BY <1>10 DEF Remove
<1>11. ASSUME NEW p \in Procs, OpenLockFile(p) PROVE Opened'
    BY <1>11 DEF OpenLockFile, Open, Bound
<1>12. ASSUME NEW p \in Procs, LockFile(p) PROVE Opened'
    BY <1>12 DEF LockFile
<1>13. ASSUME NEW p \in Procs, Truncate(p) PROVE Opened'
    BY <1>13 DEF Truncate
<1>14. ASSUME NEW p \in Procs, WriteLockFile(p) PROVE Opened'
    BY <1>14 DEF WriteLockFile
<1>15. ASSUME NEW p \in Procs, Sigterm(p) PROVE Opened'
    BY <1>15 DEF Sigterm, Released
<1>16. ASSUME NEW p \in Procs, SemOpen(p) PROVE Opened'
    BY <1>16 DEF SemOpen, Open, Bound
<1>17. ASSUME NEW p \in Procs, SemWait(p) PROVE Opened'
    BY <1>17 DEF SemWait
<1>18. ASSUME NEW p \in Procs, SemGivesUp(p) PROVE Opened'
    BY <1>18 DEF SemGivesUp
<1>19. ASSUME NEW p \in Procs, SemRelease(p) PROVE Opened'
    BY <1>19 DEF SemRelease
<1>20. ASSUME NEW p \in Procs, SemUnlink(p) PROVE Opened'
    BY <1>20 DEF SemUnlink
<1>21. ASSUME NEW p \in Procs, Kill(p) PROVE Opened'
    BY <1>21 DEF Kill, Released
<1> QED
    BY <1>1, <1>2, <1>3, <1>4, <1>5, <1>6, <1>7, <1>8, <1>9, <1>10, <1>11,
       <1>12, <1>13, <1>14, <1>15, <1>16, <1>17, <1>18, <1>19, <1>20, <1>21 DEF Next, Step, Event

\* The PID file stays its only owner's as long as nobody has raced for it: one that
\* comes later finds the file, one that came before has removed it.
LEMMA OneOwnerStep ==
    ASSUME IInv, [Next]_vars
    PROVE  OneOwner'
<1> USE SingleInstanceAssumption DEF IInv, TypeOK, Opened, OneOwner, Owns, Modes, File, Running, Ended, Labels, Goto, files, history
<1>1. CASE UNCHANGED vars
    BY <1>1 DEF vars
<1>2. ASSUME NEW p \in Procs, StartProcess(p) PROVE OneOwner'
    BY <1>2 DEF StartProcess
<1>3. ASSUME NEW p \in Procs, Access(p) PROVE OneOwner'
    <2> SUFFICES ASSUME design = "pidfile", ~ raced' PROVE OneOwner'
        BY <1>3 DEF Access
    <2>1. ~ raced
        BY <1>3 DEF Access
    <2>2. CASE File(p) # none
        BY <1>3, <2>1, <2>2 DEF Access
    <2>3. CASE File(p) = none
        <3>1. \A q \in Procs \ {p} : mode[q] = mode[p] => pc[q] # "create"
            BY <1>3, <2>3 DEF Access
        <3>2. \A q \in Procs \ {p} : mode[q] = mode[p] => ~ Owns(q)
            BY <2>1, <2>3, <3>1
        <3>3. pc' = [pc EXCEPT ![p] = "create"]
            BY <1>3, <2>3 DEF Access
        <3> QED BY <1>3, <2>1, <3>2, <3>3 DEF Access
    <2> QED BY <2>2, <2>3
<1>4. ASSUME NEW p \in Procs, Fopen(p) PROVE OneOwner'
    BY <1>4 DEF Fopen, Open, Bound
<1>5. ASSUME NEW p \in Procs, WritePidFile(p) PROVE OneOwner'
    BY <1>5 DEF WritePidFile
<1>6. ASSUME NEW p \in Procs, PidFileFails(p) PROVE OneOwner'
    BY <1>6 DEF PidFileFails
<1>7. ASSUME NEW p \in Procs, Bind(p) PROVE OneOwner'
    BY <1>7 DEF Bind
<1>8. ASSUME NEW p \in Procs, Stop(p) PROVE OneOwner'
    BY <1>8 DEF Stop
<1>9. ASSUME NEW p \in Procs, Drained(p) PROVE OneOwner'
    BY <1>9 DEF Drained
<1>10. ASSUME NEW p \in Procs, Remove(p) PROVE OneOwner'
    BY <1>10 DEF Remove
<1>11. ASSUME NEW p \in Procs, OpenLockFile(p) PROVE OneOwner'
    BY <1>11 DEF OpenLockFile, Open, Bound
<1>12. ASSUME NEW p \in Procs, LockFile(p) PROVE OneOwner'
    BY <1>12 DEF LockFile
<1>13. ASSUME NEW p \in Procs, Truncate(p) PROVE OneOwner'
    BY <1>13 DEF Truncate
<1>14. ASSUME NEW p \in Procs, WriteLockFile(p) PROVE OneOwner'
    BY <1>14 DEF WriteLockFile
<1>15. ASSUME NEW p \in Procs, Sigterm(p) PROVE OneOwner'
    BY <1>15 DEF Sigterm, Released
<1>16. ASSUME NEW p \in Procs, SemOpen(p) PROVE OneOwner'
    BY <1>16 DEF SemOpen, Open, Bound
<1>17. ASSUME NEW p \in Procs, SemWait(p) PROVE OneOwner'
    BY <1>17 DEF SemWait
<1>18. ASSUME NEW p \in Procs, SemGivesUp(p) PROVE OneOwner'
    BY <1>18 DEF SemGivesUp
<1>19. ASSUME NEW p \in Procs, SemRelease(p) PROVE OneOwner'
    BY <1>19 DEF SemRelease
<1>20. ASSUME NEW p \in Procs, SemUnlink(p) PROVE OneOwner'
    BY <1>20 DEF SemUnlink
<1>21. ASSUME NEW p \in Procs, Kill(p) PROVE OneOwner'
    BY <1>21 DEF Kill, Released
<1> QED
    BY <1>1, <1>2, <1>3, <1>4, <1>5, <1>6, <1>7, <1>8, <1>9, <1>10, <1>11,
       <1>12, <1>13, <1>14, <1>15, <1>16, <1>17, <1>18, <1>19, <1>20, <1>21 DEF Next, Step, Event

\* The lock stays with the one that is past it until the kernel drops it.
LEMMA OneHolderStep ==
    ASSUME IInv, [Next]_vars
    PROVE  OneHolder'
<1> USE SingleInstanceAssumption DEF IInv, TypeOK, Opened, OneHolder, Modes, File, Running, Ended, Labels, Goto, files, history
<1>1. CASE UNCHANGED vars
    BY <1>1 DEF vars
<1>2. ASSUME NEW p \in Procs, StartProcess(p) PROVE OneHolder'
    BY <1>2 DEF StartProcess
<1>3. ASSUME NEW p \in Procs, Access(p) PROVE OneHolder'
    BY <1>3 DEF Access
<1>4. ASSUME NEW p \in Procs, Fopen(p) PROVE OneHolder'
    BY <1>4 DEF Fopen, Open, Bound
<1>5. ASSUME NEW p \in Procs, WritePidFile(p) PROVE OneHolder'
    BY <1>5 DEF WritePidFile
<1>6. ASSUME NEW p \in Procs, PidFileFails(p) PROVE OneHolder'
    BY <1>6 DEF PidFileFails
<1>7. ASSUME NEW p \in Procs, Bind(p) PROVE OneHolder'
    BY <1>7 DEF Bind
<1>8. ASSUME NEW p \in Procs, Stop(p) PROVE OneHolder'
    BY <1>8 DEF Stop
<1>9. ASSUME NEW p \in Procs, Drained(p) PROVE OneHolder'
    BY <1>9 DEF Drained
<1>10. ASSUME NEW p \in Procs, Remove(p) PROVE OneHolder'
    BY <1>10 DEF Remove
<1>11. ASSUME NEW p \in Procs, OpenLockFile(p) PROVE OneHolder'
    BY <1>11 DEF OpenLockFile, Open, Bound
<1>12. ASSUME NEW p \in Procs, LockFile(p) PROVE OneHolder'
    BY <1>12 DEF LockFile
<1>13. ASSUME NEW p \in Procs, Truncate(p) PROVE OneHolder'
    BY <1>13 DEF Truncate
<1>14. ASSUME NEW p \in Procs, WriteLockFile(p) PROVE OneHolder'
    BY <1>14 DEF WriteLockFile
<1>15. ASSUME NEW p \in Procs, Sigterm(p) PROVE OneHolder'
    BY <1>15 DEF Sigterm, Released
<1>16. ASSUME NEW p \in Procs, SemOpen(p) PROVE OneHolder'
    BY <1>16 DEF SemOpen, Open, Bound
<1>17. ASSUME NEW p \in Procs, SemWait(p) PROVE OneHolder'
    BY <1>17 DEF SemWait
<1>18. ASSUME NEW p \in Procs, SemGivesUp(p) PROVE OneHolder'
    BY <1>18 DEF SemGivesUp
<1>19. ASSUME NEW p \in Procs, SemRelease(p) PROVE OneHolder'
    BY <1>19 DEF SemRelease
<1>20. ASSUME NEW p \in Procs, SemUnlink(p) PROVE OneHolder'
    BY <1>20 DEF SemUnlink
<1>21. ASSUME NEW p \in Procs, Kill(p) PROVE OneHolder'
    BY <1>21 DEF Kill, Released
<1> QED
    BY <1>1, <1>2, <1>3, <1>4, <1>5, <1>6, <1>7, <1>8, <1>9, <1>10, <1>11,
       <1>12, <1>13, <1>14, <1>15, <1>16, <1>17, <1>18, <1>19, <1>20, <1>21 DEF Next, Step, Event

\* One that is refused found another's file, port or lock, and that one is not
\* refused later, or else finds a third.
LEMMA MadeWayStep ==
    ASSUME IInv, [Next]_vars
    PROVE  MadeWay'
<1> USE SingleInstanceAssumption DEF IInv, TypeOK, Opened, OneHolder, MadeWay, Past, Modes, File, Running, Ended, Labels, Goto, files, history
<1>1. CASE UNCHANGED vars
    BY <1>1 DEF vars
<1>2. ASSUME NEW p \in Procs, StartProcess(p) PROVE MadeWay'
    BY <1>2 DEF StartProcess
<1>3. ASSUME NEW p \in Procs, Access(p) PROVE MadeWay'
    BY <1>3 DEF Access
<1>4. ASSUME NEW p \in Procs, Fopen(p) PROVE MadeWay'
    BY <1>4 DEF Fopen, Open, Bound
<1>5. ASSUME NEW p \in Procs, WritePidFile(p) PROVE MadeWay'
    BY <1>5 DEF WritePidFile
<1>6. ASSUME NEW p \in Procs, PidFileFails(p) PROVE MadeWay'
    BY <1>6 DEF PidFileFails
<1>7. ASSUME NEW p \in Procs, Bind(p) PROVE MadeWay'
    BY <1>7 DEF Bind
<1>8. ASSUME NEW p \in Procs, Stop(p) PROVE MadeWay'
    BY <1>8 DEF Stop
<1>9. ASSUME NEW p \in Procs, Drained(p) PROVE MadeWay'
    BY <1>9 DEF Drained
<1>10. ASSUME NEW p \in Procs, Remove(p) PROVE MadeWay'
    BY <1>10 DEF Remove
<1>11. ASSUME NEW p \in Procs, OpenLockFile(p) PROVE MadeWay'
    BY <1>11 DEF OpenLockFile, Open, Bound
<1>12. ASSUME NEW p \in Procs, LockFile(p) PROVE MadeWay'
    BY <1>12 DEF LockFile
<1>13. ASSUME NEW p \in Procs, Truncate(p) PROVE MadeWay'
    BY <1>13 DEF Truncate
<1>14. ASSUME NEW p \in Procs, WriteLockFile(p) PROVE MadeWay'
    BY <1>14 DEF WriteLockFile
<1>15. ASSUME NEW p \in Procs, Sigterm(p) PROVE MadeWay'
    BY <1>15 DEF Sigterm, Released
<1>16. ASSUME NEW p \in Procs, SemOpen(p) PROVE MadeWay'
    BY <1>16 DEF SemOpen, Open, Bound
<1>17. ASSUME NEW p \in Procs, SemWait(p) PROVE MadeWay'
    BY <1>17 DEF SemWait
<1>18. ASSUME NEW p \in Procs, SemGivesUp(p) PROVE MadeWay'
    BY <1>18 DEF SemGivesUp
<1>19. ASSUME NEW p \in Procs, SemRelease(p) PROVE MadeWay'
    BY <1>19 DEF SemRelease
<1>20. ASSUME NEW p \in Procs, SemUnlink(p) PROVE MadeWay'
    BY <1>20 DEF SemUnlink
<1>21. ASSUME NEW p \in Procs, Kill(p) PROVE MadeWay'
    BY <1>21 DEF Kill, Released
<1> QED
    BY <1>1, <1>2, <1>3, <1>4, <1>5, <1>6, <1>7, <1>8, <1>9, <1>10, <1>11,
       <1>12, <1>13, <1>14, <1>15, <1>16, <1>17, <1>18, <1>19, <1>20, <1>21 DEF Next, Step, Event

\* The invariant holds of every reachable state.
THEOREM Invariance == Spec => []IInv
<1>1. IInv /\ [Next]_vars => IInv'
    BY TypeStep, OpenedStep, OneOwnerStep, OneHolderStep, MadeWayStep DEF IInv
<1> QED BY InitIInv, <1>1, PTL DEF Spec

\* Types, and that a process that ended holds no descriptor, lock or port, for any
\* number of processes.
THEOREM TypeCorrect == Spec => []TypeOK
<1>1. IInv => TypeOK
    BY DEF IInv
<1> QED BY Invariance, <1>1, PTL

\* The PID file of msgmvrcpt names the server that runs unless two have raced in
\* create_pidfile, and the locked file of single.c always does.
THEOREM FileNamesServerHolds == Spec => []FileNamesServer
<1>1. IInv => FileNamesServer
    BY DEF IInv, TypeOK, Opened, OneOwner, OneHolder, FileNamesServer, File, Modes
<1> QED BY Invariance, <1>1, PTL

\* Processes that start together never all give way to each other.
THEOREM NotAllRefusedHolds == Spec => []NotAllRefused
<1>1. IInv => NotAllRefused
    BY DEF IInv, MadeWay, Past, NotAllRefused
<1> QED BY Invariance, <1>1, PTL

-----------------------------------------------------------------------------
(* The semaphore of zn_exclusive_lock.                                     *)

\* Who posted for a wait that had failed.
Failed(f) == {p \in gaveup[f] : pc[p] = "failed"}

\* A semaphore that somebody has open, or that the next one will open.
InUse(f) == f = name["recept"] \/ \E p \in Procs : fd[p] = f

\* The value of a semaphore, who is inside, and who went there or left it wrongly.
Balanced(f) == sem[f] + Cardinality(At(f, "inside")) + Cardinality(lost[f])
                   = sem_value + Cardinality(Failed(f))

\* The values add up as long as a semaphore is in use; nobody has yet done anything
\* with one whose maker has not come to open it.
SemInv ==
    design = "semaphore" =>
        /\ \A p \in Procs : mode[p] = "recept"
        /\ \A p \in Procs : pc[p] \in {"never", "init"} =>
              ~InUse(p) /\ gaveup[p] = {} /\ lost[p] = {}
        /\ \A f, p \in Procs : p \in gaveup[f] => pc[p] \in {"thrown", "failed", "killed"}
        /\ \A f, p \in Procs : p \in lost[f] => pc[p] = "killed"
        /\ \A p \in Procs : pc[p] = "thrown" => \A f \in Procs : p \in gaveup[f] <=> f = fd[p]
        /\ \A f \in Procs : InUse(f) => Balanced(f)

\* What is counted is finite.
LEMMA Counts ==
    ASSUME TypeOK, NEW f \in Procs
    PROVE  /\ IsFiniteSet(At(f, "inside")) /\ IsFiniteSet(lost[f]) /\ IsFiniteSet(Failed(f))
           /\ Cardinality(At(f, "inside")) \in Nat /\ Cardinality(lost[f]) \in Nat
           /\ Cardinality(Failed(f)) \in Nat /\ sem[f] \in Nat
<1>1. At(f, "inside") \subseteq Procs /\ lost[f] \subseteq Procs /\ Failed(f) \subseteq Procs
    BY DEF TypeOK, At, Failed
<1>2. IsFiniteSet(At(f, "inside")) /\ IsFiniteSet(lost[f]) /\ IsFiniteSet(Failed(f))
    BY <1>1, SingleInstanceAssumption, FS_Subset
<1> QED BY <1>2, FS_CardinalityType DEF TypeOK

\* A semaphore nothing has happened to keeps its balance.
LEMMA SameBalance ==
    ASSUME NEW f \in Procs, Balanced(f), sem'[f] = sem[f], lost'[f] = lost[f],
           At(f, "inside")' = At(f, "inside"), Failed(f)' = Failed(f)
    PROVE  Balanced(f)'
BY DEF Balanced, sem_value

\* Every step keeps the balance.
LEMMA SemStep ==
    ASSUME IInv, SemInv, [Next]_vars
    PROVE  SemInv'
<1> USE SingleInstanceAssumption DEF Ended, Modes, File, Running, files, history
<1> SUFFICES ASSUME design = "semaphore", design' = design PROVE SemInv'
    <2>1. design' = design
        BY DEF Next, Step, Event, vars, StartProcess, Access, Fopen, WritePidFile, PidFileFails,
               Bind, Stop, Drained, Remove, OpenLockFile, LockFile, Truncate, WriteLockFile,
               Sigterm, SemOpen, SemWait, SemGivesUp, SemRelease, SemUnlink, Kill
    <2> QED BY <2>1 DEF SemInv
<1>0. TypeOK /\ Opened
    BY DEF IInv
<1>1. CASE UNCHANGED vars
    <2>1. \A f \in Procs : Balanced(f) => Balanced(f)'
        BY <1>1 DEF vars, Balanced, At, Failed
    <2> QED BY <1>1, <2>1 DEF vars, SemInv, InUse
<1>2. ASSUME NEW p \in Procs, StartProcess(p) PROVE SemInv'
    <2>1. /\ pc[p] = "never" /\ pc' = [pc EXCEPT ![p] = "init"] /\ mode' = mode
          /\ UNCHANGED <<name, fd, sem, gaveup, lost>>
        BY <1>2 DEF StartProcess, Goto
    <2>2. \A f \in Procs : At(f, "inside")' = At(f, "inside") /\ Failed(f)' = Failed(f)
        BY <1>0, <2>1 DEF TypeOK, At, Failed
    <2>3. \A f \in Procs : Balanced(f) => Balanced(f)'
        BY <2>1, <2>2, SameBalance
    <2> QED BY <1>0, <2>1, <2>3 DEF SemInv, InUse, TypeOK
<1>3. ASSUME NEW p \in Procs, SemOpen(p) PROVE SemInv'
    <2>1. /\ pc[p] = "init" /\ pc' = [pc EXCEPT ![p] = "wait"] /\ mode' = mode
          /\ name' = [name EXCEPT ![mode[p]] = Bound(p)] /\ fd' = [fd EXCEPT ![p] = Bound(p)]
          /\ sem' = IF File(p) = none THEN [sem EXCEPT ![p] = sem_value] ELSE sem
          /\ UNCHANGED <<gaveup, lost>>
        BY <1>3 DEF SemOpen, Open, Goto
    <2>2. PICK b \in Procs : b = Bound(p)
        BY <1>0 DEF Bound, TypeOK
    <2>3. /\ name'["recept"] = b /\ fd'[p] = b /\ fd[p] = none
          /\ \A q \in Procs \ {p} : fd'[q] = fd[q]
          /\ pc'[p] = "wait" /\ \A q \in Procs \ {p} : pc'[q] = pc[q]
        BY <1>0, <2>1, <2>2 DEF TypeOK, SemInv, Opened
    <2>4. \A f \in Procs : At(f, "inside")' = At(f, "inside") /\ Failed(f)' = Failed(f)
        BY <1>0, <2>1, <2>3 DEF TypeOK, At, Failed
    <2>5. ASSUME NEW f \in Procs, InUse(f)' PROVE Balanced(f)'
        <3>1. CASE f # b \/ File(p) # none
            <4>1. InUse(f)
                BY <2>2, <2>3, <2>5, <3>1 DEF InUse, Bound, SemInv
            <4>2. sem'[f] = sem[f]
                BY <1>0, <2>1, <2>2, <2>3, <3>1 DEF TypeOK, Bound
            <4> QED BY <2>1, <2>4, <4>1, <4>2, SameBalance DEF SemInv
        <3>2. CASE f = b /\ File(p) = none
            <4>1. f = p /\ sem'[f] = sem_value /\ ~InUse(f) /\ gaveup'[f] = {} /\ lost'[f] = {}
                BY <1>0, <2>1, <2>2, <3>2 DEF TypeOK, Bound, SemInv
            <4>2. At(f, "inside")' = {} /\ Failed(f)' = {}
                BY <2>4, <4>1 DEF At, Failed, InUse
            <4> QED BY <4>1, <4>2, FS_EmptySet DEF Balanced, sem_value
        <3> QED BY <3>1, <3>2
    <2>6. \A q \in Procs : pc'[q] \in {"never", "init"} => ~InUse(q)'
        <3> SUFFICES ASSUME NEW q \in Procs, pc[q] \in {"never", "init"}, q # p PROVE ~InUse(q)'
            BY <2>3
        <3>1. ~InUse(q)
            BY DEF SemInv
        <3>2. q # b
            BY <2>2, <3>1 DEF Bound, InUse, SemInv
        <3> QED BY <2>3, <3>1, <3>2 DEF InUse
    <2> QED BY <1>0, <2>1, <2>3, <2>5, <2>6 DEF SemInv, TypeOK
<1>4. ASSUME NEW p \in Procs, SemWait(p) PROVE SemInv'
    <2>1. /\ pc[p] = "wait" /\ sem[fd[p]] > 0 /\ pc' = [pc EXCEPT ![p] = "inside"]
          /\ sem' = [sem EXCEPT ![fd[p]] = @ - 1] /\ mode' = mode
          /\ UNCHANGED <<name, fd, gaveup, lost>>
        BY <1>4 DEF SemWait, Goto
    <2>2. /\ fd[p] \in Procs
          /\ pc'[p] = "inside" /\ \A q \in Procs \ {p} : pc'[q] = pc[q]
          /\ sem'[fd[p]] = sem[fd[p]] - 1 /\ \A f \in Procs \ {fd[p]} : sem'[f] = sem[f]
        BY <1>0, <2>1 DEF TypeOK, Opened
    <2>3. \A f \in Procs : Failed(f)' = Failed(f)
        BY <1>0, <2>1, <2>2 DEF TypeOK, Failed
    <2>4. ASSUME NEW f \in Procs, InUse(f)' PROVE Balanced(f)'
        <3>0. Balanced(f)
            BY <2>1, <2>4 DEF SemInv, InUse
        <3>1. CASE f # fd[p]
            <4>1. At(f, "inside")' = At(f, "inside")
                BY <2>1, <2>2, <3>1 DEF At
            <4> QED BY <2>1, <2>2, <2>3, <3>0, <3>1, <4>1, SameBalance
        <3>2. CASE f = fd[p]
            <4>1. At(f, "inside")' = At(f, "inside") \cup {p} /\ p \notin At(f, "inside")
                BY <2>1, <2>2, <3>2 DEF At
            <4>2. Cardinality(At(f, "inside")') = Cardinality(At(f, "inside")) + 1
                BY <1>0, <4>1, Counts, FS_AddElement
            <4> QED BY <1>0, <2>1, <2>2, <2>3, <3>0, <3>2, <4>2, Counts DEF Balanced, sem_value
        <3> QED BY <3>1, <3>2
    <2> QED BY <1>0, <2>1, <2>2, <2>4 DEF SemInv, TypeOK, InUse
<1>5. ASSUME NEW p \in Procs, SemGivesUp(p) PROVE SemInv'
    <2>1. /\ pc[p] = "wait" /\ pc' = [pc EXCEPT ![p] = "thrown"]
          /\ gaveup' = [gaveup EXCEPT ![fd[p]] = @ \cup {p}] /\ mode' = mode
          /\ UNCHANGED <<name, fd, sem, lost>>
        BY <1>5 DEF SemGivesUp, Goto
    <2>2. /\ fd[p] \in Procs
          /\ pc'[p] = "thrown" /\ \A q \in Procs \ {p} : pc'[q] = pc[q]
          /\ gaveup'[fd[p]] = gaveup[fd[p]] \cup {p}
          /\ \A f \in Procs \ {fd[p]} : gaveup'[f] = gaveup[f]
        BY <1>0, <2>1 DEF TypeOK, Opened
    <2>3. \A f \in Procs : p \notin gaveup[f] /\ p \notin lost[f]
        BY <2>1 DEF SemInv
    <2>4. \A f \in Procs : At(f, "inside")' = At(f, "inside") /\ Failed(f)' = Failed(f)
        BY <1>0, <2>1, <2>2 DEF TypeOK, At, Failed
    <2>5. \A f \in Procs : Balanced(f) => Balanced(f)'
        BY <2>1, <2>4, SameBalance
    <2>6. InUse(fd[p]) /\ \A q \in Procs : InUse(q)' <=> InUse(q)
        BY <2>1 DEF InUse
    <2> QED BY <1>0, <2>1, <2>2, <2>3, <2>5, <2>6 DEF SemInv, TypeOK
<1>6. ASSUME NEW p \in Procs, SemRelease(p) PROVE SemInv'
    <2>1. /\ pc[p] \in {"inside", "thrown"} /\ sem' = [sem EXCEPT ![fd[p]] = @ + 1]
          /\ fd' = [fd EXCEPT ![p] = none] /\ mode' = mode
          /\ \/ pc[p] = "inside" /\ pc' = [pc EXCEPT ![p] = "stopped"]
             \/ pc[p] = "thrown" /\ pc' = [pc EXCEPT ![p] = "failed"]
          /\ UNCHANGED <<name, gaveup, lost>>
        BY <1>6 DEF SemRelease, Goto
    <2>2. /\ fd[p] \in Procs /\ fd'[p] = none /\ \A q \in Procs \ {p} : fd'[q] = fd[q]
          /\ \/ pc[p] = "inside" /\ pc'[p] = "stopped"
             \/ pc[p] = "thrown" /\ pc'[p] = "failed"
          /\ \A q \in Procs \ {p} : pc'[q] = pc[q]
          /\ sem'[fd[p]] = sem[fd[p]] + 1 /\ \A f \in Procs \ {fd[p]} : sem'[f] = sem[f]
        BY <1>0, <2>1 DEF TypeOK, Opened
    <2>3. \A f \in Procs : InUse(f)' => InUse(f)
        BY <2>1, <2>2 DEF InUse
    <2>4. ASSUME NEW f \in Procs, InUse(f) PROVE Balanced(f)'
        <3>0. Balanced(f)
            BY <2>4 DEF SemInv
        <3>1. CASE f # fd[p]
            <4>1. At(f, "inside")' = At(f, "inside")
                BY <2>2, <3>1 DEF At
            <4>2. p \notin gaveup[f]
                BY <2>1, <3>1 DEF SemInv
            <4>3. Failed(f)' = Failed(f)
                BY <1>0, <2>1, <2>2, <4>2 DEF Failed, TypeOK
            <4> QED BY <2>1, <2>2, <3>0, <3>1, <4>1, <4>3, SameBalance
        <3>2. CASE f = fd[p] /\ pc[p] = "inside"
            <4>1. At(f, "inside")' = At(f, "inside") \ {p} /\ p \in At(f, "inside")
                BY <2>2, <3>2 DEF At
            <4>2. Cardinality(At(f, "inside")') = Cardinality(At(f, "inside")) - 1
                BY <1>0, <4>1, Counts, FS_RemoveElement
            <4>3. Failed(f)' = Failed(f)
                BY <1>0, <2>1, <2>2, <3>2 DEF Failed, TypeOK
            <4> QED BY <1>0, <2>1, <2>2, <3>0, <3>2, <4>2, <4>3, Counts DEF Balanced, sem_value
        <3>3. CASE f = fd[p] /\ pc[p] = "thrown"
            <4>1. At(f, "inside")' = At(f, "inside")
                BY <2>2, <3>3 DEF At
            <4>2. p \in gaveup[f]
                BY <3>3 DEF SemInv
            <4>3. Failed(f)' = Failed(f) \cup {p} /\ p \notin Failed(f)
                BY <1>0, <2>1, <2>2, <3>3, <4>2 DEF Failed, TypeOK
            <4>4. Cardinality(Failed(f)') = Cardinality(Failed(f)) + 1
                BY <1>0, <4>3, Counts, FS_AddElement
            <4> QED BY <1>0, <2>1, <2>2, <3>0, <3>3, <4>1, <4>4, Counts DEF Balanced, sem_value
        <3> QED BY <2>2, <3>1, <3>2, <3>3
    <2> QED BY <1>0, <2>1, <2>2, <2>3, <2>4 DEF SemInv, TypeOK
<1>7. ASSUME NEW p \in Procs, SemUnlink(p) PROVE SemInv'
    <2>1. /\ name' = [name EXCEPT ![mode[p]] = none] /\ mode[p] = "recept"
          /\ UNCHANGED <<mode, pc, fd, sem, gaveup, lost>>
        BY <1>7 DEF SemUnlink, SemInv
    <2>2. \A f \in Procs : InUse(f)' => InUse(f)
        BY <1>0, <2>1 DEF InUse, TypeOK
    <2>3. \A f \in Procs : Balanced(f) => Balanced(f)'
        BY <2>1 DEF Balanced, At, Failed
    <2> QED BY <2>1, <2>2, <2>3 DEF SemInv
<1>8. ASSUME NEW p \in Procs, Kill(p) PROVE SemInv'
    <2>1. /\ pc[p] \notin Ended \cup {"never"} /\ pc' = [pc EXCEPT ![p] = "killed"]
          /\ fd' = [fd EXCEPT ![p] = none] /\ mode' = mode
          /\ lost' = IF pc[p] = "inside" THEN [lost EXCEPT ![fd[p]] = @ \cup {p}] ELSE lost
          /\ UNCHANGED <<name, sem, gaveup>>
        BY <1>8 DEF Kill, Released, Goto
    <2>2. /\ fd'[p] = none /\ \A q \in Procs \ {p} : fd'[q] = fd[q]
          /\ pc'[p] = "killed" /\ \A q \in Procs \ {p} : pc'[q] = pc[q]
        BY <1>0, <2>1 DEF TypeOK
    <2>3. \A f \in Procs : InUse(f)' => InUse(f)
        BY <2>1, <2>2 DEF InUse
    <2>4. \A f \in Procs : Failed(f)' = Failed(f)
        BY <1>0, <2>1, <2>2 DEF TypeOK, Failed
    <2>5. /\ pc[p] = "inside" => fd[p] \in Procs /\ lost'[fd[p]] = lost[fd[p]] \cup {p}
          /\ \A f \in Procs : pc[p] # "inside" \/ f # fd[p] => lost'[f] = lost[f]
        BY <1>0, <2>1 DEF TypeOK, Opened
    <2>6. ASSUME NEW f \in Procs, InUse(f) PROVE Balanced(f)'
        <3>0. Balanced(f)
            BY <2>6 DEF SemInv
        <3>1. CASE f # fd[p] \/ pc[p] # "inside"
            <4>1. At(f, "inside")' = At(f, "inside")
                BY <2>2, <3>1 DEF At
            <4> QED BY <2>1, <2>4, <2>5, <3>0, <3>1, <4>1, SameBalance
        <3>2. CASE f = fd[p] /\ pc[p] = "inside"
            <4>1. At(f, "inside")' = At(f, "inside") \ {p} /\ p \in At(f, "inside")
                BY <2>2, <3>2 DEF At
            <4>2. Cardinality(At(f, "inside")') = Cardinality(At(f, "inside")) - 1
                BY <1>0, <4>1, Counts, FS_RemoveElement
            <4>3. lost'[f] = lost[f] \cup {p} /\ p \notin lost[f]
                BY <2>5, <3>2 DEF SemInv
            <4>4. Cardinality(lost'[f]) = Cardinality(lost[f]) + 1
                BY <1>0, <4>3, Counts, FS_AddElement
            <4> QED BY <1>0, <2>1, <2>4, <3>0, <4>2, <4>4, Counts DEF Balanced, sem_value
        <3> QED BY <3>1, <3>2
    <2>7. \A q \in Procs : pc'[q] \in {"never", "init"} => pc[q] = pc'[q] /\ q # p
        BY <2>2
    <2>8. \A f \in Procs : pc[f] \in {"never", "init"} => f # fd[p]
        BY DEF SemInv, InUse
    <2> QED BY <1>0, <2>1, <2>2, <2>3, <2>5, <2>6, <2>7, <2>8 DEF SemInv, TypeOK
<1>9. ASSUME NEW p \in Procs, Step(p) \/ Event(p) PROVE SemInv'
    BY <1>2, <1>3, <1>4, <1>5, <1>6, <1>7, <1>8, <1>9
       DEF Step, Event, Access, Fopen, WritePidFile, PidFileFails, Bind, Stop, Drained, Remove,
           OpenLockFile, LockFile, Truncate, WriteLockFile, Sigterm
<1> QED BY <1>1, <1>9 DEF Next

\* A semaphore of zn_exclusive_lock lets one in at a time, and one more for every
\* wait that failed and was posted for (the destructor does not look whether
\* lock() threw), for any number of processes, killed wherever they are.
THEOREM SemaphoreCounts == Spec => []SemaphoreConserved
<1>1. Init => SemInv
    <2> SUFFICES ASSUME Init, design = "semaphore" PROVE SemInv
        BY DEF SemInv
    <2>1. mode \in [Procs -> {"recept"}]
        BY DEF Init
    <2>2. \A f \in Procs : ~InUse(f)
        BY SingleInstanceAssumption DEF Init, Modes, InUse
    <2> QED BY <2>1, <2>2 DEF Init, SemInv
<1>2. SemInv => SemaphoreConserved
    BY DEF SemInv, SemaphoreConserved, InUse, Balanced, Failed
<1>3. IInv /\ SemInv /\ [Next]_vars => SemInv'
    BY SemStep
<1> QED BY Invariance, <1>1, <1>2, <1>3, PTL DEF Spec
=============================================================================
