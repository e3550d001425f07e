-------------------------------- MODULE Nsim --------------------------------
(***************************************************************************)
(* The simulator of an NSIM host (src/cpp/sim_nsim), to which the sessions *)
(* of ImapSession connect: one accept loop and a thread for each accepted  *)
(* connection, which share the variable the descriptor is passed in, the   *)
(* table of descriptors and the index of each queue of answers.            *)
(***************************************************************************)
EXTENDS ImapSession, FiniteSets, FiniteSetsExt

CONSTANTS Queue,      \* mapCmdQue: the types of the answers of each command
          none

ASSUME NsimAssumption == /\ \A k \in DOMAIN Queue : Queue[k] \in Seq(STRING) \ {<<>>}
                         /\ "OTHER" \in DOMAIN Queue
                         /\ IsFiniteSet(Clients) /\ Clients # {} /\ none \notin Clients

VARIABLES
    up,               \* the process runs
    backlog,          \* connections not yet accepted
    slot,             \* *client_sockfd
    tab,              \* open descriptors: the connection of each
    th,               \* the threads, each with the name of the client accepted for it
    index,            \* mapCmdQueCount
    sent,             \* answers sent on each connection
    clash,            \* history: a thread found another connection than its own in slot
    cut               \* history: a line end was received in two parts

simVars == <<up, backlog, slot, tab, th, index, sent, clash, cut>>
vars == <<clientVars, simVars>>

\* Descriptors that a process with so many connections can come to.
Fds == 1 .. Cardinality(Clients)

NoThread == [pc |-> "none", fd |-> 0, on |-> none, got |-> <<>>, cmd |-> none,
             idx |-> 0, cur |-> 0]

Init == /\ ClientInit
        /\ up = TRUE /\ backlog = <<>> /\ slot = 0
        /\ tab = [f \in Fds |-> none]
        /\ th = [t \in Clients |-> NoThread]
        /\ index = [k \in DOMAIN Queue |-> 0]
        /\ sent = [c \in Clients |-> 0]
        /\ clash = FALSE
        /\ cut = [c \in Clients |-> FALSE]

\* zn_cimap_session::init
Connect(c) ==
    /\ cpc[c] = "off"
    /\ IF up THEN /\ backlog' = Append(backlog, c)
                  /\ ClientGoto(c, "welcome") /\ UNCHANGED ceof
             ELSE /\ ClientGoto(c, "broken") /\ ceof' = [ceof EXCEPT ![c] = TRUE]
                  /\ UNCHANGED backlog
    /\ UNCHANGED <<todo, c2s, s2c, seof, turn, odd, stray>>
    /\ UNCHANGED <<up, slot, tab, th, index, sent, clash, cut>>

-----------------------------------------------------------------------------
\* The process ends: by an error of accept or pthread_create, by a signal or by
\* an access outside its memory.
Dies == /\ up' = FALSE /\ backlog' = <<>>
        /\ tab' = [f \in Fds |-> none]
        /\ th' = [t \in Clients |-> NoThread]
        /\ seof' = [c \in Clients |-> seof[c] \/ cpc[c] # "off"]
        /\ UNCHANGED <<cpc, todo, c2s, s2c, ceof, turn, odd, stray>>
        /\ UNCHANGED <<slot, index, sent, clash, cut>>

MainFails == up /\ backlog # <<>> /\ Dies

\* The lowest free number, written to the one variable all threads are given.
Accept ==
    /\ up /\ backlog # <<>>
    /\ LET c == Head(backlog)
           f == Min({g \in Fds : tab[g] = none})
       IN /\ tab' = [tab EXCEPT ![f] = c] /\ slot' = f
          /\ th' = [th EXCEPT ![c] = [NoThread EXCEPT !.pc = "created"]]
    /\ backlog' = Tail(backlog)
    /\ UNCHANGED <<clientVars, up, index, sent, clash, cut>>

\* socketSubThreadRun reads the variable.
ReadSlot(t) ==
    /\ th[t].pc = "created"
    /\ th' = [th EXCEPT ![t].pc = "greet", ![t].fd = slot]
    /\ clash' = (clash \/ tab[slot] # t)
    /\ UNCHANGED <<clientVars, up, backlog, slot, tab, index, sent, cut>>

\* Between two requests a thread has nothing but its descriptor.
Between(t, label) == th' = [th EXCEPT ![t] = [NoThread EXCEPT !.pc = label, !.fd = th[t].fd]]

\* doSendBack: an answer goes to the connection that has the number now, and is
\* lost when its client has gone, unless SIGPIPE ends the process.
SendBack(t, next) ==
    LET d == tab[th[t].fd]
    IN \/ /\ d = none /\ Between(t, "close")
          /\ UNCHANGED <<clientVars, up, backlog, slot, tab, index, sent, clash, cut>>
       \/ /\ d # none /\ Between(t, next)
          /\ s2c' = IF ceof[d] THEN s2c ELSE [s2c EXCEPT ![d] = @ \o AnswerNo(sent[d])]
          /\ sent' = [sent EXCEPT ![d] = @ + 1]
          /\ UNCHANGED <<cpc, todo, c2s, ceof, seof, turn, odd, stray>>
          /\ UNCHANGED <<up, backlog, slot, tab, index, clash, cut>>
       \/ /\ d # none /\ ceof[d] /\ Dies

Greet(t) == th[t].pc = "greet" /\ SendBack(t, "recv")

\* A connection is open as long as a descriptor has it or a thread receives from it.
Held(d, tabs, threads) == \/ \E f \in Fds : tabs[f] = d
                          \/ \E t \in Clients : threads[t].pc = "receive" /\ threads[t].on = d
HangUp == seof' = [d \in Clients |-> seof[d] \/ (Held(d, tab, th) /\ ~ Held(d, tab', th'))]

\* Mutant: the variable of the accept loop says what is closed.
CloseFdShared(t) ==
    /\ th[t].pc = "close"
    /\ tab' = [tab EXCEPT ![slot] = none]
    /\ th' = [th EXCEPT ![t] = [NoThread EXCEPT !.pc = "end"]]
    /\ HangUp
    /\ UNCHANGED <<cpc, todo, c2s, s2c, ceof, turn, odd, stray>>
    /\ UNCHANGED <<up, backlog, slot, index, sent, clash, cut>>

\* close() at the end of a thread: of what has the number now.
CloseFd(t) ==
    /\ th[t].pc = "close"
    /\ tab' = [tab EXCEPT ![th[t].fd] = none]
    /\ th' = [th EXCEPT ![t] = [NoThread EXCEPT !.pc = "end"]]
    /\ HangUp
    /\ UNCHANGED <<cpc, todo, c2s, s2c, ceof, turn, odd, stray>>
    /\ UNCHANGED <<up, backlog, slot, index, sent, clash, cut>>

-----------------------------------------------------------------------------
\* doRequest.  recv is called on what has the number, and stays with it.
RecvCall(t) ==
    /\ th[t].pc = "recv"
    /\ LET d == tab[th[t].fd]
       IN th' = [th EXCEPT ![t].pc = IF d = none THEN "close" ELSE "receive", ![t].on = d]
    /\ UNCHANGED <<clientVars, up, backlog, slot, tab, index, sent, clash, cut>>

\* A line end in what this recv returned.
findCRLF(chunk) == \E i \in 1 .. Len(chunk) - 1 : SubSeq(chunk, i, i + 1) = CRLF

Recv(t) ==
    /\ th[t].pc = "receive" /\ c2s[th[t].on] # <<>>
    /\ LET d == th[t].on
       IN \E n \in 1 .. Len(c2s[d]) :
            LET chunk == SubSeq(c2s[d], 1, n)
                rest == SubSeq(c2s[d], n + 1, Len(c2s[d]))
            IN /\ c2s' = [c2s EXCEPT ![d] = rest]
               /\ th' = [th EXCEPT ![t].got = @ \o chunk, ![t].on = none,
                                   ![t].pc = IF findCRLF(chunk) THEN "parse" ELSE "recv"]
               /\ cut' = [cut EXCEPT ![d] = @ \/ (rest # <<>> /\ Head(rest) = "LF")]
               /\ odd' = [odd EXCEPT ![d] = @ \/ (findCRLF(chunk) /\
                              (rest # <<>> \/ cpc[d] \in {"literal", "crlf"}))]
    /\ UNCHANGED tab /\ HangUp
    /\ UNCHANGED <<cpc, todo, s2c, ceof, turn, stray>>
    /\ UNCHANGED <<up, backlog, slot, index, sent, clash>>

\* The client has closed; when it had not read everything, what it sent is lost.
RecvEnds(t) ==
    /\ th[t].pc = "receive" /\ ceof[th[t].on]
    /\ Between(t, "close") /\ UNCHANGED tab /\ HangUp
    /\ UNCHANGED <<cpc, todo, c2s, s2c, ceof, turn, odd, stray>>
    /\ UNCHANGED <<up, backlog, slot, index, sent, clash, cut>>

\* getImapCommand: the first word that is not blank; the text of a mail is a
\* command like any other.
Words(got) == SelectSeq(got, LAMBDA x : x \notin {"CR", "LF"})
Redirected(word) == IF word \in DOMAIN Queue THEN word ELSE "OTHER"

Command(got) == IF Words(got) = <<>> THEN "OTHER" ELSE Redirected(Head(Words(got)))

-----------------------------------------------------------------------------
\* doResponse: the command, and getCmdQueIndex.
GetCmdQueIndex(t) ==
    /\ th[t].pc = "parse"
    /\ LET k == Command(th[t].got)
       IN th' = [th EXCEPT ![t].pc = "compare", ![t].got = <<>>, ![t].cmd = k, ![t].idx = index[k]]
    /\ UNCHANGED <<clientVars, up, backlog, slot, tab, index, sent, clash, cut>>

\* cmdQueIndexIncrement: the index is read and compared, then changed, with no
\* lock; an increment may start from the value another thread is about to change.
CompareIndex(t) ==
    /\ th[t].pc = "compare"
    /\ th' = [th EXCEPT ![t].pc = "increment", ![t].cur = index[th[t].cmd]]
    /\ UNCHANGED <<clientVars, up, backlog, slot, tab, index, sent, clash, cut>>

\* Mutant: the comparison is with the size, not with the last place.
CmdQueIndexIncrementLate(t) ==
    /\ th[t].pc = "increment"
    /\ LET k == th[t].cmd
       IN IF th[t].cur <= Len(Queue[k])
            THEN \E from \in {index[k], th[t].cur} : index' = [index EXCEPT ![k] = from + 1]
            ELSE index' = [index EXCEPT ![k] = 0]
    /\ th' = [th EXCEPT ![t].pc = "respond", ![t].cur = 0]
    /\ UNCHANGED <<clientVars, up, backlog, slot, tab, sent, clash, cut>>

CmdQueIndexIncrement(t) ==
    /\ th[t].pc = "increment"
    /\ LET k == th[t].cmd
       IN IF th[t].cur < Len(Queue[k]) - 1
            THEN \E from \in {index[k], th[t].cur} : index' = [index EXCEPT ![k] = from + 1]
            ELSE index' = [index EXCEPT ![k] = 0]
    /\ th' = [th EXCEPT ![t].pc = "respond", ![t].cur = 0]
    /\ UNCHANGED <<clientVars, up, backlog, slot, tab, sent, clash, cut>>

\* The answer at the index; behind the queue's end there is anything.  Only type 0
\* goes on with the session.
Respond(t) ==
    /\ th[t].pc = "respond"
    /\ LET answers == Queue[th[t].cmd]
           type == IF th[t].idx < Len(answers) THEN {answers[th[t].idx + 1]} ELSE {"0", "1"}
       IN \E y \in type : SendBack(t, IF y = "0" THEN "recv" ELSE "close")

\* The second loop of trim runs below the start of a string of blanks, and doResponse
\* reads behind the end of a queue.
OutOfBounds(t) == \/ th[t].pc = "parse" /\ Words(th[t].got) = <<>>
                  \/ th[t].pc = "respond" /\ th[t].idx >= Len(Queue[th[t].cmd])

Faults(t) == OutOfBounds(t) /\ Dies

ThreadStep(t) == \/ ReadSlot(t) \/ Greet(t) \/ RecvCall(t) \/ Recv(t) \/ RecvEnds(t)
                 \/ GetCmdQueIndex(t) \/ CompareIndex(t) \/ CmdQueIndexIncrement(t)
                 \/ Respond(t) \/ Faults(t) \/ CloseFd(t)

Next == \/ Accept \/ MainFails
        \/ \E c \in Clients : Connect(c) \/ (ClientStep(c) /\ UNCHANGED simVars)
                              \/ ThreadStep(c)

\* Every process and every thread goes on as long as it can.
Fairness == /\ WF_vars(Accept)
            /\ \A c \in Clients : /\ WF_vars(ClientStep(c) /\ UNCHANGED simVars)
                                  /\ WF_vars(ThreadStep(c))

Spec == Init /\ [][Next]_vars /\ Fairness

-----------------------------------------------------------------------------
ThreadLabels == {"none", "created", "greet", "recv", "receive", "parse", "compare",
                 "increment", "respond", "close", "end"}

\* Types; a process that has ended has no threads and nothing open.
TypeOK == /\ ClientTypeOK
          /\ up \in BOOLEAN /\ slot \in Fds \cup {0}
          /\ Range(backlog) \subseteq Clients
          /\ tab \in [Fds -> Clients \cup {none}]
          /\ \A t \in Clients : /\ th[t].pc \in ThreadLabels
                                /\ th[t].fd \in Fds \cup {0}
                                /\ th[t].on \in Clients \cup {none}
                                /\ th[t].cmd \in DOMAIN Queue \cup {none}
          /\ DOMAIN index = DOMAIN Queue /\ index \in [DOMAIN Queue -> Nat]
          /\ ~ up => \A t \in Clients : th[t] = NoThread
          /\ ~ up => \A f \in Fds : tab[f] = none

\* The index of a queue is behind its end only by threads that compared it before
\* others changed it: by no more than the threads but one, so with one client
\* never.
IndexBound ==
    \A k \in DOMAIN Queue : index[k] <= Len(Queue[k]) - 1 + (Cardinality(Clients) - 1)

Serving == {"greet", "recv", "receive", "parse", "compare", "increment", "respond",
            "close"}

\* As long as every thread found its own descriptor, a thread serves the connection
\* it was made for to the end and closes no other one, although numbers are used
\* again.
OwnConnection ==
    ~ clash => \A t \in Clients : th[t].pc \in Serving =>
                   tab[th[t].fd] = t /\ th[t].on \in {none, t}

\* The client reads, for each command, the whole answer to that command and nothing
\* else, unless a read returned part of an answer, the simulator answered part of a
\* request, or threads were mixed up.  Nothing in an answer tells the client.
OwnAnswer == \A c \in Clients : stray[c] => clash

\* A session comes to its end, even when the simulator dies, except when its line
\* end was received in two parts or its connection got no thread of its own.
SessionEnds == \A c \in Clients : (cpc[c] # "off") ~> (cpc[c] \in Over \/ cut[c] \/ clash)
=============================================================================
