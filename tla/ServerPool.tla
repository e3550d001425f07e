----------------------------- MODULE ServerPool -----------------------------
(***************************************************************************)
(* The family of servers in src/unpv13e/server: one protocol (web_child)   *)
(* behind different ways to give each connection to a process or a thread. *)
(* A design is chosen at the start.  Clients connect, are answered and     *)
(* close (client.c); a bad one sends what web_child ends its process for,  *)
(* or resets the connection (clientrst.c).                                 *)
(***************************************************************************)
EXTENDS Naturals, Sequences, FiniteSets

CONSTANTS Clients, Bad,
          N,         \* nchildren, nthreads
          MAXNCLI,   \* places in the ring of serv08
          MsgLen,    \* bytes in the longest message of err_quit and err_sys
          main, none, pipe  \* the main thread; no connection; a descriptor on its way

ASSUME ServerPoolAssumption == /\ IsFiniteSet(Clients) /\ Bad \subseteq Clients
                               /\ N \in Nat \ {0} /\ MAXNCLI \in Nat \ {0, 1}
                               /\ MsgLen \in Nat \ {0}
                               /\ Clients \cap (1 .. N) = {}
                               /\ {main, pipe, none} \cap (Clients \cup 1 .. N) = {}
                               /\ main # pipe /\ main # none /\ pipe # none

\* Who takes a connection from the listening socket, and who serves it: the
\* same thread of control, one made for it, or one of a pool that gets it
\* through a stream pipe or through the ring.
serv00 == [threads |-> FALSE, pool |-> FALSE, lock |-> FALSE, by |-> "main"]
serv01 == [threads |-> FALSE, pool |-> FALSE, lock |-> FALSE, by |-> "new"]
serv02 == [threads |-> FALSE, pool |-> TRUE, lock |-> FALSE, by |-> "acceptor"]
serv03 == [threads |-> FALSE, pool |-> TRUE, lock |-> TRUE, by |-> "acceptor"]
serv04 == [threads |-> FALSE, pool |-> TRUE, lock |-> TRUE, by |-> "acceptor"]
serv05 == [threads |-> FALSE, pool |-> TRUE, lock |-> FALSE, by |-> "pipe"]
serv06 == [threads |-> TRUE, pool |-> FALSE, lock |-> FALSE, by |-> "new"]
serv07 == [threads |-> TRUE, pool |-> TRUE, lock |-> TRUE, by |-> "acceptor"]
serv08 == [threads |-> TRUE, pool |-> TRUE, lock |-> FALSE, by |-> "ring"]
serv09 == [threads |-> TRUE, pool |-> TRUE, lock |-> FALSE, by |-> "acceptor"]

Pool == 1 .. N
Workers == Pool \cup Clients   \* one made for a connection has its client's name
Actors == Workers \cup {main}

VARIABLES
    design,
    backlog,          \* connections that wait in the kernel
    out,              \* what each client has seen
    pc, hold,         \* each process or thread, and the connection it has in hand
    open,             \* who has a descriptor of the connection
    lock,             \* my_lock_wait, mlock: who may call accept
    clifd, iget, iput,             \* the ring
    status, navail, sel,           \* serv05: child_status; what select found
    inbox, ready,     \* serv05: descriptors and bytes in each stream pipe
    made              \* children or threads made so far

ring == <<clifd, iget, iput>>
pipes == <<status, navail, sel, inbox, ready>>
vars == <<design, backlog, out, pc, hold, open, lock, ring, pipes, made>>

Alive(x) == pc[x] \notin {"none", "dead"}

\* The listening socket is open in somebody.
Listening == \/ Alive(main)
             \/ design.by = "acceptor" /\ \E w \in Pool : Alive(w)

Init == /\ design \in {serv00, serv01, serv02, serv03, serv04, serv05, serv06, serv07,
                       serv08, serv09}
        /\ backlog = <<>>
        /\ out = [c \in Clients |-> "none"]
        /\ pc = [x \in Actors |-> IF x = main THEN "start" ELSE "none"]
        /\ hold = [x \in Actors |-> none]
        /\ open = [c \in Clients |-> {}]
        /\ lock = none
        /\ clifd = [i \in 0 .. MAXNCLI - 1 |-> none] /\ iget = 0 /\ iput = 0
        /\ status = [w \in Pool |-> 0] /\ navail = N
        /\ sel = [listen |-> FALSE, kids |-> {}]
        /\ inbox = [w \in Pool |-> <<>>] /\ ready = [w \in Pool |-> 0]
        /\ made = 0

Goto(x, label) == pc' = [pc EXCEPT ![x] = label]
Hand(x, c) == hold' = [hold EXCEPT ![x] = c]

-----------------------------------------------------------------------------
\* client.c
Connect(c) == /\ out[c] = "none" /\ Listening
              /\ out' = [out EXCEPT ![c] = "waiting"]
              /\ backlog' = Append(backlog, c)
              /\ UNCHANGED <<design, pc, hold, open, lock, ring, pipes, made>>

ClientCloses(c) == /\ out[c] = "answered"
                   /\ out' = [out EXCEPT ![c] = "closed"]
                   /\ UNCHANGED <<design, backlog, pc, hold, open, lock, ring, pipes, made>>

-----------------------------------------------------------------------------
\* A process ends with all its threads, and with what is in their pipes.
Ends(x) == IF design.threads THEN Actors ELSE {x}

\* What has been passed to a child of serv05 and not received.
Sent(w) == {inbox[w][i] : i \in DOMAIN inbox[w]}

\* The process of x ends.  A record lock (serv03) is dropped then; a mutex in
\* shared memory (serv04) would stay locked, but a child that holds one ends
\* only together with all the others.
Die(x) == /\ pc' = [y \in Actors |-> IF y \in Ends(x) THEN "dead" ELSE pc[y]]
          /\ hold' = [y \in Actors |-> IF y \in Ends(x) THEN none ELSE hold[y]]
          /\ open' = [c \in Clients |->
                        open[c] \ (Ends(x) \cup {y \in {pipe} : x \in Pool /\ c \in Sent(x)})]
          /\ lock' = IF lock \in Ends(x) THEN none ELSE lock
          /\ UNCHANGED <<design, backlog, out, ring, pipes, made>>

\* child_make, thread_make: one of the pool after the other.
Make == /\ pc[main] = "start" /\ design.pool /\ made < N
        /\ made' = made + 1
        /\ Goto(made + 1, "idle")
        /\ UNCHANGED <<design, backlog, out, hold, open, lock, ring, pipes>>

\* Signal(SIGINT, sig_int), after the pool is there.
Made == /\ pc[main] = "start" /\ (design.pool => made = N)
        /\ Goto(main, "loop")
        /\ UNCHANGED <<design, backlog, out, hold, open, lock, ring, pipes, made>>

\* A connection leaves the backlog, into the hands of x.
Take(x) == /\ backlog # <<>>
           /\ backlog' = Tail(backlog)
           /\ Hand(x, Head(backlog))
           /\ open' = [open EXCEPT ![Head(backlog)] = {x}]

\* main accepts: to serve the connection itself, to make a child or a thread for
\* it, or to put it into the ring.
MainAccepts == /\ pc[main] = "loop" /\ design.by \in {"main", "new", "ring"}
               /\ Take(main)
               /\ Goto(main, IF design.by = "main" THEN "busy" ELSE "accepted")
               /\ UNCHANGED <<design, out, lock, ring, pipes, made>>

\* Mutant: the parent keeps its descriptor.
NewWorkerKept ==
    /\ pc[main] = "accepted" /\ design.by = "new"
    /\ LET c == hold[main]
       IN  /\ pc' = [pc EXCEPT ![main] = "loop", ![c] = "busy"]
           /\ hold' = [hold EXCEPT ![main] = none, ![c] = c]
           /\ open' = [open EXCEPT ![c] = IF design.threads THEN {c} ELSE {c, main}]
    /\ UNCHANGED <<design, backlog, out, lock, ring, pipes, made>>

\* fork and the parent's Close, or pthread_create.
NewWorker ==
    /\ pc[main] = "accepted" /\ design.by = "new"
    /\ LET c == hold[main]
       IN  /\ pc' = [pc EXCEPT ![main] = "loop", ![c] = "busy"]
           /\ hold' = [hold EXCEPT ![main] = none, ![c] = c]
           /\ open' = [open EXCEPT ![c] = {c}]
    /\ UNCHANGED <<design, backlog, out, lock, ring, pipes, made>>

-----------------------------------------------------------------------------
\* Pools whose members call accept, some of them one at a time.
MyLockWait(w) == /\ pc[w] = "idle" /\ design.by = "acceptor" /\ design.lock
                 /\ lock = none
                 /\ lock' = w
                 /\ Goto(w, "locked")
                 /\ UNCHANGED <<design, backlog, out, hold, open, ring, pipes, made>>

ChildAccepts(w) == /\ design.by = "acceptor"
                   /\ pc[w] = IF design.lock THEN "locked" ELSE "idle"
                   /\ Take(w)
                   /\ Goto(w, IF design.lock THEN "release" ELSE "busy")
                   /\ UNCHANGED <<design, out, lock, ring, pipes, made>>

MyLockRelease(w) == /\ pc[w] = "release"
                    /\ lock' = none
                    /\ Goto(w, "busy")
                    /\ UNCHANGED <<design, backlog, out, hold, open, ring, pipes, made>>

-----------------------------------------------------------------------------
\* serv08.  Mutant: the server does not notice that the ring is full.
PutUnchecked ==
    /\ pc[main] = "accepted" /\ design.by = "ring"
    /\ clifd' = [clifd EXCEPT ![iput] = hold[main]]
    /\ iput' = (iput + 1) % MAXNCLI
    /\ open' = [open EXCEPT ![hold[main]] = {pipe}]
    /\ Hand(main, none)
    /\ \E woken \in {w \in Pool : pc[w] = "asleep"} \cup {main} :
           pc' = [x \in Actors |-> IF x = main THEN "loop"
                                   ELSE IF x = woken THEN "idle" ELSE pc[x]]
    /\ UNCHANGED <<design, backlog, out, lock, iget, pipes, made>>

\* The main thread puts a connection into the ring, under clifd_mutex, and wakes
\* one of those that wait.  (A descriptor in the ring is nobody's in particular.)
Put ==
    /\ pc[main] = "accepted" /\ design.by = "ring"
    /\ (iput + 1) % MAXNCLI # iget
    /\ clifd' = [clifd EXCEPT ![iput] = hold[main]]
    /\ iput' = (iput + 1) % MAXNCLI
    /\ open' = [open EXCEPT ![hold[main]] = {pipe}]
    /\ Hand(main, none)
    /\ LET asleep == {w \in Pool : pc[w] = "asleep"}
       IN  \E woken \in IF asleep = {} THEN {main} ELSE asleep :
               pc' = [pc EXCEPT ![main] = "loop",
                                ![woken] = IF woken = main THEN "loop" ELSE "idle"]
    /\ UNCHANGED <<design, backlog, out, lock, iget, pipes, made>>

\* err_quit: one more connection than the ring has places for.
PutFull == /\ pc[main] = "accepted" /\ design.by = "ring"
           /\ (iput + 1) % MAXNCLI = iget
           /\ Die(main)

Sleep(w) == /\ pc[w] = "idle" /\ design.by = "ring" /\ iget = iput
            /\ Goto(w, "asleep")
            /\ UNCHANGED <<design, backlog, out, hold, open, lock, ring, pipes, made>>

Get(w) == /\ pc[w] = "idle" /\ design.by = "ring" /\ iget # iput
          /\ Hand(w, clifd[iget])
          /\ open' = [open EXCEPT ![clifd[iget]] = {w}]
          /\ iget' = (iget + 1) % MAXNCLI
          /\ clifd' = [clifd EXCEPT ![iget] = none]
          /\ Goto(w, "busy")
          /\ UNCHANGED <<design, backlog, out, lock, iput, pipes, made>>

-----------------------------------------------------------------------------
\* serv05.  select: new connections, unless nobody is free, and the pipes of
\* children that have written their byte or have gone.
Readable == {w \in Pool : ready[w] > 0 \/ pc[w] = "dead"}
Waiting == navail > 0 /\ backlog # <<>>

Select == /\ pc[main] = "loop" /\ design.by = "pipe"
          /\ Waiting \/ Readable # {}
          /\ sel' = [listen |-> Waiting, kids |-> Readable]
          /\ Goto(main, "selected")
          /\ UNCHANGED <<design, backlog, out, hold, open, lock, ring, status, navail,
                         inbox, ready, made>>

AcceptSelected ==
    /\ pc[main] = "selected" /\ sel.listen
    /\ Take(main)
    /\ sel' = [sel EXCEPT !.listen = FALSE]
    /\ Goto(main, "pass")
    /\ UNCHANGED <<design, out, lock, ring, status, navail, inbox, ready, made>>

Free == {w \in Pool : status[w] = 0}

FirstFree == CHOOSE i \in Free : \A j \in Free : i <= j

\* The first free child gets the descriptor, and the parent closes its own.
PassDescriptor ==
    /\ pc[main] = "pass" /\ Free # {} /\ Alive(FirstFree)
    /\ LET w == FirstFree
           c == hold[main]
       IN  /\ status' = [status EXCEPT ![w] = 1]
           /\ navail' = navail - 1
           /\ inbox' = [inbox EXCEPT ![w] = Append(@, c)]
           /\ open' = [open EXCEPT ![c] = {pipe}]
           /\ Hand(main, none)
    /\ Goto(main, "selected")
    /\ UNCHANGED <<design, backlog, out, lock, ring, sel, ready, made>>

\* The parent ends: by err_quit, "no available children", or by SIGPIPE when the
\* child it takes for free is dead.
PassFails == /\ pc[main] = "pass"
             /\ Free # {} => ~Alive(FirstFree)
             /\ Die(main)

\* Mutant: the child is free again and nobody counts it.
ReadByteUncounted(w) ==
    /\ pc[main] = "selected" /\ ~sel.listen /\ w \in sel.kids /\ ready[w] > 0
    /\ ready' = [ready EXCEPT ![w] = @ - 1]
    /\ status' = [status EXCEPT ![w] = 0]
    /\ sel' = [sel EXCEPT !.kids = @ \ {w}]
    /\ UNCHANGED <<design, backlog, out, pc, hold, open, lock, ring, navail, inbox, made>>

\* One byte, whatever it is: that of a child which is ready again, or the next
\* one of its last message.
ReadByte(w) ==
    /\ pc[main] = "selected" /\ ~sel.listen /\ w \in sel.kids /\ ready[w] > 0
    /\ ready' = [ready EXCEPT ![w] = @ - 1]
    /\ status' = [status EXCEPT ![w] = 0]
    /\ navail' = navail + 1
    /\ sel' = [sel EXCEPT !.kids = @ \ {w}]
    /\ UNCHANGED <<design, backlog, out, pc, hold, open, lock, ring, inbox, made>>

\* err_quit, "child terminated unexpectedly": there is nothing left in the pipe.
ParentQuits == /\ pc[main] = "selected" /\ ~sel.listen
               /\ \E w \in sel.kids : ready[w] = 0
               /\ Die(main)

SelectedDone == /\ pc[main] = "selected" /\ ~sel.listen /\ sel.kids = {}
                /\ Goto(main, "loop")
                /\ UNCHANGED <<design, backlog, out, hold, open, lock, ring, pipes, made>>

ReadFd(w) == /\ pc[w] = "idle" /\ design.by = "pipe" /\ inbox[w] # <<>>
             /\ Hand(w, Head(inbox[w]))
             /\ open' = [open EXCEPT ![Head(inbox[w])] = {w}]
             /\ inbox' = [inbox EXCEPT ![w] = Tail(@)]
             /\ Goto(w, "busy")
             /\ UNCHANGED <<design, backlog, out, lock, ring, status, navail, sel, ready,
                            made>>

\* read_fd returns 0: the other end is open no more, neither in the parent nor
\* in the children made later, which have inherited it.
ReadFdEof(w) == /\ pc[w] = "idle" /\ design.by = "pipe" /\ inbox[w] = <<>>
                /\ ~Alive(main) /\ \A v \in Pool : v > w => ~Alive(v)
                /\ Die(w)

\* Mutant: the parent is not told.
TellParentNot(w) == /\ pc[w] = "tell"
                    /\ Goto(w, "idle")
                    /\ UNCHANGED <<design, backlog, out, hold, open, lock, ring, pipes, made>>

TellParent(w) == /\ pc[w] = "tell"
                 /\ ready' = [ready EXCEPT ![w] = @ + 1]
                 /\ Goto(w, "idle")
                 /\ UNCHANGED <<design, backlog, out, hold, open, lock, ring, status, navail,
                                sel, inbox, made>>

-----------------------------------------------------------------------------
\* web_child, in whoever has the connection.
Answer(x) == /\ pc[x] = "busy" /\ hold[x] \notin Bad /\ out[hold[x]] = "waiting"
             /\ out' = [out EXCEPT ![hold[x]] = "answered"]
             /\ UNCHANGED <<design, backlog, pc, hold, open, lock, ring, pipes, made>>

\* err_quit, err_sys when the connection was reset, or SIGPIPE on an answer to a
\* client that has gone.
BadRequest(x) == /\ pc[x] = "busy" /\ hold[x] \in Bad
                 /\ design.by # "pipe"
                 /\ Die(x)

\* A child of serv05 has the stream pipe for its standard error, so err_quit and
\* err_sys write their message to the parent, where SIGPIPE writes nothing ...
Complain(w) ==
    /\ pc[w] = "busy" /\ hold[w] \in Bad /\ design.by = "pipe"
    /\ \E n \in 0 .. MsgLen : ready' = [ready EXCEPT ![w] = @ + n]
    /\ Goto(w, "quits")
    /\ UNCHANGED <<design, backlog, out, hold, open, lock, ring, status, navail, sel, inbox,
                   made>>

\* ... and then the child exits.
Exit(w) == /\ pc[w] = "quits"
           /\ Die(w)

\* The client has closed: web_child returns and the descriptor is closed.
CloseConn(x) ==
    /\ pc[x] = "busy" /\ out[hold[x]] = "closed"
    /\ open' = [open EXCEPT ![hold[x]] = @ \ {x}]
    /\ Hand(x, none)
    /\ Goto(x, IF x = main THEN "loop"
               ELSE IF x \in Clients THEN "dead"
               ELSE IF design.by = "pipe" THEN "tell" ELSE "idle")
    /\ UNCHANGED <<design, backlog, out, lock, ring, pipes, made>>

-----------------------------------------------------------------------------
\* SIGINT to the server.  Before it has its handler it just ends.  With a pool
\* of processes the handler terminates them and waits; else it exits.
Sigint == \/ /\ pc[main] \notin {"stop", "dead"}
             /\ ~(design.pool /\ ~design.threads) \/ pc[main] = "start"
             /\ Die(main)
          \/ /\ pc[main] \notin {"start", "stop", "dead"}
             /\ design.pool /\ ~design.threads
             /\ Goto(main, "stop")
             /\ UNCHANGED <<design, backlog, out, hold, open, lock, ring, pipes, made>>

Terminated(w) == /\ pc[main] = "stop" /\ Alive(w)
                 /\ Die(w)

\* Mutant: the server does not wait for the last child.
StopDoneEarly == /\ pc[main] = "stop"
                 /\ \A w \in Pool : Alive(w) => w = N
                 /\ Die(main)

StopDone == /\ pc[main] = "stop"
            /\ \A w \in Pool : ~Alive(w)
            /\ Die(main)

-----------------------------------------------------------------------------
Main == \/ Make \/ Made \/ MainAccepts \/ NewWorker \/ Put \/ PutFull
        \/ Select \/ AcceptSelected \/ PassDescriptor \/ (\E w \in Pool : ReadByte(w))
        \/ PassFails \/ ParentQuits \/ SelectedDone \/ StopDone

PoolStep(w) == \/ MyLockWait(w) \/ ChildAccepts(w) \/ MyLockRelease(w)
               \/ Sleep(w) \/ Get(w) \/ ReadFd(w) \/ ReadFdEof(w) \/ TellParent(w)
               \/ Complain(w) \/ Exit(w) \/ Terminated(w)

Serve(x) == Answer(x) \/ BadRequest(x) \/ CloseConn(x)

Next == \/ Main \/ Sigint
        \/ \E w \in Pool : PoolStep(w)
        \/ \E x \in Actors : Serve(x)
        \/ \E c \in Clients : Connect(c) \/ ClientCloses(c)

\* Processes and threads run; clients close once they have their answer.
Fairness == /\ WF_vars(Main)
            /\ \A w \in Pool : WF_vars(PoolStep(w))
            /\ \A x \in Actors : WF_vars(Serve(x))
            /\ \A c \in Clients : WF_vars(ClientCloses(c))

Spec == Init /\ [][Next]_vars /\ Fairness

-----------------------------------------------------------------------------
Slots == 0 .. MAXNCLI - 1

DesignOK ==
    /\ design.threads \in BOOLEAN /\ design.pool \in BOOLEAN /\ design.lock \in BOOLEAN
    /\ design.by \in {"main", "new", "acceptor", "pipe", "ring"}

PcOK ==
    /\ DOMAIN pc = Actors
    /\ pc[main] \in {"start", "loop", "busy", "accepted", "selected", "pass", "stop", "dead"}
    /\ \A w \in Pool :
          pc[w] \in {"none", "idle", "locked", "release", "busy", "asleep", "tell", "quits",
                    "dead"}
    /\ \A c \in Clients : pc[c] \in {"none", "busy", "dead"}

ConnOK ==
    /\ backlog \in Seq(Clients)
    /\ hold \in [Actors -> Clients \cup {none}]
    /\ open \in [Clients -> SUBSET (Actors \cup {pipe})]

RingOK == clifd \in [Slots -> Clients \cup {none}] /\ iget \in Slots /\ iput \in Slots

PipesOK ==
    /\ status \in [Pool -> {0, 1}] /\ navail \in Nat
    /\ sel \in [listen : BOOLEAN, kids : SUBSET Pool]
    /\ inbox \in [Pool -> Seq(Clients)] /\ ready \in [Pool -> 0 .. MsgLen]

TypeOK ==
    /\ DesignOK /\ PcOK /\ ConnOK /\ RingOK /\ PipesOK
    /\ out \in [Clients -> {"none", "waiting", "answered", "closed"}]
    /\ lock \in Pool \cup {none}
    /\ made \in 0 .. N

\* Where a connection is in the server.
Places(c) == {x \in Actors : hold[x] = c} \cup {w \in Pool : Alive(w) /\ c \in Sent(w)}
InRing(c) == \E i \in Slots : clifd[i] = c

\* Children whose client was a bad one.
Spoilt == {w \in Pool : pc[w] \in {"quits", "dead"}}

\* Every design gives an accepted connection to exactly one process or thread,
\* and keeps a descriptor of it for just as long: while the server runs, a good
\* client that has no answer yet is in the backlog or in exactly one place with
\* its connection open; nobody has two; and a finished one is closed everywhere.
\* But in serv05 a child that exits takes those with it that were passed to it
\* after its message: one for each byte the parent has read, and no more.
ServedOnce ==
    /\ \A c \in Clients :
          /\ Cardinality(Places(c)) + (IF InRing(c) THEN 1 ELSE 0) <= 1
          /\ open[c] \subseteq Places(c) \cup {pipe}
          /\ (out[c] = "waiting" /\ c \notin Bad /\ pc[main] \notin {"stop", "dead"})
                => \/ \E i \in DOMAIN backlog : backlog[i] = c
                   \/ Places(c) # {} \/ InRing(c)
                   \/ \E w \in Spoilt : ~Alive(w) /\ c \in Sent(w)
          /\ out[c] = "answered" /\ pc[main] \notin {"stop", "dead"} => open[c] # {}
    /\ \A w \in Pool : Len(inbox[w]) + ready[w] <= IF w \in Spoilt THEN MsgLen ELSE 1

\* The parent of serv05 never takes too few children for free, and too many only
\* by the bytes of its children's last messages: navail counts each of them, the
\* marks of a child only its first.  So a child that is marked free has nothing
\* to do unless it is about to exit, and with all children well the count is right.
NavailBound ==
    design.by = "pipe" /\ pc[main] # "dead" =>
        /\ Cardinality(Free) <= navail
        /\ navail <= Cardinality(Free) + (MsgLen - 1) * Cardinality(Spoilt)
        /\ pc[main] = "pass" /\ Free = {} => Spoilt # {}
        /\ \A w \in Free \ Spoilt :
              /\ hold[w] = none /\ inbox[w] = <<>> /\ ready[w] = 0
              /\ pc[main] \notin {"start", "stop"} => pc[w] = "idle"

\* The ring of serv08 never gives up a connection it has not handed out, and
\* nobody sleeps while there are more connections than threads awake.
RingRight ==
    design.by = "ring" /\ Alive(main) =>
        /\ \A i \in Slots :
               clifd[i] # none <=> (i - iget) % MAXNCLI < (iput - iget) % MAXNCLI
        /\ (\E w \in Pool : pc[w] = "asleep") =>
               (iput - iget) % MAXNCLI <= Cardinality({w \in Pool : pc[w] = "idle"})

\* When the server can serve nobody any more.
Gone == IF design.by = "acceptor" /\ ~design.threads
        THEN made > 0 /\ \A w \in Pool : ~Alive(w)
        ELSE pc[main] = "dead"

\* Whatever the design and whatever bad clients do, a good client that connects
\* is answered, unless the server is stopped or what is left of it cannot
\* accept: a bad client takes down its own process and nothing else in serv01,
\* one child after the other in serv02 to serv04.
GoodAnswered ==
    \A c \in Clients \ Bad :
        out[c] = "waiting" ~> (out[c] # "waiting" \/ Gone \/ pc[main] \in {"stop", "dead"})

\* A server that stops leaves nobody of its pool behind: neither after SIGINT
\* nor, in serv05, after the parent has quit, when the children go one after
\* the other.  (A parent that is interrupted before it has its handler leaves
\* its children to themselves in serv02 to serv04.)
NobodyLeft ==
    /\ pc[main] = "stop" ~> \A x \in Pool \cup {main} : ~Alive(x)
    /\ (design.by = "pipe" \/ design.threads) /\ pc[main] = "dead"
            ~> \A w \in Pool : ~Alive(w)
=============================================================================
