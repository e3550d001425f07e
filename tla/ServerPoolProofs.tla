--------------------------- MODULE ServerPoolProofs ---------------------------
(***************************************************************************)
(* What the server designs guarantee for any number of clients, children   *)
(* or threads and places in the ring.                                      *)
(***************************************************************************)
EXTENDS ServerPool, FiniteSetTheorems, WellFoundedInduction, TLAPS

USE DEF ring, pipes

\* The actors are told apart.
LEMMA Names ==
    /\ main \notin Pool /\ main \notin Clients /\ main \in Actors
    /\ none \notin Actors /\ pipe \notin Actors /\ main # none /\ pipe # none
    /\ \A w \in Pool : w \notin Clients /\ w \in Actors /\ w \in Nat
    /\ \A c \in Clients : c \in Actors
    /\ IsFiniteSet(Pool) /\ N \in Nat /\ MAXNCLI \in Nat \ {0, 1}
    /\ MsgLen \in Nat /\ MsgLen >= 1
<1>1. IsFiniteSet(1 .. N)
    BY FS_Interval, ServerPoolAssumption
<1> QED
    BY <1>1, ServerPoolAssumption DEF Pool, Workers, Actors

\* Every nonempty set of numbers has a least one.
LEMMA Least ==
    ASSUME NEW T \in SUBSET Nat, T # {}
    PROVE  \E x \in T : \A y \in T : x <= y
<1>1. PICK Less : Less = {ss \in Nat \X Nat : ss[1] < ss[2]}
    OBVIOUS
<1>2. Less = OpToRel(<, Nat)
    BY <1>1 DEF OpToRel
<1>3. IsWellFoundedOn(Less, Nat)
    BY <1>2, NatLessThanWellFounded, Zenon
<1>4. PICK x \in T : \A y \in T : <<y, x>> \notin Less
    BY <1>3, WFMin
<1>5. \A y \in Nat : y < x => <<y, x>> \in Less
    BY <1>1
<1>6. \A y \in T : ~(y < x)
    BY <1>4, <1>5
<1> QED BY <1>6

\* The loop over cptr[] finds a free child when there is one.
LEMMA FirstFound ==
    ASSUME Free # {}
    PROVE  FirstFree \in Free
<1>1. Free \in SUBSET Nat
    BY Names DEF Free
<1>2. \E i \in Free : \A j \in Free : i <= j
    BY <1>1, Least
<1> QED BY <1>2 DEF FirstFree

-----------------------------------------------------------------------------
(* The inductive invariant.                                                *)

\* The states in which one has a connection in hand.
Holding == {"busy", "accepted", "release", "pass", "quits"}

\* Which design goes where, and who has a connection in hand.
Shape ==
    /\ design.by = "pipe" => design.pool /\ ~design.threads
    /\ design.by = "ring" => design.pool /\ design.threads
    /\ design.by = "ring" /\ pc[main] = "dead" => \A w \in Pool : pc[w] = "dead"
    /\ pc[main] = "busy" => design.by = "main"
    /\ pc[main] = "accepted" => design.by \in {"new", "ring"}
    /\ pc[main] \in {"selected", "pass"} => design.by = "pipe"
    /\ pc[main] = "stop" => design.pool /\ ~design.threads
    /\ \A w \in Pool :
          /\ pc[w] \in {"locked", "release"} => design.by = "acceptor"
          /\ pc[w] = "asleep" => design.by = "ring"
          /\ pc[w] \in {"tell", "quits"} => design.by = "pipe"
          /\ pc[w] = "quits" => hold[w] \in Bad
          /\ w > made => pc[w] \in {"none", "dead"}
          /\ pc[w] = "none" => inbox[w] = <<>>
          /\ design.by # "pipe" => inbox[w] = <<>> /\ ready[w] = 0
    /\ \A x \in Actors :
          /\ pc[x] \in Holding => hold[x] # none
          /\ hold[x] # none => pc[x] \in Holding \cup {"stop"}
    /\ \A c \in Clients : hold[c] \in {c, none}

\* The main process is through with its start and not yet stopping.
Settled == pc[main] \notin {"start", "stop"}

\* serv05: what the parent has given to a child and what the child has written, a
\* mark in cptr[] counted as one: one of these at a time, until the last message.
Tokens(w) == Len(inbox[w]) + ready[w] + (IF w \in Free THEN 1 ELSE 0)

TokenInv ==
    design.by = "pipe" =>
        \A w \in Pool : /\ Tokens(w) <= IF w \in Spoilt THEN MsgLen ELSE 1
                        /\ pc[w] \in {"busy", "tell"} => Tokens(w) = 0

\* The bytes of last messages that may have been counted for a child which was
\* marked free already: all that have been read but one.
Surplus == {p \in Spoilt \X (1 .. MsgLen - 1) : p[2] > ready[p[1]]}

NavailOK == /\ Cardinality(Free) <= navail
            /\ navail <= Cardinality(Free) + Cardinality(Surplus)

\* serv05: navail, and what the parent knows between select and write_fd.
PipeInv ==
    design.by = "pipe" /\ pc[main] # "dead" =>
        /\ NavailOK
        /\ pc[main] = "pass" \/ (pc[main] = "selected" /\ sel.listen) => navail > 0
        /\ pc[main] = "pass" => ~sel.listen
        /\ pc[main] = "start" =>
              \A w \in Pool : w \in Free /\ pc[w] = IF w <= made THEN "idle" ELSE "none"
        /\ Settled => \A w \in Pool : pc[w] # "none"

\* What a sequence has in it, and that it has nothing twice.
Occurs(s, c) == \E i \in DOMAIN s : s[i] = c
Distinct(s)  == \A i, j \in DOMAIN s : s[i] = s[j] => i = j

\* A connection that waits in the kernel, is in somebody's hands, in a pipe.
Queued(c) == Occurs(backlog, c)
Held(c)   == \E x \in Actors : hold[x] = c
Posted(c) == \E w \in Pool : Occurs(inbox[w], c)

\* Every connection is in one place at most.
PlaceInv ==
    /\ \A x, y \in Actors : hold[x] = hold[y] /\ hold[x] # none => x = y
    /\ \A w \in Pool : Distinct(inbox[w])
    /\ \A v, w \in Pool, c \in Clients : Occurs(inbox[v], c) /\ Occurs(inbox[w], c) => v = w
    /\ \A i, j \in Slots : clifd[i] = clifd[j] /\ clifd[i] # none => i = j
    /\ Distinct(backlog)
    /\ \A c \in Clients :
          /\ Held(c) => ~Posted(c) /\ ~InRing(c) /\ ~Queued(c)
          /\ Posted(c) => ~InRing(c) /\ ~Queued(c)
          /\ InRing(c) => ~Queued(c)
          /\ out[c] = "none" => ~Held(c) /\ ~Posted(c) /\ ~InRing(c) /\ ~Queued(c)

\* Who has a connection in hand has its descriptor, and nobody else.
OpenInv == \A c \in Clients, x \in Actors : hold[x] = c <=> x \in open[c]

\* No good client is lost while the server runs.
LostInv ==
    \A c \in Clients :
        /\ out[c] = "answered" => c \notin Bad
        /\ Queued(c) \/ (hold[main] = c /\ pc[main] \in {"accepted", "pass"}) => out[c] = "waiting"
        /\ pc[main] \notin {"stop", "dead"} =>
              /\ out[c] = "waiting" /\ c \notin Bad =>
                    Queued(c) \/ Held(c) \/ Posted(c) \/ InRing(c)
              /\ out[c] = "answered" => Held(c)

\* All of it.
PoolInv ==
    /\ TypeOK /\ Shape
    /\ TokenInv /\ PipeInv /\ RingRight
    /\ PlaceInv /\ OpenInv /\ LostInv

-----------------------------------------------------------------------------
(* Sequences and the ring.                                                 *)

\* connect() puts a connection at the end of the backlog.
LEMMA AtTheEnd ==
    ASSUME NEW s \in Seq(Clients), NEW c \in Clients
    PROVE  /\ Append(s, c) \in Seq(Clients)
           /\ \A d : Occurs(Append(s, c), d) <=> Occurs(s, d) \/ d = c
           /\ Distinct(s) /\ ~Occurs(s, c) => Distinct(Append(s, c))
<1>1. /\ Append(s, c) \in Seq(Clients) /\ Len(s) \in Nat
      /\ DOMAIN s = 1 .. Len(s) /\ DOMAIN Append(s, c) = 1 .. Len(s) + 1
      /\ \A i \in 1 .. Len(s) : Append(s, c)[i] = s[i]
      /\ Append(s, c)[Len(s) + 1] = c
    OBVIOUS
<1>2. ASSUME NEW d PROVE Occurs(Append(s, c), d) <=> Occurs(s, d) \/ d = c
    BY <1>1 DEF Occurs
<1>3. ASSUME Distinct(s), ~Occurs(s, c) PROVE Distinct(Append(s, c))
    BY <1>1, <1>3 DEF Occurs, Distinct
<1> QED BY <1>1, <1>2, <1>3

\* accept() takes the first of them.
LEMMA FromTheFront ==
    ASSUME NEW s \in Seq(Clients), s # <<>>
    PROVE  /\ Head(s) \in Clients /\ Tail(s) \in Seq(Clients)
           /\ \A d : Occurs(s, d) <=> Occurs(Tail(s), d) \/ d = Head(s)
           /\ Distinct(s) => Distinct(Tail(s)) /\ ~Occurs(Tail(s), Head(s))
<1>1. /\ Head(s) \in Clients /\ Tail(s) \in Seq(Clients)
      /\ Len(s) \in Nat /\ Len(s) > 0
      /\ DOMAIN s = 1 .. Len(s) /\ DOMAIN Tail(s) = 1 .. Len(s) - 1
      /\ \A i \in 1 .. Len(s) - 1 : Tail(s)[i] = s[i + 1]
      /\ s[1] = Head(s)
    OBVIOUS
<1>2. ASSUME NEW d PROVE Occurs(s, d) <=> Occurs(Tail(s), d) \/ d = Head(s)
    <2>1. ASSUME NEW i \in DOMAIN s, s[i] = d, i # 1 PROVE Occurs(Tail(s), d)
        <3>1. i - 1 \in DOMAIN Tail(s) /\ Tail(s)[i - 1] = d
            BY <1>1, <2>1
        <3> QED BY <3>1 DEF Occurs
    <2>2. ASSUME NEW i \in DOMAIN Tail(s) PROVE i + 1 \in DOMAIN s /\ s[i + 1] = Tail(s)[i]
        BY <1>1, <2>2
    <2> QED BY <1>1, <2>1, <2>2 DEF Occurs
<1>3. ASSUME Distinct(s) PROVE Distinct(Tail(s)) /\ ~Occurs(Tail(s), Head(s))
    BY <1>1, <1>3 DEF Occurs, Distinct
<1> QED BY <1>1, <1>2, <1>3

\* iput and iget go round; the connections in between are (iput - iget) % MAXNCLI.
LEMMA Round ==
    ASSUME NEW a \in Slots, NEW b \in Slots
    PROVE  /\ (a + 1) % MAXNCLI \in Slots
           /\ (a + 1) % MAXNCLI = IF a + 1 = MAXNCLI THEN 0 ELSE a + 1
           /\ (a - b) % MAXNCLI = IF a >= b THEN a - b ELSE a - b + MAXNCLI
<1>1. (a + 1) % MAXNCLI = IF a + 1 = MAXNCLI THEN 0 ELSE a + 1
    BY Names DEF Slots
<1>2. (a - b) % MAXNCLI = IF a >= b THEN a - b ELSE a - b + MAXNCLI
    BY Names DEF Slots
<1>3. (a + 1) % MAXNCLI \in Slots
    BY <1>1, Names DEF Slots
<1> QED BY <1>1, <1>2, <1>3

\* Sets of children, and of bytes of their messages, are finite.
LEMMA Counted ==
    /\ \A T \in SUBSET Pool : IsFiniteSet(T) /\ Cardinality(T) \in Nat
    /\ \A T \in SUBSET (Pool \X (1 .. MsgLen - 1)) :
          /\ IsFiniteSet(T) /\ Cardinality(T) \in Nat
          /\ \A U \in SUBSET T : Cardinality(U) <= Cardinality(T)
<1>1. IsFiniteSet(Pool) /\ IsFiniteSet(1 .. MsgLen - 1)
    BY Names, FS_Interval
<1>2. IsFiniteSet(Pool \X (1 .. MsgLen - 1))
    BY <1>1, FS_Product
<1> QED BY <1>1, <1>2, FS_Subset, FS_CardinalityType

-----------------------------------------------------------------------------
(* Types.                                                                  *)

\* A server starts with nothing in its hands.
LEMMA PoolInit == Init => PoolInv
<1> SUFFICES ASSUME Init PROVE PoolInv
    OBVIOUS
<1> USE Names
<1>0. /\ design.threads \in BOOLEAN /\ design.pool \in BOOLEAN /\ design.lock \in BOOLEAN
      /\ design.by \in {"main", "new", "acceptor", "pipe", "ring"}
      /\ design.by = "pipe" => design.pool /\ ~design.threads
      /\ design.by = "ring" => design.pool /\ design.threads
    <2> DEFINE Is(d, t, p, k, b) ==
                   d.threads = t /\ d.pool = p /\ d.lock = k /\ d.by = b
    <2>1. Is(serv00, FALSE, FALSE, FALSE, "main") /\ Is(serv01, FALSE, FALSE, FALSE, "new")
        BY DEF serv00, serv01
    <2>2. Is(serv02, FALSE, TRUE, FALSE, "acceptor") /\ Is(serv03, FALSE, TRUE, TRUE, "acceptor")
        BY DEF serv02, serv03
    <2>3. Is(serv04, FALSE, TRUE, TRUE, "acceptor") /\ Is(serv05, FALSE, TRUE, FALSE, "pipe")
        BY DEF serv04, serv05
    <2>4. Is(serv06, TRUE, FALSE, FALSE, "new") /\ Is(serv07, TRUE, TRUE, TRUE, "acceptor")
        BY DEF serv06, serv07
    <2>5. Is(serv08, TRUE, TRUE, FALSE, "ring") /\ Is(serv09, TRUE, TRUE, FALSE, "acceptor")
        BY DEF serv08, serv09
    <2>6. PICK t \in BOOLEAN, p \in BOOLEAN, k \in BOOLEAN,
               b \in {"main", "new", "acceptor", "pipe", "ring"} :
             /\ Is(design, t, p, k, b)
             /\ b = "pipe" => p /\ ~t
             /\ b = "ring" => p /\ t
        BY <2>1, <2>2, <2>3, <2>4, <2>5 DEF Init
    <2> QED BY <2>6
<1>1. TypeOK
    BY <1>0, ServerPoolAssumption
       DEF Init, TypeOK, DesignOK, PcOK, ConnOK, RingOK, PipesOK, Slots
<1>2. Shape
    BY <1>0 DEF Init, Shape, Holding
<1>3. PipeInv
    <2>1. Free = Pool
        BY DEF Init, Free
    <2>2. Cardinality(1 .. N) = IF 1 > N THEN 0 ELSE N - 1 + 1
        BY FS_Interval
    <2>3. Cardinality(Pool) = N
        BY <2>2 DEF Pool
    <2>4. NavailOK
        <3>1. Surplus \in SUBSET (Pool \X (1 .. MsgLen - 1))
            BY DEF Surplus, Spoilt
        <3>2. Cardinality(Surplus) \in Nat
            BY <3>1, Counted
        <3> QED BY <2>1, <2>3, <3>2 DEF Init, NavailOK
    <2> QED BY <2>1, <2>4 DEF Init, PipeInv, Settled, Pool
<1>4. RingRight
    <2>1. 0 \in Slots
        BY DEF Slots
    <2>2. (iput - iget) % MAXNCLI = 0 /\ \A i \in Slots : (i - iget) % MAXNCLI = i /\ i >= 0
        <3>1. \A i \in Slots : (i - 0) % MAXNCLI = IF i >= 0 THEN i - 0 ELSE i - 0 + MAXNCLI
            BY <2>1, Round
        <3>2. iput = 0 /\ iget = 0
            BY DEF Init
        <3>3. \A i \in Slots : i \in Nat
            BY DEF Slots
        <3> QED BY <2>1, <3>1, <3>2, <3>3
    <2>3. \A w \in Pool : pc[w] # "asleep"
        BY DEF Init
    <2>4. \A i \in Slots : clifd[i] = none
        BY DEF Init, Slots
    <2> QED BY <2>2, <2>3, <2>4 DEF RingRight, Slots
<1>5. PlaceInv
    <2>1. \A i \in Slots : clifd[i] = none
        BY DEF Init, Slots
    <2>2. \A c \in Clients : ~Held(c) /\ ~InRing(c)
        BY <2>1 DEF Init, Held, InRing
    <2>3. \A w \in Pool, c \in Clients : ~Occurs(inbox[w], c) /\ Distinct(inbox[w])
        BY DEF Init, Occurs, Distinct
    <2>4. \A c \in Clients : ~Queued(c)
        BY DEF Init, Queued, Occurs
    <2>5. Distinct(backlog)
        BY DEF Init, Distinct
    <2> QED BY <2>1, <2>2, <2>3, <2>4, <2>5 DEF Init, PlaceInv, Posted
<1>6. OpenInv
    BY DEF Init, OpenInv
<1>7. LostInv
    <2>1. \A c \in Clients : out[c] = "none" /\ ~Queued(c) /\ hold[main] # c
        BY <1>5 DEF Init, PlaceInv
    <2> QED BY <2>1 DEF LostInv
<1>8. TokenInv
    <2>1. \A w \in Pool : pc[w] = "none" /\ w \notin Spoilt /\ w \in Free
        BY DEF Init, Spoilt, Free
    <2>2. \A w \in Pool : Len(inbox[w]) = 0 /\ ready[w] = 0
        BY DEF Init
    <2> QED BY <2>1, <2>2 DEF TokenInv, Tokens
<1> QED BY <1>1, <1>2, <1>3, <1>4, <1>5, <1>6, <1>7, <1>8 DEF PoolInv

\* What ends with x.
LEMMA EndsFacts ==
    ASSUME DesignOK, NEW x \in Actors
    PROVE  /\ x \in Ends(x) /\ Ends(x) \subseteq Actors
           /\ design.threads => Ends(x) = Actors
           /\ ~design.threads => Ends(x) = {x}
BY DEF DesignOK, Ends

\* One goes on to its next state.
LEMMA GotoFacts ==
    ASSUME PcOK, NEW x \in Actors, NEW label, Goto(x, label)
    PROVE  /\ DOMAIN pc' = Actors /\ pc'[x] = label
           /\ \A y \in Actors \ {x} : pc'[y] = pc[y]
           /\ x = main /\ label \in {"start", "loop", "busy", "accepted", "selected", "pass",
                                     "stop", "dead"} => PcOK'
           /\ x \in Pool /\ label \in {"idle", "locked", "release", "busy", "asleep", "tell",
                                      "quits"}
                 => PcOK'
           /\ x \in Clients /\ label = "dead" => PcOK'
<1>1. DOMAIN pc' = Actors /\ pc'[x] = label /\ \A y \in Actors \ {x} : pc'[y] = pc[y]
    BY DEF PcOK, Goto
<1>2. CASE x = main
    BY <1>1, <1>2, Names DEF PcOK
<1>3. CASE x \in Pool
    BY <1>1, <1>3, Names DEF PcOK
<1>4. CASE x \in Clients
    BY <1>1, <1>4, Names DEF PcOK
<1> QED BY <1>1, <1>2, <1>3, <1>4 DEF Actors, Workers

\* One takes a connection into its hands, or has none any more.
LEMMA HandFacts ==
    ASSUME ConnOK, NEW x \in Actors, NEW c \in Clients \cup {none}, Hand(x, c)
    PROVE  /\ hold' \in [Actors -> Clients \cup {none}] /\ hold'[x] = c
           /\ \A y \in Actors \ {x} : hold'[y] = hold[y]
BY DEF ConnOK, Hand

\* A descriptor changes hands.
LEMMA OpenFacts ==
    ASSUME ConnOK, NEW c \in Clients, NEW S \in SUBSET (Actors \cup {pipe}),
           open' = [open EXCEPT ![c] = S]
    PROVE  /\ open' \in [Clients -> SUBSET (Actors \cup {pipe})] /\ open'[c] = S
           /\ \A d \in Clients \ {c} : open'[d] = open[d]
BY DEF ConnOK

\* accept() in x.
LEMMA TakeFacts ==
    ASSUME ConnOK, NEW x \in Actors, Take(x)
    PROVE  /\ ConnOK' /\ backlog # <<>> /\ backlog' = Tail(backlog)
           /\ Head(backlog) \in Clients
           /\ hold'[x] = Head(backlog) /\ \A y \in Actors \ {x} : hold'[y] = hold[y]
           /\ open'[Head(backlog)] = {x}
           /\ \A d \in Clients \ {Head(backlog)} : open'[d] = open[d]
<1>1. /\ backlog # <<>> /\ backlog' = Tail(backlog) /\ Head(backlog) \in Clients
      /\ backlog' \in Seq(Clients)
    BY FromTheFront DEF ConnOK, Take
<1>2. Hand(x, Head(backlog)) /\ open' = [open EXCEPT ![Head(backlog)] = {x}]
    BY DEF Take
<1>3. {x} \in SUBSET (Actors \cup {pipe})
    OBVIOUS
<1> QED BY <1>1, <1>2, <1>3, HandFacts, OpenFacts DEF ConnOK

\* The end of a process, one by one.
LEMMA DieFacts ==
    ASSUME PcOK, ConnOK, DesignOK, lock \in Pool \cup {none}, NEW x \in Actors, Die(x)
    PROVE  /\ PcOK' /\ ConnOK' /\ lock' \in Pool \cup {none}
           /\ \A y \in Actors : /\ y \in Ends(x) => pc'[y] = "dead" /\ hold'[y] = none
                                /\ y \notin Ends(x) => pc'[y] = pc[y] /\ hold'[y] = hold[y]
           /\ \A c \in Clients, y \in Actors :
                 y \in open'[c] <=> y \in open[c] /\ y \notin Ends(x)
           /\ UNCHANGED <<design, backlog, out, ring, pipes, made>>
<1> USE Names
<1>1. \A y \in Actors : /\ y \in Ends(x) => pc'[y] = "dead" /\ hold'[y] = none
                        /\ y \notin Ends(x) => pc'[y] = pc[y] /\ hold'[y] = hold[y]
    BY DEF Die
<1>2. /\ \A c \in Clients, y \in Actors :
            y \in open'[c] <=> y \in open[c] /\ y \notin Ends(x)
      /\ UNCHANGED <<design, backlog, out, ring, pipes, made>> /\ DOMAIN pc' = Actors
    BY DEF Die
<1>3. PcOK'
    BY <1>1, <1>2 DEF PcOK
<1>4. hold' \in [Actors -> Clients \cup {none}]
    BY DEF Die, ConnOK
<1>5. open' \in [Clients -> SUBSET (Actors \cup {pipe})]
    BY DEF Die, ConnOK
<1>6. lock' \in Pool \cup {none}
    BY DEF Die
<1> QED BY <1>1, <1>2, <1>3, <1>4, <1>5, <1>6 DEF ConnOK

\* What stays as it is keeps its type.
LEMMA Kept ==
    ASSUME TypeOK
    PROVE  /\ DesignOK /\ PcOK /\ ConnOK /\ RingOK /\ PipesOK
           /\ out \in [Clients -> {"none", "waiting", "answered", "closed"}]
           /\ lock \in Pool \cup {none} /\ made \in 0 .. N
           /\ UNCHANGED design => DesignOK'
           /\ UNCHANGED pc => PcOK'
           /\ UNCHANGED <<backlog, hold, open>> => ConnOK'
           /\ UNCHANGED ring => RingOK'
           /\ UNCHANGED pipes => PipesOK'
<1>1. DesignOK /\ UNCHANGED design => DesignOK'
    BY DEF DesignOK
<1>2. PcOK /\ UNCHANGED pc => PcOK'
    BY DEF PcOK
<1>3. ConnOK /\ UNCHANGED <<backlog, hold, open>> => ConnOK'
    BY DEF ConnOK
<1>4. RingOK /\ UNCHANGED ring => RingOK'
    BY DEF RingOK
<1>5. PipesOK /\ UNCHANGED pipes => PipesOK'
    BY DEF PipesOK
<1> QED BY <1>1, <1>2, <1>3, <1>4, <1>5 DEF TypeOK

\* The main process has no new connection, and does not stop being stopped.
Onward == /\ pc'[main] \notin {"stop", "dead"} => pc[main] \notin {"stop", "dead"}
          /\ pc'[main] \in {"accepted", "pass"} => pc[main] \in {"accepted", "pass"}

\* A part of the invariant over what a step leaves alone.
LEMMA Frame ==
    ASSUME PoolInv, UNCHANGED design
    PROVE  /\ UNCHANGED <<pc, hold, inbox, ready, made>> => Shape'
           /\ design.by # "pipe" => TokenInv' /\ PipeInv'
           /\ UNCHANGED <<pc, pipes, made>> => TokenInv' /\ PipeInv'
           /\ design.by # "ring" => RingRight'
           /\ UNCHANGED <<pc, ring>> => RingRight'
           /\ UNCHANGED <<hold, inbox, clifd, backlog, out>> => PlaceInv'
           /\ UNCHANGED <<hold, open>> => OpenInv'
           /\ /\ UNCHANGED <<hold, inbox, clifd, backlog, out>>
              /\ Onward
              => LostInv'
<1> USE DEF PoolInv
<1>1. UNCHANGED <<pc, hold, inbox, ready, made>> => Shape'
    BY DEF Shape
<1>2. design.by # "pipe" => TokenInv' /\ PipeInv'
    BY DEF TokenInv, PipeInv
<1>3. UNCHANGED <<pc, pipes, made>> => TokenInv' /\ PipeInv'
    BY DEF TokenInv, Tokens, PipeInv, NavailOK, Surplus, Spoilt, Free, Settled
<1>4. (design.by # "ring") => RingRight'
    BY DEF RingRight
<1>5. UNCHANGED <<pc, ring>> => RingRight'
    BY DEF RingRight, Alive
<1>6. UNCHANGED <<hold, inbox, clifd, backlog, out>> => PlaceInv'
    BY DEF PlaceInv, Held, Posted, InRing, Queued
<1>7. UNCHANGED <<hold, open>> => OpenInv'
    BY DEF OpenInv
<1>8. /\ UNCHANGED <<hold, inbox, clifd, backlog, out>>
      /\ Onward
      => LostInv'
    BY DEF Onward, LostInv, Held, Posted, InRing, Queued
<1> QED BY <1>1, <1>2, <1>3, <1>4, <1>5, <1>6, <1>7, <1>8

\* A step that leaves the pipes and the marks alone does not make a child well
\* again, nor one with something in its pipe work.
LEMMA PipesKept ==
    ASSUME PoolInv, UNCHANGED <<design, status, navail, inbox, ready>>,
           design.by = "pipe" =>
               \A w \in Pool : /\ w \in Spoilt => pc'[w] \in {"quits", "dead"}
                               /\ pc'[w] \in {"busy", "tell"} => pc[w] \in {"busy", "tell"}
    PROVE  TokenInv' /\ (design.by = "pipe" /\ pc[main] # "dead" => NavailOK')
<1> SUFFICES ASSUME design.by = "pipe"
             PROVE  TokenInv' /\ (pc[main] # "dead" => NavailOK')
    BY DEF TokenInv
<1> USE Names
<1>0. TokenInv /\ PipeInv /\ PipesOK
    BY Kept DEF PoolInv
<1>1. Free' = Free /\ \A w \in Pool : Tokens(w)' = Tokens(w)
    BY DEF Free, Tokens
<1>2. Spoilt \subseteq Spoilt'
    BY DEF Spoilt
<1>3. TokenInv'
    <2>1. ASSUME NEW w \in Pool
          PROVE  Tokens(w)' <= IF w \in Spoilt' THEN MsgLen ELSE 1
        <3>1. Tokens(w) \in Nat
            BY <1>0 DEF Tokens, PipesOK
        <3> QED BY <1>0, <1>1, <1>2, <3>1 DEF TokenInv
    <2> QED BY <1>0, <1>1, <2>1 DEF TokenInv
<1>4. ASSUME pc[main] # "dead" PROVE NavailOK'
    <2>1. Surplus \subseteq Surplus' /\ Surplus' \in SUBSET (Pool \X (1 .. MsgLen - 1))
        BY <1>2 DEF Surplus, Spoilt
    <2>2. /\ Cardinality(Surplus) <= Cardinality(Surplus')
          /\ Cardinality(Surplus) \in Nat /\ Cardinality(Surplus') \in Nat
        BY <2>1, Counted
    <2>3. Cardinality(Free) \in Nat /\ navail \in Nat
        BY <1>0, Counted DEF Free, PipesOK
    <2> QED BY <1>0, <1>1, <1>4, <2>2, <2>3 DEF PipeInv, NavailOK
<1> QED BY <1>3, <1>4

\* The threads of serv08 that look for a connection.
Idle == {w \in Pool : pc[w] = "idle"}

\* Nobody goes to sleep over a connection.
LEMMA RingSame ==
    ASSUME PoolInv, UNCHANGED <<design, ring>>, Alive(main)' => Alive(main),
           \/ iput = iget
           \/ Idle \subseteq Idle' /\ \A w \in Pool : pc'[w] = "asleep" => pc[w] = "asleep"
    PROVE  RingRight'
<1> SUFFICES ASSUME design.by = "ring", Alive(main) PROVE RingRight'
    BY DEF RingRight
<1>1. iget \in Slots /\ iput \in Slots
    BY Kept DEF PoolInv, RingOK
<1>2. iput = iget => (iput - iget) % MAXNCLI = 0
    BY <1>1, Names, Round DEF Slots
<1>3. /\ IsFiniteSet(Idle) /\ IsFiniteSet(Idle')
      /\ Cardinality(Idle) \in Nat /\ Cardinality(Idle') \in Nat
    BY Names, FS_Subset, FS_CardinalityType DEF Idle
<1>4. Idle \subseteq Idle' => Cardinality(Idle) <= Cardinality(Idle')
    BY <1>3, FS_Subset
<1>5. /\ \A i \in Slots :
             clifd[i] # none <=> (i - iget) % MAXNCLI < (iput - iget) % MAXNCLI
      /\ (\E w \in Pool : pc[w] = "asleep") => (iput - iget) % MAXNCLI <= Cardinality(Idle)
    BY DEF PoolInv, RingRight, Idle
<1>6. (iput - iget) % MAXNCLI \in Int
    BY <1>1, Round, Names DEF Slots
<1>7. (\E w \in Pool : pc'[w] = "asleep") => (iput - iget) % MAXNCLI <= Cardinality(Idle')
    <2>1. CASE iput = iget
        BY <1>2, <1>3, <2>1
    <2>2. CASE Idle \subseteq Idle' /\ \A w \in Pool : pc'[w] = "asleep" => pc[w] = "asleep"
        BY <1>3, <1>4, <1>5, <1>6, <2>2
    <2> QED BY <2>1, <2>2
<1>8. Idle' = {w \in Pool : pc'[w] = "idle"}
    BY DEF Idle
<1> QED BY <1>5, <1>7, <1>8 DEF RingRight

-----------------------------------------------------------------------------
(* Steps that move no connection.                                          *)

\* One more child or thread is made.
LEMMA MakeStep == PoolInv /\ Make => PoolInv'
<1> SUFFICES ASSUME PoolInv, Make PROVE PoolInv'
    OBVIOUS
<1> USE Names
<1>0. TypeOK /\ Shape /\ TokenInv /\ PipeInv
    BY DEF PoolInv
<1>1. /\ pc[main] = "start" /\ made < N /\ made' = made + 1 /\ Goto(made + 1, "idle")
      /\ UNCHANGED <<design, backlog, out, hold, open, lock, ring, pipes>>
    BY DEF Make
<1>2. made + 1 \in Pool /\ made \in Nat /\ made' \in 0 .. N
    BY <1>0, <1>1, Kept DEF Pool
<1>3. /\ PcOK' /\ DOMAIN pc' = Actors /\ pc'[made + 1] = "idle"
      /\ \A y \in Actors \ {made + 1} : pc'[y] = pc[y]
    BY <1>0, <1>1, <1>2, GotoFacts, Kept
<1>4. TypeOK'
    BY <1>0, <1>1, <1>2, <1>3, Kept DEF TypeOK
<1>5. Shape'
    BY <1>0, <1>1, <1>2, <1>3 DEF Shape, Holding
<1>6. TokenInv' /\ PipeInv'
    <2>1. design.by = "pipe" => pc[made + 1] = "none"
        BY <1>0, <1>1, <1>2 DEF PipeInv
    <2>2. TokenInv' /\ (design.by = "pipe" => NavailOK')
        BY <1>1, <1>2, <1>3, <2>1, PipesKept DEF Spoilt
    <2> QED BY <1>0, <1>1, <1>2, <1>3, <2>2 DEF PipeInv, Free, Settled
<1>7. RingRight'
    <2>1. Idle \subseteq Idle' /\ \A w \in Pool : pc'[w] = "asleep" => pc[w] = "asleep"
        BY <1>3 DEF Idle
    <2> QED BY <1>1, <1>3, <2>1, RingSame DEF Alive
<1>8. PlaceInv' /\ OpenInv' /\ LostInv'
    BY <1>1, <1>3, Frame DEF Onward
<1> QED BY <1>4, <1>5, <1>6, <1>7, <1>8 DEF PoolInv

\* The main process goes on: to accept, to look at what select found, to stop.
LEMMA MainMoves ==
    ASSUME PoolInv, pc[main] \notin {"stop", "dead"},
           Goto(main, "loop") \/ Goto(main, "stop"),
           UNCHANGED <<design, backlog, out, hold, open, lock, ring, pipes, made>>
    PROVE  /\ TypeOK' /\ TokenInv' /\ RingRight' /\ PlaceInv' /\ OpenInv' /\ LostInv'
           /\ design.by = "pipe" => NavailOK'
           /\ \A y \in Actors \ {main} : pc'[y] = pc[y]
           /\ pc'[main] = "loop" \/ pc'[main] = "stop"
           /\ Goto(main, "loop") => pc'[main] = "loop"
<1> USE Names
<1>0. TypeOK
    BY DEF PoolInv
<1>1. /\ PcOK' /\ \A y \in Actors \ {main} : pc'[y] = pc[y]
      /\ pc'[main] = "loop" \/ pc'[main] = "stop"
      /\ Goto(main, "loop") => pc'[main] = "loop"
    BY <1>0, GotoFacts, Kept
<1>2. TypeOK'
    BY <1>0, <1>1, Kept DEF TypeOK
<1>3. Idle \subseteq Idle' /\ \A w \in Pool : pc'[w] = "asleep" => pc[w] = "asleep"
    BY <1>1 DEF Idle
<1>4. Alive(main)
    BY <1>0, Kept DEF PcOK, Alive
<1>5. RingRight'
    BY <1>3, <1>4, RingSame
<1>6. TokenInv' /\ (design.by = "pipe" => NavailOK')
    BY <1>1, PipesKept DEF Spoilt
<1> QED BY <1>1, <1>2, <1>5, <1>6, Frame DEF Onward

\* The pool is there.
LEMMA MadeStep == PoolInv /\ Made => PoolInv'
<1> SUFFICES ASSUME PoolInv, Made PROVE PoolInv'
    OBVIOUS
<1> USE Names
<1>0. TypeOK /\ Shape /\ PipeInv /\ made \in 0 .. N
    BY Kept DEF PoolInv
<1>1. /\ pc[main] = "start" /\ (design.pool => made = N) /\ Goto(main, "loop")
      /\ UNCHANGED <<design, backlog, out, hold, open, lock, ring, pipes, made>>
    BY DEF Made
<1>2. /\ TypeOK' /\ TokenInv' /\ RingRight' /\ PlaceInv' /\ OpenInv' /\ LostInv'
      /\ pc'[main] = "loop"
      /\ \A y \in Actors \ {main} : pc'[y] = pc[y]
      /\ design.by = "pipe" => NavailOK'
    BY <1>1, MainMoves
<1>3. Shape'
    BY <1>0, <1>1, <1>2 DEF Shape, Holding
<1>4. PipeInv'
    <2> SUFFICES ASSUME design.by = "pipe" PROVE PipeInv'
        BY <1>1, Frame
    <2>1. made = N /\ \A w \in Pool : w <= made
        BY <1>0, <1>1 DEF Shape, Pool
    <2> QED BY <1>0, <1>1, <1>2, <2>1 DEF PipeInv, Settled
<1> QED BY <1>2, <1>3, <1>4 DEF PoolInv

\* All that select found is dealt with.
LEMMA SelectedDoneStep == PoolInv /\ SelectedDone => PoolInv'
<1> SUFFICES ASSUME PoolInv, SelectedDone PROVE PoolInv'
    OBVIOUS
<1> USE Names
<1>0. TypeOK /\ Shape /\ PipeInv
    BY DEF PoolInv
<1>1. /\ pc[main] = "selected" /\ Goto(main, "loop")
      /\ UNCHANGED <<design, backlog, out, hold, open, lock, ring, pipes, made>>
    BY DEF SelectedDone
<1>2. /\ TypeOK' /\ TokenInv' /\ RingRight' /\ PlaceInv' /\ OpenInv' /\ LostInv'
      /\ pc'[main] = "loop"
      /\ \A y \in Actors \ {main} : pc'[y] = pc[y]
      /\ design.by = "pipe" => NavailOK'
    BY <1>1, MainMoves
<1>3. Shape'
    BY <1>0, <1>1, <1>2 DEF Shape, Holding
<1>4. PipeInv'
    BY <1>0, <1>1, <1>2 DEF PipeInv, Settled
<1> QED BY <1>2, <1>3, <1>4 DEF PoolInv

\* The handler of SIGINT begins.
LEMMA StopStep ==
    ASSUME PoolInv, pc[main] \notin {"start", "stop", "dead"}, design.pool, ~design.threads,
           Goto(main, "stop"),
           UNCHANGED <<design, backlog, out, hold, open, lock, ring, pipes, made>>
    PROVE  PoolInv'
<1> USE Names
<1>0. TypeOK /\ Shape /\ PipeInv
    BY DEF PoolInv
<1>1. pc'[main] = "stop" /\ \A y \in Actors \ {main} : pc'[y] = pc[y]
    BY <1>0, GotoFacts, Kept
<1>2. /\ TypeOK' /\ TokenInv' /\ RingRight' /\ PlaceInv' /\ OpenInv' /\ LostInv'
      /\ design.by = "pipe" => NavailOK'
    BY MainMoves
<1>3. Shape'
    BY <1>0, <1>1 DEF Shape, Holding
<1>4. PipeInv'
    BY <1>0, <1>1, <1>2 DEF PipeInv, Settled
<1> QED BY <1>2, <1>3, <1>4 DEF PoolInv

\* select returns.
LEMMA SelectStep == PoolInv /\ Select => PoolInv'
<1> SUFFICES ASSUME PoolInv, Select PROVE PoolInv'
    OBVIOUS
<1> USE Names
<1>0. TypeOK /\ Shape /\ PipeInv
    BY DEF PoolInv
<1>1. /\ pc[main] = "loop" /\ design.by = "pipe" /\ Goto(main, "selected")
      /\ sel' = [listen |-> Waiting, kids |-> Readable]
      /\ UNCHANGED <<design, backlog, out, hold, open, lock, ring, status, navail, inbox, ready,
                     made>>
    BY DEF Select
<1>2. PcOK' /\ pc'[main] = "selected" /\ \A y \in Actors \ {main} : pc'[y] = pc[y]
    BY <1>0, <1>1, GotoFacts, Kept
<1>3. sel' \in [listen : BOOLEAN, kids : SUBSET Pool] /\ sel'.listen = Waiting
    BY <1>1 DEF Waiting, Readable
<1>4. PipesOK'
    BY <1>0, <1>1, <1>3, Kept DEF PipesOK
<1>5. TypeOK'
    BY <1>0, <1>1, <1>2, <1>4, Kept DEF TypeOK
<1>6. Shape'
    BY <1>0, <1>1, <1>2 DEF Shape, Holding
<1>7. TokenInv' /\ NavailOK'
    BY <1>1, <1>2, PipesKept DEF Spoilt
<1>8. PipeInv'
    <2>1. sel'.listen => navail > 0
        BY <1>3 DEF Waiting
    <2> QED BY <1>0, <1>1, <1>2, <1>7, <2>1 DEF PipeInv, Settled
<1>9. RingRight' /\ PlaceInv' /\ OpenInv' /\ LostInv'
    BY <1>1, <1>2, Frame DEF Onward
<1> QED BY <1>5, <1>6, <1>7, <1>8, <1>9 DEF PoolInv

\* A child gets the lock around accept, releases it, or waits for a connection.
LEMMA LockSteps ==
    ASSUME NEW w \in Pool, PoolInv, MyLockWait(w) \/ MyLockRelease(w) \/ Sleep(w)
    PROVE  PoolInv'
<1> USE Names
<1>0. TypeOK /\ Shape
    BY DEF PoolInv
<1>1. /\ UNCHANGED <<design, backlog, out, hold, open, ring, pipes, made>>
      /\ lock' \in {w, none, lock}
    BY DEF MyLockWait, MyLockRelease, Sleep
<1>2. \/ pc[w] = "idle" /\ Goto(w, "locked") /\ design.by = "acceptor"
      \/ pc[w] = "release" /\ Goto(w, "busy") /\ design.by = "acceptor"
      \/ pc[w] = "idle" /\ Goto(w, "asleep") /\ design.by = "ring" /\ iget = iput
    BY <1>0 DEF MyLockWait, MyLockRelease, Sleep, Shape
<1>3. /\ PcOK' /\ \A y \in Actors \ {w} : pc'[y] = pc[y]
      /\ \/ pc[w] = "idle" /\ pc'[w] = "locked" /\ design.by = "acceptor"
         \/ pc[w] = "release" /\ pc'[w] = "busy" /\ design.by = "acceptor"
         \/ pc[w] = "idle" /\ pc'[w] = "asleep" /\ design.by = "ring" /\ iget = iput
    BY <1>0, <1>2, GotoFacts, Kept
<1>4. TypeOK'
    BY <1>0, <1>1, <1>3, Kept DEF TypeOK
<1>5. Shape'
    <2>1. \A v \in Pool : (v > made)' => pc'[v] \in {"none", "dead"}
        BY <1>0, <1>1, <1>3 DEF Shape
    <2> QED BY <1>0, <1>1, <1>3, <2>1 DEF Shape, Holding
<1>6. TokenInv' /\ PipeInv'
    BY <1>1, <1>3, Frame
<1>7. RingRight'
    <2>1. CASE design.by = "acceptor"
        BY <1>1, <2>1, Frame
    <2>2. CASE iget = iput
        BY <1>1, <1>3, <2>2, RingSame DEF Alive
    <2> QED BY <1>3, <2>1, <2>2
<1>8. PlaceInv' /\ OpenInv' /\ LostInv'
    BY <1>1, <1>3, Frame DEF Onward
<1> QED BY <1>4, <1>5, <1>6, <1>7, <1>8 DEF PoolInv

\* A child of serv05 writes its byte.
LEMMA TellParentStep ==
    ASSUME NEW w \in Pool, PoolInv, TellParent(w)
    PROVE  PoolInv'
<1> USE Names
<1>0. TypeOK /\ Shape /\ TokenInv /\ PipeInv /\ PipesOK
    BY Kept DEF PoolInv
<1>1. /\ UNCHANGED <<design, backlog, out, hold, open, lock, ring, status, navail, sel, inbox,
                     made>>
      /\ pc[w] = "tell" /\ Goto(w, "idle") /\ ready' = [ready EXCEPT ![w] = @ + 1]
    BY DEF TellParent
<1>2. PcOK' /\ pc'[w] = "idle" /\ \A y \in Actors \ {w} : pc'[y] = pc[y]
    BY <1>0, <1>1, GotoFacts, Kept
<1>3. design.by = "pipe" /\ Tokens(w) = 0
    BY <1>0, <1>1 DEF Shape, TokenInv
<1>4. ready[w] = 0 /\ Len(inbox[w]) = 0 /\ w \notin Free
    BY <1>0, <1>3 DEF Tokens, PipesOK
<1>5. /\ ready' \in [Pool -> 0 .. MsgLen] /\ ready'[w] = 1
      /\ \A v \in Pool \ {w} : ready'[v] = ready[v]
    BY <1>0, <1>1, <1>4 DEF PipesOK
<1>6. TypeOK'
    BY <1>0, <1>1, <1>2, <1>5, Kept DEF TypeOK, PipesOK
<1>7. Shape'
    BY <1>0, <1>1, <1>2, <1>3 DEF Shape, Holding
<1>8. Free' = Free /\ Spoilt' = Spoilt /\ w \notin Spoilt
    BY <1>1, <1>2 DEF Free, Spoilt
<1>9. TokenInv'
    <2>1. Tokens(w)' = 1
        BY <1>1, <1>4, <1>5, <1>8 DEF Tokens
    <2>2. \A v \in Pool \ {w} : Tokens(v)' = Tokens(v)
        BY <1>1, <1>5, <1>8 DEF Tokens
    <2> QED BY <1>0, <1>1, <1>2, <1>8, <2>1, <2>2 DEF TokenInv
<1>10. PipeInv'
    <2>1. Surplus' = Surplus
        <3>1. \A v \in Spoilt : v # w /\ v \in Pool
            BY <1>8 DEF Spoilt
        <3> QED BY <1>5, <1>8, <3>1 DEF Surplus
    <2> QED BY <1>0, <1>1, <1>2, <1>8, <2>1 DEF PipeInv, NavailOK, Settled
<1>11. RingRight' /\ PlaceInv' /\ OpenInv' /\ LostInv'
    BY <1>1, <1>2, <1>3, Frame DEF Onward
<1> QED BY <1>6, <1>7, <1>9, <1>10, <1>11 DEF PoolInv

\* The parent reads a byte, and counts one more free child: for each byte of a last
\* message but one this may be a child that was marked free already.
LEMMA ReadByteStep ==
    ASSUME NEW w \in Pool, PoolInv, ReadByte(w)
    PROVE  PoolInv'
<1> USE Names
<1>0. TypeOK /\ Shape /\ TokenInv /\ PipeInv /\ PipesOK
    BY Kept DEF PoolInv
<1>1. /\ UNCHANGED <<design, backlog, out, pc, hold, open, lock, ring, inbox, made>>
      /\ pc[main] = "selected" /\ ~sel.listen /\ ready[w] > 0 /\ navail' = navail + 1
      /\ ready' = [ready EXCEPT ![w] = @ - 1] /\ status' = [status EXCEPT ![w] = 0]
      /\ sel' = [sel EXCEPT !.kids = @ \ {w}]
    BY DEF ReadByte
<1>2. /\ ready[w] \in 1 .. MsgLen
      /\ ready' \in [Pool -> 0 .. MsgLen] /\ ready'[w] = ready[w] - 1
      /\ \A v \in Pool \ {w} : ready'[v] = ready[v]
    BY <1>0, <1>1 DEF PipesOK
<1>3. /\ status' \in [Pool -> {0, 1}] /\ status'[w] = 0
      /\ \A v \in Pool \ {w} : status'[v] = status[v]
    BY <1>0, <1>1 DEF PipesOK
<1>4. sel' \in [listen : BOOLEAN, kids : SUBSET Pool] /\ ~sel'.listen
    BY <1>0, <1>1 DEF PipesOK
<1>5. TypeOK'
    <2>1. PipesOK' /\ ready' \in [Pool -> 0 .. MsgLen]
        BY <1>0, <1>1, <1>2, <1>3, <1>4 DEF PipesOK
    <2> QED BY <1>0, <1>1, <2>1, Kept DEF TypeOK
<1>6. design.by = "pipe"
    BY <1>0, <1>1 DEF Shape
<1>7. Shape'
    BY <1>0, <1>1, <1>6 DEF Shape, Holding
<1>8. Free' = Free \cup {w} /\ Spoilt' = Spoilt /\ Len(inbox[w]) \in Nat
    BY <1>0, <1>1, <1>3 DEF Free, Spoilt, PipesOK
<1>9. TokenInv'
    <2>1. Tokens(w)' <= Tokens(w) /\ Tokens(w) > 0 /\ Tokens(w) \in Nat /\ Tokens(w)' \in Nat
        <3>1. Tokens(w)' = Len(inbox[w]) + (ready[w] - 1) + 1
            BY <1>1, <1>2, <1>8 DEF Tokens
        <3>2. Tokens(w) = Len(inbox[w]) + ready[w] \/ Tokens(w) = Len(inbox[w]) + ready[w] + 1
            BY <1>2, <1>8 DEF Tokens
        <3>3. ready[w] \in Nat /\ ready[w] > 0 /\ Len(inbox[w]) \in Nat
            BY <1>2, <1>8
        <3> QED BY <3>1, <3>2, <3>3
    <2>2. \A v \in Pool \ {w} : Tokens(v)' = Tokens(v)
        BY <1>1, <1>2, <1>8 DEF Tokens
    <2> QED BY <1>0, <1>1, <1>8, <2>1, <2>2 DEF TokenInv
<1>10. NavailOK'
    <2>1. /\ Surplus' \in SUBSET (Pool \X (1 .. MsgLen - 1))
          /\ Surplus \in SUBSET (Pool \X (1 .. MsgLen - 1)) /\ Surplus \subseteq Surplus'
        <3>1. \A v \in Pool : ready[v] \in Nat /\ ready'[v] \in Nat /\ ready'[v] <= ready[v]
            <4>1. \A v \in Pool : ready[v] \in 0 .. MsgLen /\ (v # w => ready'[v] = ready[v])
                BY <1>0, <1>2 DEF PipesOK
            <4>2. ready'[w] \in Nat /\ ready'[w] <= ready[w]
                BY <1>2
            <4> QED BY <4>1, <4>2
        <3>2. Surplus \subseteq Surplus'
            BY <1>8, <3>1 DEF Surplus, Spoilt
        <3> QED BY <3>2 DEF Surplus, Spoilt
    <2>2. /\ IsFiniteSet(Free) /\ Cardinality(Free) \in Nat /\ navail \in Nat
          /\ IsFiniteSet(Surplus) /\ Cardinality(Surplus) \in Nat
          /\ Cardinality(Surplus') \in Nat /\ Cardinality(Surplus) <= Cardinality(Surplus')
        BY <1>0, <2>1, Counted DEF Free, PipesOK
    <2>3. NavailOK
        BY <1>0, <1>1, <1>6 DEF PipeInv
    <2>4. CASE w \notin Free
        <3>1. Cardinality(Free') = Cardinality(Free) + 1
            BY <1>8, <2>2, <2>4, FS_AddElement
        <3> QED BY <1>1, <2>2, <2>3, <3>1 DEF NavailOK
    <2>5. CASE w \in Free
        <3> DEFINE byte == <<w, ready[w]>>
        <3>1. Len(inbox[w]) + ready[w] + 1 <= IF w \in Spoilt THEN MsgLen ELSE 1
            BY <1>0, <1>6, <2>5 DEF TokenInv, Tokens
        <3>2. w \in Spoilt /\ ready[w] \in 1 .. MsgLen - 1
            BY <1>2, <1>8, <3>1
        <3>3. byte \notin Surplus /\ Surplus \cup {byte} \in SUBSET Surplus'
            BY <1>2, <1>8, <2>1, <3>2 DEF Surplus
        <3>4. Cardinality(Surplus \cup {byte}) = Cardinality(Surplus) + 1
            BY <2>2, <3>3, FS_AddElement
        <3>5. Cardinality(Surplus \cup {byte}) <= Cardinality(Surplus')
            BY <2>1, <3>3, Counted
        <3>6. Free' = Free
            BY <1>8, <2>5
        <3> QED BY <1>1, <2>2, <2>3, <3>4, <3>5, <3>6 DEF NavailOK
    <2> QED BY <2>4, <2>5
<1>11. PipeInv'
    BY <1>0, <1>1, <1>4, <1>6, <1>8, <1>10 DEF PipeInv, Settled
<1>12. RingRight' /\ PlaceInv' /\ OpenInv' /\ LostInv'
    BY <1>1, Frame DEF Onward
<1> QED BY <1>5, <1>7, <1>9, <1>11, <1>12 DEF PoolInv

-----------------------------------------------------------------------------
(* Clients.                                                                *)

\* A client connects.
LEMMA ConnectStep ==
    ASSUME NEW c \in Clients, PoolInv, Connect(c)
    PROVE  PoolInv'
<1> USE Names
<1>0. TypeOK /\ PlaceInv /\ LostInv /\ backlog \in Seq(Clients)
    BY Kept DEF PoolInv, ConnOK
<1>1. /\ out[c] = "none" /\ out' = [out EXCEPT ![c] = "waiting"]
      /\ backlog' = Append(backlog, c)
      /\ UNCHANGED <<design, pc, hold, open, lock, ring, pipes, made>>
    BY DEF Connect
<1>2. /\ out' \in [Clients -> {"none", "waiting", "answered", "closed"}]
      /\ out'[c] = "waiting" /\ \A d \in Clients \ {c} : out'[d] = out[d]
    BY <1>0, <1>1, Kept
<1>3. /\ backlog' \in Seq(Clients)
      /\ \A d : Queued(d)' <=> Queued(d) \/ d = c
      /\ Distinct(backlog) /\ ~Queued(c) => Distinct(backlog')
    BY <1>0, <1>1, AtTheEnd DEF Queued
<1>4. \A d : (Held(d)' <=> Held(d)) /\ (Posted(d)' <=> Posted(d)) /\ (InRing(d)' <=> InRing(d))
    BY <1>1 DEF Held, Posted, InRing
<1>5. TypeOK'
    <2>1. ConnOK'
        BY <1>0, <1>1, <1>3, Kept DEF ConnOK
    <2> QED BY <1>0, <1>1, <1>2, <2>1, Kept DEF TypeOK
<1>6. PlaceInv'
    <2>1. Distinct(backlog')
        BY <1>0, <1>1, <1>3 DEF PlaceInv
    <2>2. ASSUME NEW d \in Clients
          PROVE  /\ Held(d)' => ~Posted(d)' /\ ~InRing(d)' /\ ~Queued(d)'
                 /\ Posted(d)' => ~InRing(d)' /\ ~Queued(d)'
                 /\ InRing(d)' => ~Queued(d)'
                 /\ (out[d] = "none")' => ~Held(d)' /\ ~Posted(d)' /\ ~InRing(d)' /\ ~Queued(d)'
        BY <1>0, <1>1, <1>2, <1>3, <1>4 DEF PlaceInv
    <2> QED BY <1>0, <1>1, <2>1, <2>2 DEF PlaceInv
<1>7. LostInv'
    BY <1>0, <1>1, <1>2, <1>3, <1>4 DEF LostInv
<1>8. Shape' /\ TokenInv' /\ PipeInv' /\ RingRight' /\ OpenInv'
    BY <1>1, Frame
<1> QED BY <1>5, <1>6, <1>7, <1>8 DEF PoolInv

\* A client gets its answer from whoever has its connection, or closes.
LEMMA ClientSteps ==
    ASSUME PoolInv,
           \/ \E c \in Clients : ClientCloses(c)
           \/ \E x \in Actors : Answer(x)
    PROVE  PoolInv'
<1> USE Names
<1>0. TypeOK /\ PlaceInv /\ LostInv /\ Shape
    BY DEF PoolInv
<1>1. PICK c \in Clients :
         /\ \/ out[c] = "answered" /\ out' = [out EXCEPT ![c] = "closed"]
            \/ /\ out[c] = "waiting" /\ out' = [out EXCEPT ![c] = "answered"]
               /\ c \notin Bad /\ \E x \in Actors : hold[x] = c /\ pc[x] = "busy"
         /\ UNCHANGED <<design, backlog, pc, hold, open, lock, ring, pipes, made>>
    <2>1. CASE \E c \in Clients : ClientCloses(c)
        BY <2>1 DEF ClientCloses
    <2>2. ASSUME NEW x \in Actors, Answer(x)
          PROVE  /\ hold[x] \in Clients /\ out[hold[x]] = "waiting" /\ hold[x] \notin Bad
                 /\ pc[x] = "busy"
                 /\ out' = [out EXCEPT ![hold[x]] = "answered"]
                 /\ UNCHANGED <<design, backlog, pc, hold, open, lock, ring, pipes, made>>
        BY <1>0, <2>2, Kept DEF Answer, Shape, Holding, ConnOK
    <2> QED BY <2>1, <2>2
<1>2. /\ out' \in [Clients -> {"none", "waiting", "answered", "closed"}]
      /\ out'[c] # "none" /\ out'[c] # "waiting" /\ out[c] # "none"
      /\ out'[c] = "answered" => c \notin Bad /\ Held(c)
      /\ \A d \in Clients \ {c} : out'[d] = out[d]
    BY <1>0, <1>1, Kept DEF Held
<1>3. \A d : /\ (Held(d)' <=> Held(d)) /\ (Posted(d)' <=> Posted(d))
             /\ (InRing(d)' <=> InRing(d)) /\ (Queued(d)' <=> Queued(d))
    BY <1>1 DEF Held, Posted, InRing, Queued
<1>4. TypeOK'
    BY <1>0, <1>1, <1>2, Kept DEF TypeOK
<1>5. PlaceInv'
    BY <1>0, <1>1, <1>2, <1>3 DEF PlaceInv
<1>6. LostInv'
    <2>1. ~Queued(c) /\ ~(hold[main] = c /\ pc[main] \in {"accepted", "pass"})
        BY <1>0, <1>1 DEF LostInv, PlaceInv, Held
    <2> QED BY <1>0, <1>1, <1>2, <1>3, <2>1 DEF LostInv
<1>7. Shape' /\ TokenInv' /\ PipeInv' /\ RingRight' /\ OpenInv'
    BY <1>1, Frame
<1> QED BY <1>4, <1>5, <1>6, <1>7 DEF PoolInv

-----------------------------------------------------------------------------
(* Connections change hands.                                               *)

\* What accept() does to the connections.
LEMMA TakeConns ==
    ASSUME PoolInv, NEW x \in Actors, hold[x] = none, Take(x),
           UNCHANGED <<design, out, inbox, clifd>>, x = main \/ pc'[main] = pc[main],
           pc'[main] \notin {"stop", "dead"} => pc[main] \notin {"stop", "dead"}
    PROVE  /\ PlaceInv' /\ OpenInv' /\ LostInv'
           /\ hold'[x] # none /\ \A y \in Actors \ {x} : hold'[y] = hold[y]
<1> USE Names
<1>0. ConnOK /\ PlaceInv /\ OpenInv /\ LostInv /\ backlog \in Seq(Clients)
    BY Kept DEF PoolInv, ConnOK
<1>1. PICK c \in Clients :
      /\ c = Head(backlog) /\ backlog # <<>> /\ backlog' = Tail(backlog)
      /\ hold'[x] = c /\ \A y \in Actors \ {x} : hold'[y] = hold[y]
      /\ open'[c] = {x} /\ \A d \in Clients \ {c} : open'[d] = open[d]
    BY <1>0, TakeFacts
<1>2. Queued(c) /\ ~Held(c) /\ ~Posted(c) /\ ~InRing(c) /\ out[c] # "none"
    <2>1. Queued(c)
        BY <1>0, <1>1, FromTheFront DEF Queued
    <2> QED BY <1>0, <1>1, <2>1 DEF PlaceInv
<1>3. /\ \A d : Queued(d) <=> Queued(d)' \/ d = c
      /\ Distinct(backlog') /\ ~Queued(c)'
    BY <1>0, <1>1, FromTheFront DEF Queued, PlaceInv
<1>4. \A d : (Posted(d)' <=> Posted(d)) /\ (InRing(d)' <=> InRing(d))
    BY DEF Posted, InRing
<1>5. Held(c)' /\ \A d \in Clients \ {c} : Held(d)' <=> Held(d)
    BY <1>1 DEF Held
<1>6. PlaceInv'
    <2>1. \A y, z \in Actors : hold'[y] = hold'[z] /\ hold'[y] # none => y = z
        BY <1>0, <1>1, <1>2 DEF PlaceInv, Held
    <2>2. ASSUME NEW d \in Clients
          PROVE  /\ Held(d)' => ~Posted(d)' /\ ~InRing(d)' /\ ~Queued(d)'
                 /\ Posted(d)' => ~InRing(d)' /\ ~Queued(d)'
                 /\ InRing(d)' => ~Queued(d)'
                 /\ (out[d] = "none")' => ~Held(d)' /\ ~Posted(d)' /\ ~InRing(d)' /\ ~Queued(d)'
        <3>1. CASE d = c
            BY <1>2, <1>3, <1>4, <3>1
        <3>2. CASE d # c
            BY <1>0, <1>3, <1>4, <1>5, <3>2 DEF PlaceInv
        <3> QED BY <3>1, <3>2
    <2> QED BY <1>0, <1>3, <2>1, <2>2 DEF PlaceInv
<1>7. OpenInv'
    BY <1>0, <1>1, <1>2 DEF OpenInv, Held
<1>8. LostInv'
    BY <1>0, <1>1, <1>2, <1>3, <1>4, <1>5 DEF LostInv
<1> QED BY <1>1, <1>6, <1>7, <1>8

\* The main process accepts.
LEMMA MainAcceptsStep == PoolInv /\ MainAccepts => PoolInv'
<1> SUFFICES ASSUME PoolInv, MainAccepts PROVE PoolInv'
    OBVIOUS
<1> USE Names
<1>0. TypeOK /\ Shape
    BY DEF PoolInv
<1>1. /\ pc[main] = "loop" /\ design.by \in {"main", "new", "ring"} /\ Take(main)
      /\ \/ design.by = "main" /\ Goto(main, "busy")
         \/ design.by \in {"new", "ring"} /\ Goto(main, "accepted")
      /\ UNCHANGED <<design, out, lock, ring, pipes, made>>
    BY DEF MainAccepts
<1>2. /\ PcOK' /\ \A y \in Actors \ {main} : pc'[y] = pc[y]
      /\ \/ design.by = "main" /\ pc'[main] = "busy"
         \/ design.by \in {"new", "ring"} /\ pc'[main] = "accepted"
    BY <1>0, <1>1, GotoFacts, Kept
<1>3. hold[main] = none
    BY <1>0, <1>1 DEF Shape, Holding
<1>4. /\ PlaceInv' /\ OpenInv' /\ LostInv'
      /\ hold'[main] # none /\ \A y \in Actors \ {main} : hold'[y] = hold[y]
    BY <1>1, <1>3, TakeConns
<1>5. TypeOK'
    BY <1>0, <1>1, <1>2, Kept, TakeFacts DEF TypeOK
<1>6. Shape'
    BY <1>0, <1>1, <1>2, <1>4 DEF Shape, Holding
<1>7. RingRight'
    <2>1. Idle \subseteq Idle' /\ \A w \in Pool : pc'[w] = "asleep" => pc[w] = "asleep"
        BY <1>2 DEF Idle
    <2> QED BY <1>1, <2>1, RingSame DEF Alive
<1>8. TokenInv' /\ PipeInv'
    BY <1>1, Frame
<1> QED BY <1>4, <1>5, <1>6, <1>7, <1>8 DEF PoolInv

\* One of the pool accepts.
LEMMA ChildAcceptsStep ==
    ASSUME NEW w \in Pool, PoolInv, ChildAccepts(w)
    PROVE  PoolInv'
<1> USE Names
<1>0. TypeOK /\ Shape
    BY DEF PoolInv
<1>1. /\ design.by = "acceptor" /\ pc[w] \in {"locked", "idle"} /\ Take(w)
      /\ Goto(w, "release") \/ Goto(w, "busy")
      /\ UNCHANGED <<design, out, lock, ring, pipes, made>>
    BY DEF ChildAccepts
<1>2. /\ PcOK' /\ \A y \in Actors \ {w} : pc'[y] = pc[y]
      /\ pc'[w] \in {"release", "busy"}
    BY <1>0, <1>1, GotoFacts, Kept
<1>3. hold[w] = none
    BY <1>0, <1>1 DEF Shape, Holding
<1>4. /\ PlaceInv' /\ OpenInv' /\ LostInv'
      /\ hold'[w] # none /\ \A y \in Actors \ {w} : hold'[y] = hold[y]
    BY <1>1, <1>2, <1>3, TakeConns
<1>5. TypeOK'
    BY <1>0, <1>1, <1>2, Kept, TakeFacts DEF TypeOK
<1>6. Shape'
    <2>1. w > made => FALSE
        BY <1>0, <1>1 DEF Shape
    <2> QED BY <1>0, <1>1, <1>2, <1>4, <2>1 DEF Shape, Holding
<1>7. TokenInv' /\ PipeInv' /\ RingRight'
    BY <1>1, Frame
<1> QED BY <1>4, <1>5, <1>6, <1>7 DEF PoolInv

\* The parent of serv05 accepts.
LEMMA AcceptSelectedStep == PoolInv /\ AcceptSelected => PoolInv'
<1> SUFFICES ASSUME PoolInv, AcceptSelected PROVE PoolInv'
    OBVIOUS
<1> USE Names
<1>0. TypeOK /\ Shape /\ PipeInv
    BY DEF PoolInv
<1>1. /\ pc[main] = "selected" /\ sel.listen /\ Take(main) /\ Goto(main, "pass")
      /\ sel' = [sel EXCEPT !.listen = FALSE]
      /\ UNCHANGED <<design, out, lock, ring, status, navail, inbox, ready, made>>
    BY DEF AcceptSelected
<1>2. PcOK' /\ pc'[main] = "pass" /\ \A y \in Actors \ {main} : pc'[y] = pc[y]
    BY <1>0, <1>1, GotoFacts, Kept
<1>3. hold[main] = none /\ design.by = "pipe"
    BY <1>0, <1>1 DEF Shape, Holding
<1>4. /\ PlaceInv' /\ OpenInv' /\ LostInv'
      /\ hold'[main] # none /\ \A y \in Actors \ {main} : hold'[y] = hold[y]
    BY <1>1, <1>3, TakeConns
<1>5. PipesOK'
    BY <1>0, <1>1, Kept DEF PipesOK
<1>6. TypeOK'
    BY <1>0, <1>1, <1>2, <1>5, Kept, TakeFacts DEF TypeOK
<1>7. Shape'
    BY <1>0, <1>1, <1>2, <1>3, <1>4 DEF Shape, Holding
<1>8. TokenInv' /\ PipeInv'
    <2>1. TokenInv' /\ NavailOK'
        BY <1>1, <1>2, <1>3, PipesKept DEF Spoilt
    <2> QED BY <1>0, <1>1, <1>2, <1>3, <1>5, <2>1 DEF PipeInv, PipesOK, Settled
<1>9. RingRight'
    BY <1>1, <1>3, Frame
<1> QED BY <1>4, <1>6, <1>7, <1>8, <1>9 DEF PoolInv

\* A connection goes from one's hands to another's.
LEMMA HandOver ==
    ASSUME PoolInv, NEW x \in Actors, NEW y \in Actors, x # y, NEW c \in Clients,
           UNCHANGED <<design, out, backlog, inbox, clifd>>,
           hold[x] = c, hold'[x] = none, hold[y] = none, hold'[y] = c,
           \A z \in Actors \ {x, y} : hold'[z] = hold[z],
           open'[c] = {y}, \A d \in Clients \ {c} : open'[d] = open[d],
           main \notin {x, y} \/ pc'[main] \notin {"accepted", "pass"}, Onward
    PROVE  PlaceInv' /\ OpenInv' /\ LostInv'
<1> USE Names
<1>0. PlaceInv /\ OpenInv /\ LostInv
    BY DEF PoolInv
<1>1. \A d : /\ (Posted(d)' <=> Posted(d)) /\ (InRing(d)' <=> InRing(d))
             /\ (Queued(d)' <=> Queued(d))
    BY DEF Posted, InRing, Queued
<1>2. \A d \in Clients : Held(d)' <=> Held(d)
    BY DEF Held
<1>3. PlaceInv'
    <2>1. \A u, v \in Actors : hold'[u] = hold'[v] /\ hold'[u] # none => u = v
        BY <1>0 DEF PlaceInv
    <2>2. Distinct(backlog')
        BY <1>0 DEF PlaceInv
    <2> QED BY <1>0, <1>1, <1>2, <2>1, <2>2 DEF PlaceInv
<1>4. OpenInv'
    BY <1>0 DEF OpenInv, PlaceInv
<1>5. LostInv'
    BY <1>0, <1>1, <1>2 DEF LostInv, Onward
<1> QED BY <1>3, <1>4, <1>5

\* Connections are closed: those of clients that have closed, or are bad.
LEMMA Dropped ==
    ASSUME PoolInv, NEW S \in SUBSET Actors,
           UNCHANGED <<design, out, backlog, inbox, clifd>>,
           \A z \in S : hold'[z] = none, \A z \in Actors \ S : hold'[z] = hold[z],
           \A d \in Clients, z \in Actors : z \in open'[d] <=> z \in open[d] /\ z \notin S, Onward,
           pc'[main] \notin {"stop", "dead"} =>
               /\ pc[main] \notin {"stop", "dead"}
               /\ \A z \in S : hold[z] = none \/ out[hold[z]] = "closed" \/ hold[z] \in Bad
    PROVE  PlaceInv' /\ OpenInv' /\ LostInv'
<1> USE Names
<1>0. PlaceInv /\ OpenInv /\ LostInv
    BY DEF PoolInv
<1>1. \A d : /\ (Posted(d)' <=> Posted(d)) /\ (InRing(d)' <=> InRing(d))
             /\ (Queued(d)' <=> Queued(d))
    BY DEF Posted, InRing, Queued
<1>2. \A d \in Clients : Held(d)' => Held(d)
    BY DEF Held
<1>3. PlaceInv'
    <2>1. \A u, v \in Actors : hold'[u] = hold'[v] /\ hold'[u] # none => u = v
        BY <1>0 DEF PlaceInv
    <2>2. Distinct(backlog')
        BY <1>0 DEF PlaceInv
    <2> QED BY <1>0, <1>1, <1>2, <2>1, <2>2 DEF PlaceInv
<1>4. OpenInv'
    BY <1>0 DEF OpenInv, PlaceInv
<1>5. LostInv'
    <2> SUFFICES ASSUME NEW d \in Clients, pc'[main] \notin {"stop", "dead"}
                 PROVE  /\ out[d] = "waiting" /\ d \notin Bad =>
                              Queued(d)' \/ Held(d)' \/ Posted(d)' \/ InRing(d)'
                        /\ out[d] = "answered" => Held(d)'
        BY <1>0, <1>1 DEF LostInv, Onward
    <2>1. out[d] = "answered" => d \notin Bad
        BY <1>0 DEF LostInv
    <2>2. out[d] # "closed" /\ d \notin Bad /\ Held(d) => Held(d)'
        BY DEF Held
    <2> QED BY <1>0, <1>1, <2>1, <2>2 DEF LostInv
<1> QED BY <1>3, <1>4, <1>5

\* A child or a thread is made for a connection.
LEMMA NewWorkerStep == PoolInv /\ NewWorker => PoolInv'
<1> SUFFICES ASSUME PoolInv, NewWorker PROVE PoolInv'
    OBVIOUS
<1> USE Names
<1>0. TypeOK /\ Shape /\ PlaceInv /\ PcOK /\ ConnOK
    BY Kept DEF PoolInv
<1>1. PICK c \in Clients :
      /\ pc[main] = "accepted" /\ design.by = "new" /\ c = hold[main]
      /\ pc' = [pc EXCEPT ![main] = "loop", ![c] = "busy"]
      /\ hold' = [hold EXCEPT ![main] = none, ![c] = c]
      /\ open' = [open EXCEPT ![c] = {c}]
      /\ UNCHANGED <<design, backlog, out, lock, ring, pipes, made>>
    <2>1. hold[main] \in Clients
        BY <1>0 DEF NewWorker, Shape, Holding, ConnOK
    <2> QED BY <2>1 DEF NewWorker
<1>2. /\ DOMAIN pc' = Actors /\ pc'[main] = "loop" /\ pc'[c] = "busy"
      /\ \A y \in Actors \ {main, c} : pc'[y] = pc[y]
    BY <1>0, <1>1 DEF PcOK
<1>3. PcOK'
    BY <1>0, <1>1, <1>2 DEF PcOK
<1>4. /\ hold' \in [Actors -> Clients \cup {none}] /\ hold'[main] = none /\ hold'[c] = c
      /\ \A y \in Actors \ {main, c} : hold'[y] = hold[y]
    BY <1>0, <1>1 DEF ConnOK
<1>5. /\ open' \in [Clients -> SUBSET (Actors \cup {pipe})] /\ open'[c] = {c}
      /\ \A d \in Clients \ {c} : open'[d] = open[d]
    BY <1>0, <1>1 DEF ConnOK
<1>6. TypeOK'
    BY <1>0, <1>1, <1>3, <1>4, <1>5, Kept DEF TypeOK, ConnOK
<1>7. Shape'
    BY <1>0, <1>1, <1>2, <1>4 DEF Shape, Holding
<1>8. hold[c] = none
    BY <1>0, <1>1 DEF Shape, PlaceInv
<1>9. PlaceInv' /\ OpenInv' /\ LostInv'
    BY <1>1, <1>2, <1>4, <1>5, <1>8, HandOver DEF Onward
<1>10. TokenInv' /\ PipeInv' /\ RingRight'
    BY <1>1, Frame
<1> QED BY <1>6, <1>7, <1>9, <1>10 DEF PoolInv

\* A process ends: the server, one that is told to, or one with a bad client.
LEMMA DieStep ==
    ASSUME PoolInv, NEW x \in Actors, Die(x),
           \/ x = main \/ design.threads \/ pc[main] \in {"stop", "dead"}
           \/ pc[x] \in {"busy", "quits"} /\ hold[x] \in Bad
    PROVE  PoolInv'
<1> USE Names
<1>0. TypeOK /\ Shape /\ PipeInv
    BY DEF PoolInv
<1>1. /\ PcOK' /\ ConnOK' /\ lock' \in Pool \cup {none}
      /\ \A y \in Actors : /\ y \in Ends(x) => pc'[y] = "dead" /\ hold'[y] = none
                           /\ y \notin Ends(x) => pc'[y] = pc[y] /\ hold'[y] = hold[y]
      /\ \A c \in Clients, y \in Actors :
            y \in open'[c] <=> y \in open[c] /\ y \notin Ends(x)
      /\ UNCHANGED <<design, backlog, out, ring, pipes, made>>
    BY <1>0, DieFacts, Kept
<1>2. /\ x \in Ends(x) /\ Ends(x) \subseteq Actors
      /\ design.threads => Ends(x) = Actors
      /\ ~design.threads => Ends(x) = {x}
    BY <1>0, EndsFacts, Kept
<1>3. TypeOK'
    BY <1>0, <1>1, Kept DEF TypeOK
<1>4. Shape'
    BY <1>0, <1>1, <1>2 DEF Shape, Holding
<1>5. ASSUME pc'[main] # "dead"
      PROVE  /\ x # main /\ ~design.threads /\ pc'[main] = pc[main]
             /\ pc[main] = "stop" \/ (pc[x] \in {"busy", "quits"} /\ hold[x] \in Bad)
    BY <1>1, <1>2, <1>5
<1>6. TokenInv' /\ PipeInv'
    <2>1. TokenInv' /\ (design.by = "pipe" /\ pc[main] # "dead" => NavailOK')
        BY <1>1, PipesKept DEF Spoilt
    <2> SUFFICES ASSUME design.by = "pipe", pc'[main] # "dead" PROVE PipeInv'
        BY <1>1, <2>1 DEF PipeInv
    <2>2. /\ x # main /\ pc'[main] = pc[main] /\ pc'[x] = "dead"
          /\ \A y \in Actors \ {x} : pc'[y] = pc[y]
          /\ pc[main] = "stop" \/ pc[x] \in {"busy", "quits"}
        BY <1>1, <1>2, <1>5
    <2>3. ASSUME pc[main] = "start" PROVE x \notin Pool
        BY <1>0, <2>2, <2>3 DEF PipeInv
    <2> QED BY <1>0, <1>1, <2>1, <2>2, <2>3 DEF PipeInv, Free, Settled
<1>7. RingRight'
    BY <1>0, <1>1, <1>2 DEF RingRight, Shape, Alive
<1>8. PlaceInv' /\ OpenInv' /\ LostInv'
    <2>1. pc'[main] \notin {"stop", "dead"} =>
               /\ pc[main] \notin {"stop", "dead"}
               /\ \A z \in Ends(x) :
                     hold[z] = none \/ out[hold[z]] = "closed" \/ hold[z] \in Bad
        BY <1>1, <1>2, <1>5
    <2>2. /\ \A z \in Ends(x) : hold'[z] = none
          /\ \A z \in Actors \ Ends(x) : hold'[z] = hold[z]
          /\ \A d \in Clients, z \in Actors :
                z \in open'[d] <=> z \in open[d] /\ z \notin Ends(x)
        BY <1>1, <1>2
    <2>3. Onward
        BY <1>1, <1>2 DEF Onward
    <2> QED BY <1>1, <1>2, <2>1, <2>2, <2>3, Dropped
<1> QED BY <1>3, <1>4, <1>6, <1>7, <1>8 DEF PoolInv

\* Every step with which a process ends is one of these.
LEMMA EndSteps ==
    ASSUME PoolInv,
           \/ PutFull \/ PassFails \/ ParentQuits \/ StopDone
           \/ \E w \in Pool : ReadFdEof(w) \/ Exit(w) \/ Terminated(w)
           \/ \E x \in Actors : BadRequest(x)
    PROVE  PoolInv'
<1> USE Names
<1>1. CASE PutFull \/ PassFails \/ ParentQuits \/ StopDone
    BY <1>1, DieStep DEF PutFull, PassFails, ParentQuits, StopDone
<1>2. ASSUME NEW w \in Pool, ReadFdEof(w) \/ Terminated(w) PROVE PoolInv'
    <2>1. PcOK
        BY Kept DEF PoolInv
    <2>2. Die(w) /\ pc[main] \in {"stop", "dead"}
        BY <1>2, <2>1 DEF ReadFdEof, Terminated, Alive, PcOK
    <2> QED BY <2>2, DieStep
<1>3. ASSUME NEW x \in Actors, BadRequest(x) PROVE PoolInv'
    BY <1>3, DieStep DEF BadRequest
<1>4. ASSUME NEW w \in Pool, Exit(w) PROVE PoolInv'
    BY <1>4, DieStep DEF Exit, PoolInv, Shape
<1> QED BY <1>1, <1>2, <1>3, <1>4

\* The last message of a child of serv05.
LEMMA ComplainStep ==
    ASSUME NEW w \in Pool, PoolInv, Complain(w)
    PROVE  PoolInv'
<1> USE Names
<1>0. TypeOK /\ Shape /\ TokenInv /\ PipeInv /\ PipesOK
    BY Kept DEF PoolInv
<1>1. /\ pc[w] = "busy" /\ hold[w] \in Bad /\ design.by = "pipe" /\ Goto(w, "quits")
      /\ UNCHANGED <<design, backlog, out, hold, open, lock, ring, status, navail, sel, inbox,
                     made>>
    BY DEF Complain
<1>2. PICK n \in 0 .. MsgLen : ready' = [ready EXCEPT ![w] = @ + n]
    BY DEF Complain
<1>3. PcOK' /\ pc'[w] = "quits" /\ \A y \in Actors \ {w} : pc'[y] = pc[y]
    BY <1>0, <1>1, GotoFacts, Kept
<1>4. ready[w] = 0 /\ Len(inbox[w]) = 0 /\ w \notin Free
    BY <1>0, <1>1 DEF TokenInv, Tokens, PipesOK
<1>5. /\ ready' \in [Pool -> 0 .. MsgLen] /\ ready'[w] = n
      /\ \A v \in Pool \ {w} : ready'[v] = ready[v]
    BY <1>0, <1>2, <1>4 DEF PipesOK
<1>6. TypeOK'
    BY <1>0, <1>1, <1>3, <1>5, Kept DEF TypeOK, PipesOK
<1>7. Shape'
    BY <1>0, <1>1, <1>3 DEF Shape, Holding
<1>8. Free' = Free /\ Spoilt' = Spoilt \cup {w} /\ w \notin Spoilt
    BY <1>1, <1>3 DEF Free, Spoilt
<1>9. TokenInv'
    <2>1. Tokens(w)' = n
        BY <1>1, <1>4, <1>5, <1>8 DEF Tokens
    <2>2. \A v \in Pool \ {w} : Tokens(v)' = Tokens(v)
        BY <1>1, <1>5, <1>8 DEF Tokens
    <2> QED BY <1>0, <1>1, <1>3, <1>8, <2>1, <2>2 DEF TokenInv
<1>10. PipeInv'
    <2>1. Surplus \subseteq Surplus' /\ Surplus' \in SUBSET (Pool \X (1 .. MsgLen - 1))
        BY <1>5, <1>8 DEF Surplus, Spoilt
    <2>2. /\ Cardinality(Surplus) <= Cardinality(Surplus')
          /\ Cardinality(Surplus) \in Nat /\ Cardinality(Surplus') \in Nat
        BY <2>1, Counted
    <2>3. Cardinality(Free) \in Nat /\ navail \in Nat
        BY <1>0, Counted DEF Free, PipesOK
    <2>4. NavailOK => NavailOK'
        BY <1>1, <1>8, <2>2, <2>3 DEF NavailOK
    <2> QED BY <1>0, <1>1, <1>3, <1>4, <1>8, <2>4 DEF PipeInv, Settled
<1>11. RingRight' /\ PlaceInv' /\ OpenInv' /\ LostInv'
    BY <1>1, <1>3, Frame DEF Onward
<1> QED BY <1>6, <1>7, <1>9, <1>10, <1>11 DEF PoolInv

\* SIGINT.
LEMMA SigintStep == PoolInv /\ Sigint => PoolInv'
BY Names, DieStep, StopStep DEF Sigint

\* web_child returns.
LEMMA CloseConnStep ==
    ASSUME NEW x \in Actors, PoolInv, CloseConn(x)
    PROVE  PoolInv'
<1> USE Names
<1>0. TypeOK /\ Shape /\ PipeInv /\ OpenInv
    BY DEF PoolInv
<1>1. PICK c \in Clients :
      /\ pc[x] = "busy" /\ c = hold[x] /\ out[c] = "closed"
      /\ open' = [open EXCEPT ![c] = @ \ {x}] /\ Hand(x, none)
      /\ \/ x = main /\ Goto(x, "loop")
         \/ x \in Clients /\ Goto(x, "dead")
         \/ x \in Pool /\ design.by = "pipe" /\ Goto(x, "tell")
         \/ x \in Pool /\ design.by # "pipe" /\ Goto(x, "idle")
      /\ UNCHANGED <<design, backlog, out, lock, ring, pipes, made>>
    <2>1. hold[x] \in Clients
        BY <1>0, Kept DEF CloseConn, Shape, Holding, ConnOK
    <2>2. x = main \/ x \in Clients \/ x \in Pool
        BY DEF Actors, Workers
    <2> QED BY <2>1, <2>2 DEF CloseConn
<1>2. /\ hold' \in [Actors -> Clients \cup {none}] /\ hold'[x] = none
      /\ \A y \in Actors \ {x} : hold'[y] = hold[y]
    BY <1>0, <1>1, HandFacts, Kept
<1>3. /\ open' \in [Clients -> SUBSET (Actors \cup {pipe})] /\ open'[c] = open[c] \ {x}
      /\ \A d \in Clients \ {c} : open'[d] = open[d]
    <2>1. open[c] \ {x} \in SUBSET (Actors \cup {pipe})
        BY <1>0, Kept DEF ConnOK
    <2>2. open' = [open EXCEPT ![c] = open[c] \ {x}]
        BY <1>1
    <2> QED BY <1>0, <2>1, <2>2, OpenFacts, Kept
<1>4. /\ PcOK' /\ \A y \in Actors \ {x} : pc'[y] = pc[y]
      /\ \/ x = main /\ pc'[x] = "loop"
         \/ x \in Clients /\ pc'[x] = "dead"
         \/ x \in Pool /\ design.by = "pipe" /\ pc'[x] = "tell"
         \/ x \in Pool /\ design.by # "pipe" /\ pc'[x] = "idle"
    BY <1>0, <1>1, GotoFacts, Kept
<1>5. TypeOK'
    BY <1>0, <1>1, <1>2, <1>3, <1>4, Kept DEF TypeOK, ConnOK
<1>6. Shape'
    BY <1>0, <1>1, <1>2, <1>4 DEF Shape, Holding
<1>7. TokenInv' /\ PipeInv'
    <2>1. TokenInv' /\ (design.by = "pipe" /\ pc[main] # "dead" => NavailOK')
        BY <1>1, <1>4, PipesKept DEF Spoilt
    <2> SUFFICES ASSUME design.by = "pipe", pc[main] # "dead" PROVE PipeInv'
        BY <1>0, <1>1, <1>4, <2>1 DEF PipeInv
    <2>2. x # main /\ pc'[main] = pc[main] /\ (x \in Pool => pc'[x] = "tell")
        BY <1>0, <1>1, <1>4 DEF Shape
    <2>3. ASSUME pc[main] = "start" PROVE x \notin Pool
        BY <1>0, <1>1, <2>3 DEF PipeInv
    <2> QED BY <1>0, <1>1, <1>4, <2>1, <2>2, <2>3 DEF PipeInv, Free, Settled
<1>8. RingRight'
    <2>1. Idle \subseteq Idle' /\ \A w \in Pool : pc'[w] = "asleep" => pc[w] = "asleep"
        BY <1>1, <1>4 DEF Idle
    <2>2. Alive(main)' => Alive(main)
        BY <1>1, <1>4 DEF Alive
    <2> QED BY <1>1, <2>1, <2>2, RingSame
<1>9. PlaceInv' /\ OpenInv' /\ LostInv'
    <2>1. \A d \in Clients, z \in Actors : z \in open'[d] <=> z \in open[d] /\ z \notin {x}
        BY <1>0, <1>1, <1>3 DEF OpenInv
    <2>2. pc'[main] \notin {"stop", "dead"} =>
               /\ pc[main] \notin {"stop", "dead"}
               /\ \A z \in {x} : hold[z] = none \/ out[hold[z]] = "closed" \/ hold[z] \in Bad
        BY <1>1, <1>4
    <2>3. Onward
        BY <1>1, <1>4 DEF Onward
    <2> QED BY <1>1, <1>2, <2>1, <2>2, <2>3, Dropped
<1> QED BY <1>5, <1>6, <1>7, <1>8, <1>9 DEF PoolInv

-----------------------------------------------------------------------------
(* serv05: a connection goes through a stream pipe.                        *)

\* The parent passes the descriptor to its first free child.
LEMMA PassDescriptorStep == PoolInv /\ PassDescriptor => PoolInv'
<1> SUFFICES ASSUME PoolInv, PassDescriptor PROVE PoolInv'
    OBVIOUS
<1> USE Names
<1>0. /\ TypeOK /\ Shape /\ TokenInv /\ PipeInv /\ PlaceInv /\ OpenInv /\ LostInv
      /\ PcOK /\ ConnOK /\ PipesOK
    BY Kept DEF PoolInv
<1>1. /\ pc[main] = "pass" /\ Free # {} /\ navail' = navail - 1 /\ Hand(main, none)
      /\ Goto(main, "selected")
      /\ UNCHANGED <<design, backlog, out, lock, ring, sel, ready, made>>
    BY DEF PassDescriptor
<1>2. PICK c \in Clients : c = hold[main]
    BY <1>0, <1>1 DEF Shape, Holding, ConnOK
<1>3. PICK w \in Free : /\ Alive(w)
                        /\ status' = [status EXCEPT ![w] = 1]
                        /\ inbox' = [inbox EXCEPT ![w] = Append(@, c)]
                        /\ open' = [open EXCEPT ![c] = {pipe}]
    BY <1>1, <1>2, FirstFound DEF PassDescriptor
<1>4. PcOK' /\ pc'[main] = "selected" /\ \A y \in Actors \ {main} : pc'[y] = pc[y]
    BY <1>0, <1>1, GotoFacts
<1>5. /\ hold' \in [Actors -> Clients \cup {none}] /\ hold'[main] = none
      /\ \A y \in Actors \ {main} : hold'[y] = hold[y]
    BY <1>0, <1>1, HandFacts
<1>6. /\ open' \in [Clients -> SUBSET (Actors \cup {pipe})] /\ open'[c] = {pipe}
      /\ \A d \in Clients \ {c} : open'[d] = open[d]
    BY <1>0, <1>3, OpenFacts
<1>7. w \in Pool /\ design.by = "pipe" /\ NavailOK /\ navail > 0 /\ pc[w] # "none"
    BY <1>0, <1>1, <1>3 DEF Free, PipeInv, Shape, Alive
<1>8. /\ status' \in [Pool -> {0, 1}] /\ status'[w] = 1
      /\ \A v \in Pool \ {w} : status'[v] = status[v]
    BY <1>0, <1>3, <1>7 DEF PipesOK
<1>9. /\ inbox' \in [Pool -> Seq(Clients)] /\ Len(inbox'[w]) = Len(inbox[w]) + 1
      /\ \A d : Occurs(inbox'[w], d) <=> Occurs(inbox[w], d) \/ d = c
      /\ Distinct(inbox[w]) /\ ~Occurs(inbox[w], c) => Distinct(inbox'[w])
      /\ \A v \in Pool \ {w} : inbox'[v] = inbox[v]
    <2>1. inbox[w] \in Seq(Clients) /\ inbox'[w] = Append(inbox[w], c)
        BY <1>0, <1>3, <1>7 DEF PipesOK
    <2>2. Append(inbox[w], c) \in Seq(Clients) /\ Len(inbox'[w]) = Len(inbox[w]) + 1
        BY <2>1
    <2> QED BY <1>0, <1>3, <1>7, <2>1, <2>2, AtTheEnd DEF PipesOK
<1>10. /\ Free' = Free \ {w} /\ Surplus' = Surplus /\ Spoilt' = Spoilt
       /\ NavailOK' /\ navail' \in Nat
    <2>1. Free' = Free \ {w} /\ Spoilt' = Spoilt
        BY <1>4, <1>8 DEF Free, Spoilt
    <2>2. Surplus' = Surplus
        BY <1>1, <2>1 DEF Surplus
    <2>3. IsFiniteSet(Free) /\ Cardinality(Free) \in Nat
        BY Counted DEF Free
    <2>4. Cardinality(Free \ {w}) = Cardinality(Free) - 1
        BY <2>3, FS_RemoveElement
    <2>5. Cardinality(Surplus) \in Nat
        <3>1. Surplus \in SUBSET (Pool \X (1 .. MsgLen - 1))
            BY DEF Surplus, Spoilt
        <3> QED BY <3>1, Counted
    <2> QED BY <1>0, <1>1, <1>7, <2>1, <2>2, <2>3, <2>4, <2>5 DEF PipesOK, NavailOK
<1>11. TypeOK'
    BY <1>0, <1>1, <1>4, <1>5, <1>6, <1>8, <1>9, <1>10, Kept DEF TypeOK, ConnOK, PipesOK
<1>12. Shape'
    <2>1. ASSUME NEW v \in Pool
          PROVE  /\ (pc[v] = "quits" => hold[v] \in Bad)'
                 /\ (pc[v] = "none" => inbox[v] = <<>>)'
        BY <1>0, <1>1, <1>4, <1>5, <1>7, <1>9 DEF Shape
    <2>2. ASSUME NEW v \in Pool
          PROVE  /\ (pc[v] \in {"locked", "release"} => design.by = "acceptor")'
                 /\ (pc[v] = "asleep" => design.by = "ring")'
                 /\ (pc[v] \in {"tell", "quits"} => design.by = "pipe")'
                 /\ (v > made => pc[v] \in {"none", "dead"})'
        BY <1>0, <1>1, <1>4 DEF Shape
    <2>3. \A y \in Actors : /\ pc'[y] \in Holding => hold'[y] # none
                            /\ hold'[y] # none => pc'[y] \in Holding \cup {"stop"}
        BY <1>0, <1>1, <1>4, <1>5 DEF Shape, Holding
    <2> QED BY <1>0, <1>1, <1>4, <1>5, <1>7, <2>1, <2>2, <2>3 DEF Shape
<1>13. TokenInv' /\ PipeInv'
    <2>1. Tokens(w)' = Tokens(w)
        BY <1>0, <1>1, <1>7, <1>9, <1>10 DEF Tokens, PipesOK
    <2>2. \A v \in Pool \ {w} : Tokens(v)' = Tokens(v)
        BY <1>1, <1>9, <1>10 DEF Tokens
    <2>3. TokenInv'
        BY <1>0, <1>1, <1>4, <1>10, <2>1, <2>2 DEF TokenInv
    <2>4. ~sel.listen
        BY <1>0, <1>1, <1>7 DEF PipeInv
    <2> QED BY <1>0, <1>1, <1>4, <1>7, <1>10, <2>3, <2>4 DEF PipeInv, Settled
<1>14. RingRight'
    BY <1>1, <1>7, Frame
<1>15. /\ \A d : (InRing(d)' <=> InRing(d)) /\ (Queued(d)' <=> Queued(d))
       /\ ~Held(c)' /\ \A d \in Clients \ {c} : Held(d)' <=> Held(d)
       /\ Held(c)
    <2>1. ~Held(c)'
        BY <1>0, <1>2, <1>5 DEF Held, PlaceInv
    <2> QED BY <1>1, <1>2, <1>5, <2>1 DEF InRing, Queued, Held
<1>16. Posted(c)' /\ \A d \in Clients \ {c} : Posted(d)' <=> Posted(d)
    <2>1. \A d \in Clients \ {c}, v \in Pool : Occurs(inbox'[v], d) <=> Occurs(inbox[v], d)
        BY <1>7, <1>9
    <2> QED BY <1>7, <1>9, <2>1 DEF Posted
<1>17. PlaceInv'
    <2>1. \A u, v \in Actors : hold'[u] = hold'[v] /\ hold'[u] # none => u = v
        BY <1>0, <1>5 DEF PlaceInv
    <2>2. \A v \in Pool : Distinct(inbox'[v]) /\ ~Occurs(inbox[v], c)
        BY <1>0, <1>7, <1>9, <1>15 DEF PlaceInv, Posted
    <2>4. \A u, v \in Pool, d \in Clients : Occurs(inbox'[u], d) /\ Occurs(inbox'[v], d) => u = v
        BY <1>0, <1>7, <1>9, <2>2 DEF PlaceInv
    <2>3. ASSUME NEW d \in Clients
          PROVE  /\ Held(d)' => ~Posted(d)' /\ ~InRing(d)' /\ ~Queued(d)'
                 /\ Posted(d)' => ~InRing(d)' /\ ~Queued(d)'
                 /\ InRing(d)' => ~Queued(d)'
                 /\ (out[d] = "none")' => ~Held(d)' /\ ~Posted(d)' /\ ~InRing(d)' /\ ~Queued(d)'
        BY <1>0, <1>1, <1>15, <1>16 DEF PlaceInv
    <2> QED BY <1>0, <1>1, <2>1, <2>2, <2>3, <2>4 DEF PlaceInv
<1>18. OpenInv'
    BY <1>0, <1>2, <1>5, <1>6, <1>15 DEF OpenInv, Held
<1>19. LostInv'
    BY <1>0, <1>1, <1>2, <1>4, <1>5, <1>15, <1>16 DEF LostInv
<1> QED BY <1>11, <1>12, <1>13, <1>14, <1>17, <1>18, <1>19 DEF PoolInv

\* The child takes it out of its pipe.
LEMMA ReadFdStep ==
    ASSUME NEW w \in Pool, PoolInv, ReadFd(w)
    PROVE  PoolInv'
<1> USE Names
<1>0. /\ TypeOK /\ Shape /\ TokenInv /\ PipeInv /\ PlaceInv /\ OpenInv /\ LostInv
      /\ PcOK /\ ConnOK /\ PipesOK
    BY Kept DEF PoolInv
<1>1. /\ pc[w] = "idle" /\ design.by = "pipe" /\ inbox[w] # <<>> /\ Goto(w, "busy")
      /\ UNCHANGED <<design, backlog, out, lock, ring, status, navail, sel, ready, made>>
    BY DEF ReadFd
<1>2. PICK c \in Clients : c = Head(inbox[w])
    BY <1>0, <1>1, FromTheFront DEF PipesOK
<1>3. /\ Hand(w, c) /\ open' = [open EXCEPT ![c] = {w}]
      /\ inbox' = [inbox EXCEPT ![w] = Tail(inbox[w])]
    BY <1>2 DEF ReadFd
<1>4. PcOK' /\ pc'[w] = "busy" /\ \A y \in Actors \ {w} : pc'[y] = pc[y]
    BY <1>0, <1>1, GotoFacts
<1>5. /\ hold' \in [Actors -> Clients \cup {none}] /\ hold'[w] = c
      /\ \A y \in Actors \ {w} : hold'[y] = hold[y]
    BY <1>0, <1>3, HandFacts
<1>6. /\ open' \in [Clients -> SUBSET (Actors \cup {pipe})] /\ open'[c] = {w}
      /\ \A d \in Clients \ {c} : open'[d] = open[d]
    <2>1. {w} \in SUBSET (Actors \cup {pipe})
        OBVIOUS
    <2> QED BY <1>0, <1>3, <2>1, OpenFacts
<1>7. /\ inbox' \in [Pool -> Seq(Clients)] /\ Len(inbox'[w]) = Len(inbox[w]) - 1
      /\ \A d : Occurs(inbox[w], d) <=> Occurs(inbox'[w], d) \/ d = c
      /\ Distinct(inbox[w]) => Distinct(inbox'[w]) /\ ~Occurs(inbox'[w], c)
      /\ \A v \in Pool \ {w} : inbox'[v] = inbox[v]
    <2>1. inbox[w] \in Seq(Clients) /\ inbox'[w] = Tail(inbox[w])
        BY <1>0, <1>3 DEF PipesOK
    <2>2. Tail(inbox[w]) \in Seq(Clients) /\ Len(inbox'[w]) = Len(inbox[w]) - 1
        BY <1>1, <2>1
    <2> QED BY <1>0, <1>1, <1>2, <1>3, <2>1, <2>2, FromTheFront DEF PipesOK
<1>8. hold[w] = none /\ Free' = Free /\ Spoilt' = Spoilt /\ w \notin Spoilt
    BY <1>0, <1>1, <1>4 DEF Shape, Holding, Free, Spoilt
<1>9. TypeOK'
    BY <1>0, <1>1, <1>4, <1>5, <1>6, <1>7, Kept DEF TypeOK, ConnOK, PipesOK
<1>10. Shape'
    <2>1. ASSUME NEW v \in Pool
          PROVE  /\ (pc[v] = "quits" => hold[v] \in Bad)'
                 /\ (pc[v] = "none" => inbox[v] = <<>>)'
        BY <1>0, <1>1, <1>4, <1>5, <1>7 DEF Shape
    <2>2. ASSUME NEW v \in Pool
          PROVE  /\ (pc[v] \in {"locked", "release"} => design.by = "acceptor")'
                 /\ (pc[v] = "asleep" => design.by = "ring")'
                 /\ (pc[v] \in {"tell", "quits"} => design.by = "pipe")'
                 /\ (v > made => pc[v] \in {"none", "dead"})'
        BY <1>0, <1>1, <1>4 DEF Shape
    <2>3. \A y \in Actors : /\ pc'[y] \in Holding => hold'[y] # none
                            /\ hold'[y] # none => pc'[y] \in Holding \cup {"stop"}
        BY <1>0, <1>1, <1>4, <1>5 DEF Shape, Holding
    <2> QED BY <1>0, <1>1, <1>4, <1>5, <1>7, <2>1, <2>2, <2>3 DEF Shape
<1>11. TokenInv' /\ PipeInv'
    <2>1. Tokens(w)' = Tokens(w) - 1 /\ Tokens(w) \in Nat /\ Tokens(w)' \in Nat
        BY <1>0, <1>1, <1>7, <1>8 DEF Tokens, PipesOK
    <2>2. \A v \in Pool \ {w} : Tokens(v)' = Tokens(v)
        BY <1>1, <1>7, <1>8 DEF Tokens
    <2>3. TokenInv'
        BY <1>0, <1>1, <1>4, <1>8, <2>1, <2>2 DEF TokenInv
    <2>4. w \notin Free
        <3>1. Len(inbox[w]) > 0
            BY <1>0, <1>7 DEF PipesOK
        <3>2. Tokens(w) <= 1
            BY <1>0, <1>1, <1>8 DEF TokenInv
        <3> QED BY <1>0, <3>1, <3>2 DEF Tokens, PipesOK
    <2>5. Surplus' = Surplus
        BY <1>1, <1>8 DEF Surplus
    <2> QED BY <1>0, <1>1, <1>4, <1>8, <2>3, <2>4, <2>5 DEF PipeInv, NavailOK, Settled
<1>12. RingRight'
    BY <1>1, Frame
<1>13. /\ \A d : (InRing(d)' <=> InRing(d)) /\ (Queued(d)' <=> Queued(d))
       /\ Held(c)' /\ \A d \in Clients \ {c} : Held(d)' <=> Held(d)
    BY <1>1, <1>5, <1>8 DEF InRing, Queued, Held
<1>14. /\ Posted(c) /\ ~Posted(c)' /\ \A d \in Clients \ {c} : Posted(d)' <=> Posted(d)
    <2>1. Posted(c) /\ Occurs(inbox[w], c)
        BY <1>7 DEF Posted
    <2>2. ASSUME NEW v \in Pool PROVE ~Occurs(inbox'[v], c)
        BY <1>0, <1>7, <2>1 DEF PlaceInv
    <2>3. \A d \in Clients \ {c}, v \in Pool : Occurs(inbox'[v], d) <=> Occurs(inbox[v], d)
        BY <1>7
    <2> QED BY <2>1, <2>2, <2>3 DEF Posted
<1>15. PlaceInv'
    <2>1. \A u, v \in Actors : hold'[u] = hold'[v] /\ hold'[u] # none => u = v
        BY <1>0, <1>5, <1>14 DEF PlaceInv, Held
    <2>2. /\ \A v \in Pool : Distinct(inbox'[v])
          /\ \A u, v \in Pool, d \in Clients : Occurs(inbox'[u], d) /\ Occurs(inbox'[v], d) => u = v
        BY <1>0, <1>7 DEF PlaceInv
    <2>3. ASSUME NEW d \in Clients
          PROVE  /\ Held(d)' => ~Posted(d)' /\ ~InRing(d)' /\ ~Queued(d)'
                 /\ Posted(d)' => ~InRing(d)' /\ ~Queued(d)'
                 /\ InRing(d)' => ~Queued(d)'
                 /\ (out[d] = "none")' => ~Held(d)' /\ ~Posted(d)' /\ ~InRing(d)' /\ ~Queued(d)'
        BY <1>0, <1>1, <1>13, <1>14 DEF PlaceInv
    <2> QED BY <1>0, <1>1, <2>1, <2>2, <2>3 DEF PlaceInv
<1>16. OpenInv'
    BY <1>0, <1>5, <1>6, <1>8, <1>14 DEF OpenInv, PlaceInv, Held
<1>17. LostInv'
    BY <1>0, <1>1, <1>4, <1>5, <1>13, <1>14 DEF LostInv
<1> QED BY <1>9, <1>10, <1>11, <1>12, <1>15, <1>16, <1>17 DEF PoolInv

-----------------------------------------------------------------------------
(* serv08: a connection goes through the ring.                             *)

\* One more connection in the ring.
LEMMA RoundPut ==
    ASSUME NEW a \in Slots, NEW b \in Slots, NEW i \in Slots,
           NEW n, n = (b + 1) % MAXNCLI, n # a
    PROVE  /\ (n - a) % MAXNCLI = ((b - a) % MAXNCLI) + 1
           /\ i # b => ((i - a) % MAXNCLI < (b - a) % MAXNCLI
                           <=> (i - a) % MAXNCLI < ((b - a) % MAXNCLI) + 1)
           /\ (b - a) % MAXNCLI \in Nat
<1> USE Names
<1>1. n \in Slots /\ n = (IF b + 1 = MAXNCLI THEN 0 ELSE b + 1)
    BY Round
<1>2. (b - a) % MAXNCLI = IF b >= a THEN b - a ELSE b - a + MAXNCLI
    BY Round
<1>3. (i - a) % MAXNCLI = IF i >= a THEN i - a ELSE i - a + MAXNCLI
    BY Round
<1>4. (n - a) % MAXNCLI = IF n >= a THEN n - a ELSE n - a + MAXNCLI
    BY <1>1, Round
<1>5. (n - a) % MAXNCLI = ((b - a) % MAXNCLI) + 1
    BY <1>1, <1>2, <1>4 DEF Slots
<1>6. i # b => ((i - a) % MAXNCLI < (b - a) % MAXNCLI
                    <=> (i - a) % MAXNCLI < ((b - a) % MAXNCLI) + 1)
    BY <1>2, <1>3 DEF Slots
<1>7. (b - a) % MAXNCLI \in Nat
    BY <1>2 DEF Slots
<1> QED BY <1>5, <1>6, <1>7

\* One less.
LEMMA RoundGet ==
    ASSUME NEW a \in Slots, NEW b \in Slots, NEW i \in Slots, a # b,
           NEW n, n = (a + 1) % MAXNCLI
    PROVE  /\ (b - n) % MAXNCLI = ((b - a) % MAXNCLI) - 1
           /\ (b - a) % MAXNCLI \in Nat /\ 0 < (b - a) % MAXNCLI /\ (a - a) % MAXNCLI = 0
           /\ i # a => ((i - a) % MAXNCLI < (b - a) % MAXNCLI
                  <=> (i - n) % MAXNCLI < ((b - a) % MAXNCLI) - 1)
           /\ ~((a - n) % MAXNCLI < ((b - a) % MAXNCLI) - 1)
<1> USE Names
<1>1. n \in Slots /\ n = (IF a + 1 = MAXNCLI THEN 0 ELSE a + 1)
    BY Round
<1>2. (b - a) % MAXNCLI = IF b >= a THEN b - a ELSE b - a + MAXNCLI
    BY Round
<1>3. (i - a) % MAXNCLI = IF i >= a THEN i - a ELSE i - a + MAXNCLI
    BY Round
<1>4. (a - a) % MAXNCLI = IF a >= a THEN a - a ELSE a - a + MAXNCLI
    BY Round
<1>5. (b - n) % MAXNCLI = IF b >= n THEN b - n ELSE b - n + MAXNCLI
    BY <1>1, Round
<1>6. (i - n) % MAXNCLI = IF i >= n THEN i - n ELSE i - n + MAXNCLI
    BY <1>1, Round
<1>7. (a - n) % MAXNCLI = IF a >= n THEN a - n ELSE a - n + MAXNCLI
    BY <1>1, Round
<1>8. (b - n) % MAXNCLI = ((b - a) % MAXNCLI) - 1
    <2>1. CASE a + 1 = MAXNCLI
        BY <1>1, <1>2, <1>5, <2>1 DEF Slots
    <2>2. CASE a + 1 # MAXNCLI /\ b > a
        BY <1>1, <1>2, <1>5, <2>2 DEF Slots
    <2>3. CASE a + 1 # MAXNCLI /\ b < a
        BY <1>1, <1>2, <1>5, <2>3 DEF Slots
    <2> QED BY <2>1, <2>2, <2>3 DEF Slots
<1>9. (b - a) % MAXNCLI \in Nat /\ 0 < (b - a) % MAXNCLI /\ (a - a) % MAXNCLI = 0
    BY <1>2, <1>4 DEF Slots
<1>10. i # a => ((i - a) % MAXNCLI < (b - a) % MAXNCLI
                    <=> (i - n) % MAXNCLI < ((b - a) % MAXNCLI) - 1)
    <2>1. CASE a + 1 = MAXNCLI
        BY <1>1, <1>2, <1>3, <1>6, <2>1 DEF Slots
    <2>2. CASE a + 1 # MAXNCLI /\ i > a
        BY <1>1, <1>2, <1>3, <1>6, <2>2 DEF Slots
    <2>3. CASE a + 1 # MAXNCLI /\ i < a
        BY <1>1, <1>2, <1>3, <1>6, <2>3 DEF Slots
    <2>4. i \in Int /\ a \in Int
        BY DEF Slots
    <2> QED BY <2>1, <2>2, <2>3, <2>4
<1>11. ~((a - n) % MAXNCLI < ((b - a) % MAXNCLI) - 1)
    BY <1>1, <1>2, <1>7 DEF Slots
<1> QED BY <1>8, <1>9, <1>10, <1>11

\* The main thread puts a connection into the ring and wakes one that sleeps.
LEMMA PutStep == PoolInv /\ Put => PoolInv'
<1> SUFFICES ASSUME PoolInv, Put PROVE PoolInv'
    OBVIOUS
<1> USE Names
<1>0. /\ TypeOK /\ Shape /\ PlaceInv /\ OpenInv /\ LostInv
      /\ PcOK /\ ConnOK /\ RingOK
    BY Kept DEF PoolInv
<1>1. /\ pc[main] = "accepted" /\ design.by = "ring" /\ iput' # iget
      /\ iput' = (iput + 1) % MAXNCLI /\ Hand(main, none)
      /\ UNCHANGED <<design, backlog, out, lock, iget, pipes, made>>
    BY DEF Put
<1>2. PICK c \in Clients : /\ c = hold[main] /\ clifd' = [clifd EXCEPT ![iput] = c]
                           /\ open' = [open EXCEPT ![c] = {pipe}]
    <2>1. hold[main] \in Clients
        BY <1>0, <1>1 DEF Shape, Holding, ConnOK
    <2> QED BY <2>1 DEF Put
<1>3. PICK woken \in Actors :
         /\ \/ woken = main /\ \A w \in Pool : pc[w] # "asleep"
            \/ woken \in Pool /\ pc[woken] = "asleep"
         /\ pc' = [pc EXCEPT ![main] = "loop",
                             ![woken] = IF woken = main THEN "loop" ELSE "idle"]
    BY DEF Put
<1>4. /\ DOMAIN pc' = Actors /\ pc'[main] = "loop"
      /\ woken # main => pc'[woken] = "idle"
      /\ \A y \in Actors \ {main, woken} : pc'[y] = pc[y]
    BY <1>0, <1>3 DEF PcOK
<1>5. PcOK'
    BY <1>0, <1>3, <1>4 DEF PcOK
<1>6. /\ hold' \in [Actors -> Clients \cup {none}] /\ hold'[main] = none
      /\ \A y \in Actors \ {main} : hold'[y] = hold[y]
    BY <1>0, <1>1, HandFacts
<1>7. /\ open' \in [Clients -> SUBSET (Actors \cup {pipe})] /\ open'[c] = {pipe}
      /\ \A d \in Clients \ {c} : open'[d] = open[d]
    BY <1>0, <1>2, OpenFacts
<1>8. /\ iget \in Slots /\ iput \in Slots /\ iput' \in Slots
      /\ clifd' \in [Slots -> Clients \cup {none}] /\ clifd'[iput] = c
      /\ \A i \in Slots \ {iput} : clifd'[i] = clifd[i]
    BY <1>0, <1>1, <1>2, Round DEF RingOK
<1>9. TypeOK'
    BY <1>0, <1>1, <1>5, <1>6, <1>7, <1>8, Kept DEF TypeOK, ConnOK, RingOK
<1>10. Shape'
    BY <1>0, <1>1, <1>3, <1>4, <1>6 DEF Shape, Holding
<1>11. TokenInv' /\ PipeInv'
    BY <1>1, Frame
<1>12. /\ \A i \in Slots :
              clifd[i] # none <=> (i - iget) % MAXNCLI < (iput - iget) % MAXNCLI
       /\ (\E w \in Pool : pc[w] = "asleep") => (iput - iget) % MAXNCLI <= Cardinality(Idle)
    BY <1>1 DEF PoolInv, RingRight, Alive, Idle
<1>13. /\ (iput' - iget) % MAXNCLI = ((iput - iget) % MAXNCLI) + 1
       /\ (iput - iget) % MAXNCLI \in Nat
       /\ \A i \in Slots \ {iput} :
              (i - iget) % MAXNCLI < (iput - iget) % MAXNCLI
                  <=> (i - iget) % MAXNCLI < ((iput - iget) % MAXNCLI) + 1
    BY <1>1, <1>8, RoundPut
<1>14. RingRight'
    <2>1. ASSUME NEW i \in Slots
          PROVE  clifd'[i] # none <=> (i - iget) % MAXNCLI < (iput' - iget) % MAXNCLI
        <3>1. CASE i = iput
            BY <1>8, <1>13, <3>1
        <3>2. CASE i # iput
            BY <1>8, <1>12, <1>13, <3>2
        <3> QED BY <3>1, <3>2
    <2>2. ASSUME NEW w \in Pool, pc'[w] = "asleep"
          PROVE  (iput' - iget) % MAXNCLI <= Cardinality(Idle')
        <3>1. woken \in Pool /\ pc[woken] = "asleep"
            BY <1>3, <1>4, <2>2
        <3>2. Idle' = Idle \cup {woken} /\ woken \notin Idle
            BY <1>4, <3>1 DEF Idle
        <3>3. IsFiniteSet(Idle)
            BY FS_Subset DEF Idle
        <3>4. Cardinality(Idle') = Cardinality(Idle) + 1 /\ Cardinality(Idle) \in Nat
            BY <3>2, <3>3, FS_AddElement, FS_CardinalityType
        <3> QED BY <1>12, <1>13, <3>1, <3>4
    <2>3. Idle' = {w \in Pool : pc'[w] = "idle"}
        BY DEF Idle
    <2> QED BY <1>1, <2>1, <2>2, <2>3 DEF RingRight
<1>15. clifd[iput] = none
    BY <1>8, <1>12, <1>13
<1>16. /\ \A d : (Posted(d)' <=> Posted(d)) /\ (Queued(d)' <=> Queued(d))
       /\ Held(c) /\ ~Held(c)' /\ \A d \in Clients \ {c} : Held(d)' <=> Held(d)
    <2>1. ~Held(c)'
        BY <1>0, <1>2, <1>6 DEF Held, PlaceInv
    <2> QED BY <1>1, <1>2, <1>6, <2>1 DEF Posted, Queued, Held
<1>17. InRing(c)' /\ \A d \in Clients \ {c} : InRing(d)' <=> InRing(d)
    BY <1>8, <1>15 DEF InRing
<1>18. PlaceInv'
    <2>1. \A u, v \in Actors : hold'[u] = hold'[v] /\ hold'[u] # none => u = v
        BY <1>0, <1>6 DEF PlaceInv
    <2>2. \A i, j \in Slots : clifd'[i] = clifd'[j] /\ clifd'[i] # none => i = j
        BY <1>0, <1>8, <1>16 DEF PlaceInv, InRing
    <2>3. ASSUME NEW d \in Clients
          PROVE  /\ Held(d)' => ~Posted(d)' /\ ~InRing(d)' /\ ~Queued(d)'
                 /\ Posted(d)' => ~InRing(d)' /\ ~Queued(d)'
                 /\ InRing(d)' => ~Queued(d)'
                 /\ (out[d] = "none")' => ~Held(d)' /\ ~Posted(d)' /\ ~InRing(d)' /\ ~Queued(d)'
        BY <1>0, <1>1, <1>16, <1>17 DEF PlaceInv
    <2> QED BY <1>0, <1>1, <2>1, <2>2, <2>3 DEF PlaceInv
<1>19. OpenInv'
    BY <1>0, <1>2, <1>6, <1>7, <1>16 DEF OpenInv, Held
<1>20. LostInv'
    BY <1>0, <1>1, <1>2, <1>4, <1>6, <1>16, <1>17 DEF LostInv
<1> QED BY <1>9, <1>10, <1>11, <1>14, <1>18, <1>19, <1>20 DEF PoolInv

\* A thread takes the next one out.
LEMMA GetStep ==
    ASSUME NEW w \in Pool, PoolInv, Get(w)
    PROVE  PoolInv'
<1> USE Names
<1>0. /\ TypeOK /\ Shape /\ PlaceInv /\ OpenInv /\ LostInv
      /\ PcOK /\ ConnOK /\ RingOK
    BY Kept DEF PoolInv
<1>1. /\ pc[w] = "idle" /\ design.by = "ring" /\ iget # iput /\ Goto(w, "busy")
      /\ iget' = (iget + 1) % MAXNCLI /\ clifd' = [clifd EXCEPT ![iget] = none]
      /\ Hand(w, clifd[iget]) /\ open' = [open EXCEPT ![clifd[iget]] = {w}]
      /\ UNCHANGED <<design, backlog, out, lock, iput, pipes, made>>
    BY DEF Get
<1>2. PcOK' /\ pc'[w] = "busy" /\ \A y \in Actors \ {w} : pc'[y] = pc[y]
    BY <1>0, <1>1, GotoFacts
<1>3. /\ iget \in Slots /\ iput \in Slots /\ iget' \in Slots
      /\ clifd' \in [Slots -> Clients \cup {none}] /\ clifd'[iget] = none
      /\ \A i \in Slots \ {iget} : clifd'[i] = clifd[i]
    BY <1>0, <1>1, Round DEF RingOK
<1>4. /\ (iput - iget') % MAXNCLI = ((iput - iget) % MAXNCLI) - 1
      /\ (iput - iget) % MAXNCLI \in Nat /\ 0 < (iput - iget) % MAXNCLI
      /\ (iget - iget) % MAXNCLI = 0
      /\ \A i \in Slots \ {iget} :
             (i - iget) % MAXNCLI < (iput - iget) % MAXNCLI
                 <=> (i - iget') % MAXNCLI < ((iput - iget) % MAXNCLI) - 1
      /\ ~((iget - iget') % MAXNCLI < ((iput - iget) % MAXNCLI) - 1)
    <2>1. ASSUME NEW i \in Slots
          PROVE  /\ (iput - iget') % MAXNCLI = ((iput - iget) % MAXNCLI) - 1
                 /\ (iput - iget) % MAXNCLI \in Nat /\ 0 < (iput - iget) % MAXNCLI
                 /\ (iget - iget) % MAXNCLI = 0
                 /\ i # iget => ((i - iget) % MAXNCLI < (iput - iget) % MAXNCLI
                        <=> (i - iget') % MAXNCLI < ((iput - iget) % MAXNCLI) - 1)
                 /\ ~((iget - iget') % MAXNCLI < ((iput - iget) % MAXNCLI) - 1)
        <3>1. /\ iget \in Slots /\ iput \in Slots /\ iget # iput
              /\ iget' = (iget + 1) % MAXNCLI
            BY <1>1, <1>3
        <3> HIDE Names
        <3> QED BY <3>1, RoundGet, Zenon
    <2> QED BY <1>3, <2>1
<1>5. hold[w] = none /\ w <= made
    <2>1. hold[w] = none /\ ~(w > made)
        BY <1>0, <1>1 DEF Shape, Holding
    <2>2. made \in Nat
        BY <1>0, Kept
    <2> QED BY <2>1, <2>2
<1>6. Alive(main)
    BY <1>0, <1>1 DEF Shape, PcOK, Alive
<1> QED
    <2>1. /\ \A i \in Slots :
                 clifd[i] # none <=> (i - iget) % MAXNCLI < (iput - iget) % MAXNCLI
          /\ (\E v \in Pool : pc[v] = "asleep") =>
                 (iput - iget) % MAXNCLI <= Cardinality(Idle)
        BY <1>1, <1>6 DEF PoolInv, RingRight, Idle
    <2>2. PICK c \in Clients : c = clifd[iget]
        BY <1>0, <1>3, <1>4, <2>1 DEF RingOK
    <2>3. /\ hold' \in [Actors -> Clients \cup {none}] /\ hold'[w] = c
          /\ \A y \in Actors \ {w} : hold'[y] = hold[y]
        BY <1>0, <1>1, <2>2, HandFacts
    <2>4. /\ open' \in [Clients -> SUBSET (Actors \cup {pipe})] /\ open'[c] = {w}
          /\ \A d \in Clients \ {c} : open'[d] = open[d]
        <3>1. {w} \in SUBSET (Actors \cup {pipe})
            OBVIOUS
        <3> QED BY <1>0, <1>1, <2>2, <3>1, OpenFacts
    <2>5. TypeOK'
        BY <1>0, <1>1, <1>2, <1>3, <2>3, <2>4, Kept DEF TypeOK, ConnOK, RingOK
    <2>6. Shape'
        BY <1>0, <1>1, <1>2, <1>5, <2>3 DEF Shape, Holding
    <2>7. TokenInv' /\ PipeInv'
        BY <1>1, Frame
    <2>8. RingRight'
        <3>1. ASSUME NEW i \in Slots
              PROVE  clifd'[i] # none <=> (i - iget') % MAXNCLI < (iput - iget') % MAXNCLI
            <4>1. CASE i = iget
                BY <1>3, <1>4, <4>1
            <4>2. CASE i # iget
                BY <1>3, <1>4, <2>1, <4>2
            <4> QED BY <4>1, <4>2
        <3>2. ASSUME NEW v \in Pool, pc'[v] = "asleep"
              PROVE  (iput - iget') % MAXNCLI <= Cardinality(Idle')
            <4>1. pc[v] = "asleep"
                BY <1>2, <3>2
            <4>2. Idle' = Idle \ {w} /\ w \in Idle
                BY <1>1, <1>2 DEF Idle
            <4>3. IsFiniteSet(Idle)
                BY FS_Subset DEF Idle
            <4>4. Cardinality(Idle') = Cardinality(Idle) - 1 /\ Cardinality(Idle) \in Nat
                BY <4>2, <4>3, FS_RemoveElement, FS_CardinalityType
            <4> QED BY <1>4, <2>1, <4>1, <4>4
        <3>3. Idle' = {v \in Pool : pc'[v] = "idle"}
            BY DEF Idle
        <3> QED BY <1>1, <3>1, <3>2, <3>3 DEF RingRight
    <2>9. /\ \A d : (Posted(d)' <=> Posted(d)) /\ (Queued(d)' <=> Queued(d))
          /\ Held(c)' /\ \A d \in Clients \ {c} : Held(d)' <=> Held(d)
        BY <1>1, <1>5, <2>3 DEF Posted, Queued, Held
    <2>10. InRing(c) /\ ~InRing(c)' /\ \A d \in Clients \ {c} : InRing(d)' <=> InRing(d)
        <3>1. ~InRing(c)'
            BY <1>0, <1>3, <2>2 DEF InRing, PlaceInv
        <3> QED BY <1>3, <2>2, <3>1 DEF InRing
    <2>11. PlaceInv'
        <3>1. \A u, v \in Actors : hold'[u] = hold'[v] /\ hold'[u] # none => u = v
            BY <1>0, <2>3, <2>10 DEF PlaceInv, Held
        <3>2. \A i, j \in Slots : clifd'[i] = clifd'[j] /\ clifd'[i] # none => i = j
            BY <1>0, <1>3 DEF PlaceInv
        <3>3. ASSUME NEW d \in Clients
              PROVE  /\ Held(d)' => ~Posted(d)' /\ ~InRing(d)' /\ ~Queued(d)'
                     /\ Posted(d)' => ~InRing(d)' /\ ~Queued(d)'
                     /\ InRing(d)' => ~Queued(d)'
                     /\ (out[d] = "none")' =>
                            ~Held(d)' /\ ~Posted(d)' /\ ~InRing(d)' /\ ~Queued(d)'
            BY <1>0, <1>1, <2>9, <2>10 DEF PlaceInv
        <3> QED BY <1>0, <1>1, <3>1, <3>2, <3>3 DEF PlaceInv
    <2>12. OpenInv'
        BY <1>0, <1>5, <2>3, <2>4, <2>10 DEF OpenInv, PlaceInv, Held
    <2>13. LostInv'
        BY <1>0, <1>1, <1>2, <2>3, <2>9, <2>10 DEF LostInv
    <2> QED BY <2>5, <2>6, <2>7, <2>8, <2>11, <2>12, <2>13 DEF PoolInv

-----------------------------------------------------------------------------
(* The results.                                                            *)

\* No step of the server or of a client breaks the invariant.
LEMMA PoolStepKeeps == PoolInv /\ [Next]_vars => PoolInv'
<1> SUFFICES ASSUME PoolInv, [Next]_vars PROVE PoolInv'
    OBVIOUS
<1>1. CASE UNCHANGED vars
    <2>1. TypeOK'
        BY <1>1, Kept DEF PoolInv, TypeOK, vars
    <2>2. Onward
        BY <1>1 DEF vars, Onward
    <2> QED BY <1>1, <2>1, <2>2, Frame DEF PoolInv, vars
<1>2. CASE Main
    BY <1>2, MakeStep, MadeStep, MainAcceptsStep, NewWorkerStep, PutStep, SelectStep,
       AcceptSelectedStep, PassDescriptorStep, ReadByteStep, SelectedDoneStep, EndSteps
       DEF Main
<1>3. CASE Sigint
    BY <1>3, SigintStep
<1>4. ASSUME NEW w \in Pool, PoolStep(w) PROVE PoolInv'
    BY <1>4, LockSteps, ChildAcceptsStep, GetStep, ReadFdStep, TellParentStep, ComplainStep,
       EndSteps
       DEF PoolStep
<1>5. ASSUME NEW x \in Actors, Serve(x) PROVE PoolInv'
    BY <1>5, ClientSteps, EndSteps, CloseConnStep DEF Serve
<1>6. ASSUME NEW c \in Clients, Connect(c) \/ ClientCloses(c) PROVE PoolInv'
    BY <1>6, ConnectStep, ClientSteps
<1> QED BY <1>1, <1>2, <1>3, <1>4, <1>5, <1>6 DEF Next

\* The invariant holds in every reachable state of every design.
THEOREM PoolInvariance == Spec => []PoolInv
<1>1. Init => PoolInv
    BY PoolInit
<1>2. PoolInv /\ [Next]_vars => PoolInv'
    BY PoolStepKeeps
<1> QED BY <1>1, <1>2, PTL DEF Spec

\* The ring of serv08 (clifd[], iget, iput under clifd_mutex) gives up no
\* connection, and nobody sleeps while there are more of them than threads awake,
\* for any number of threads and of places in the ring.
THEOREM RingIsRight == Spec => []RingRight
<1>1. PoolInv => RingRight
    BY DEF PoolInv
<1> QED BY <1>1, PoolInvariance, PTL

\* The count of free children of serv05 is never too small, and too large by no more
\* than the bytes of the last messages of its children; without such a message it
\* is right, a child it takes for free is alive and has nothing to do, and "no
\* available children" does not happen.
THEOREM NavailIsBounded == Spec => []NavailBound
<1>1. PoolInv => NavailBound
    <2> SUFFICES ASSUME PoolInv, design.by = "pipe", pc[main] # "dead" PROVE NavailBound
        BY DEF NavailBound
    <2> USE Names
    <2>1. Shape /\ TokenInv /\ PipeInv /\ NavailOK /\ PcOK /\ PipesOK
        BY Kept DEF PoolInv, PipeInv
    <2>2. /\ Surplus \in SUBSET (Spoilt \X (1 .. MsgLen - 1))
          /\ Surplus \in SUBSET (Pool \X (1 .. MsgLen - 1)) /\ Spoilt \in SUBSET Pool
        BY DEF Surplus, Spoilt
    <2>3. /\ Cardinality(Free) \in Nat /\ Cardinality(Surplus) \in Nat
          /\ Cardinality(Spoilt) \in Nat /\ IsFiniteSet(Spoilt) /\ navail \in Nat
        BY <2>1, <2>2, Counted DEF Free, PipesOK
    <2>4. Cardinality(Surplus) <= (MsgLen - 1) * Cardinality(Spoilt)
        <3>1. IsFiniteSet(1 .. MsgLen - 1) /\ Cardinality(1 .. MsgLen - 1) = MsgLen - 1
            BY FS_Interval
        <3>2. /\ IsFiniteSet(Spoilt \X (1 .. MsgLen - 1))
              /\ Cardinality(Spoilt \X (1 .. MsgLen - 1)) = Cardinality(Spoilt) * (MsgLen - 1)
            BY <2>3, <3>1, FS_Product
        <3>3. Cardinality(Surplus) <= Cardinality(Spoilt \X (1 .. MsgLen - 1))
            BY <2>2, <3>2, FS_Subset
        <3> QED BY <2>3, <3>2, <3>3
    <2>5. pc[main] = "pass" /\ Free = {} => Spoilt # {}
        <3> SUFFICES ASSUME pc[main] = "pass", Free = {}, Spoilt = {} PROVE FALSE
            OBVIOUS
        <3>1. Surplus = {}
            BY <2>2
        <3>2. Cardinality(Free) = 0 /\ Cardinality(Surplus) = 0
            BY <3>1, FS_EmptySet
        <3>3. navail > 0
            BY <2>1 DEF PipeInv
        <3> QED BY <2>1, <2>3, <3>2, <3>3 DEF NavailOK
    <2>6. ASSUME NEW w \in Free \ Spoilt
          PROVE  /\ hold[w] = none /\ inbox[w] = <<>> /\ ready[w] = 0
                 /\ pc[main] \notin {"start", "stop"} => pc[w] = "idle"
        <3>1. w \in Pool /\ pc[w] \notin {"quits", "dead"}
            BY DEF Free, Spoilt
        <3>2. Len(inbox[w]) + ready[w] + 1 <= 1 /\ pc[w] \notin {"busy", "tell"}
            BY <2>1, <2>6, <3>1 DEF TokenInv, Tokens, PipesOK
        <3>3. Len(inbox[w]) = 0 /\ ready[w] = 0 /\ inbox[w] \in Seq(Clients)
            BY <2>1, <3>1, <3>2 DEF PipesOK
        <3>4. hold[w] = none
            BY <2>1, <3>1, <3>2 DEF Shape, Holding, PcOK
        <3>5. pc[main] \notin {"start", "stop"} => pc[w] = "idle"
            BY <2>1, <3>1, <3>2 DEF Shape, PipeInv, Settled, PcOK
        <3> QED BY <3>3, <3>4, <3>5
    <2> QED BY <2>1, <2>3, <2>4, <2>5, <2>6 DEF NavailBound, NavailOK
<1> QED BY <1>1, PoolInvariance, PTL

\* Every design gives an accepted connection to one process or thread and no more,
\* keeps a descriptor of it in whoever has it and nowhere else, and loses no good
\* client while the server runs, but for those that serv05 passes to a child that
\* is about to exit, of which there are no more than bytes in its last message.
THEOREM EachServedOnce == Spec => []ServedOnce
<1>1. ASSUME PoolInv, NEW c \in Clients
      PROVE  /\ Cardinality(Places(c)) + (IF InRing(c) THEN 1 ELSE 0) <= 1
             /\ open[c] \subseteq Places(c) \cup {pipe}
             /\ (out[c] = "waiting" /\ c \notin Bad /\ pc[main] \notin {"stop", "dead"})
                   => \/ \E i \in DOMAIN backlog : backlog[i] = c
                      \/ Places(c) # {} \/ InRing(c)
                      \/ \E w \in Spoilt : ~Alive(w) /\ c \in Sent(w)
             /\ out[c] = "answered" /\ pc[main] \notin {"stop", "dead"} => open[c] # {}
    <2> USE Names
    <2>0. Shape /\ PlaceInv /\ OpenInv /\ LostInv /\ ConnOK
        BY <1>1, Kept DEF PoolInv
    <2>1. \A w \in Pool : c \in Sent(w) <=> Occurs(inbox[w], c)
        BY DEF Sent, Occurs
    <2>2. \A p : p \in Places(c) <=> \/ p \in Actors /\ hold[p] = c
                                     \/ p \in Pool /\ Alive(p) /\ Occurs(inbox[p], c)
        BY <2>1 DEF Places
    <2>3. \A p, q \in Places(c) : p = q
        BY <2>0, <2>2 DEF PlaceInv, Held, Posted
    <2>4. InRing(c) => Places(c) = {}
        BY <2>0, <2>2 DEF PlaceInv, Held, Posted
    <2>5. Cardinality(Places(c)) <= 1 /\ (Places(c) = {} => Cardinality(Places(c)) = 0)
        <3>1. CASE Places(c) = {}
            BY <3>1, FS_EmptySet
        <3>2. CASE Places(c) # {}
            <4>1. PICK p : Places(c) = {p}
                BY <2>3, <3>2
            <4>2. Cardinality({p}) = 1
                BY FS_Singleton, Zenon
            <4> QED BY <3>2, <4>1, <4>2
        <3> QED BY <3>1, <3>2
    <2>6. Cardinality(Places(c)) + (IF InRing(c) THEN 1 ELSE 0) <= 1
        <3>1. Cardinality(Places(c)) \in Nat
            <4>1. IsFiniteSet(Actors)
                BY ServerPoolAssumption, FS_Union, FS_Singleton DEF Actors, Workers
            <4>2. Places(c) \subseteq Actors
                BY <2>2
            <4> QED BY <4>1, <4>2, FS_Subset, FS_CardinalityType
        <3> QED BY <2>4, <2>5, <3>1
    <2>7. open[c] \subseteq Places(c) \cup {pipe}
        BY <2>0, <2>2 DEF OpenInv, ConnOK
    <2>8. ASSUME out[c] = "waiting", c \notin Bad, pc[main] \notin {"stop", "dead"}
          PROVE  \/ \E i \in DOMAIN backlog : backlog[i] = c
                 \/ Places(c) # {} \/ InRing(c)
                 \/ \E w \in Spoilt : ~Alive(w) /\ c \in Sent(w)
        <3>1. Queued(c) => \E i \in DOMAIN backlog : backlog[i] = c
            BY DEF Queued, Occurs
        <3>2. Held(c) => Places(c) # {}
            BY <2>2 DEF Held
        <3>3. ASSUME NEW w \in Pool, Occurs(inbox[w], c)
              PROVE  Places(c) # {} \/ (w \in Spoilt /\ ~Alive(w) /\ c \in Sent(w))
            <4>1. inbox[w] # <<>>
                BY <3>3 DEF Occurs
            <4>2. ~Alive(w) => w \in Spoilt
                BY <2>0, <4>1 DEF Shape, Alive, Spoilt
            <4> QED BY <2>1, <2>2, <3>3, <4>2
        <3> QED BY <2>0, <2>8, <3>1, <3>2, <3>3 DEF LostInv, Posted
    <2>9. out[c] = "answered" /\ pc[main] \notin {"stop", "dead"} => open[c] # {}
        BY <2>0 DEF LostInv, Held, OpenInv
    <2> QED BY <2>6, <2>7, <2>8, <2>9
<1>2. ASSUME PoolInv, NEW w \in Pool
      PROVE  Len(inbox[w]) + ready[w] <= IF w \in Spoilt THEN MsgLen ELSE 1
    <2>1. Shape /\ TokenInv /\ PipesOK
        BY <1>2, Kept DEF PoolInv
    <2>2. CASE design.by = "pipe"
        <3>1. Tokens(w) <= IF w \in Spoilt THEN MsgLen ELSE 1
            BY <2>1, <2>2 DEF TokenInv
        <3>2. Len(inbox[w]) + ready[w] <= Tokens(w) /\ Tokens(w) \in Nat
            BY <2>1 DEF Tokens, PipesOK
        <3>3. Len(inbox[w]) + ready[w] \in Nat
            BY <2>1 DEF PipesOK
        <3> QED BY <3>1, <3>2, <3>3, Names
    <2>3. CASE design.by # "pipe"
        <3>1. Len(inbox[w]) = 0 /\ ready[w] = 0
            BY <2>1, <2>3 DEF Shape
        <3> QED BY <3>1, Names
    <2> QED BY <2>2, <2>3
<1>3. PoolInv => ServedOnce
    BY <1>1, <1>2 DEF ServedOnce
<1> QED BY <1>3, PoolInvariance, PTL
=============================================================================
