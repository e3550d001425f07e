----------------------------- MODULE NsimProofs -----------------------------
(***************************************************************************)
(* What the simulator and its clients guarantee for any number of sessions *)
(* and any queues of answers.                                              *)
(***************************************************************************)
EXTENDS Nsim, FiniteSetTheorems, SequenceTheorems, TLAPS

Commands == [cmd : {"LOGIN", "CREATE", "APPEND", "LOGOUT"},
             literal : {<<>>, <<"text">>, <<"text", "CR", "LF">>}]

Tokens == {"LOGIN", "CREATE", "APPEND", "LOGOUT", "text", "CR", "LF"}

ClientTypes ==
    /\ cpc \in [Clients -> Over \cup {"off", "welcome", "send", "ready", "literal", "crlf",
                                      "answer"}]
    /\ todo \in [Clients -> Seq(Commands)]
    /\ \A c \in Clients : cpc[c] \in {"ready", "literal", "crlf", "answer"} => todo[c] # <<>>
    /\ c2s \in [Clients -> Seq(Tokens)] /\ s2c \in [Clients -> Seq(Nat \X {"tag", "rest"})]
    /\ ceof \in [Clients -> BOOLEAN] /\ seof \in [Clients -> BOOLEAN]
    /\ \A c \in Clients : ceof[c] <=> cpc[c] \in Over
    /\ turn \in [Clients -> Nat]
    /\ odd \in [Clients -> BOOLEAN] /\ stray \in [Clients -> BOOLEAN]

Thread == [pc : ThreadLabels, fd : Fds \cup {0}, on : Clients \cup {none}, got : Seq(Tokens),
           cmd : DOMAIN Queue \cup {none}, idx : Nat, cur : Nat]

SimTypes ==
    /\ up \in BOOLEAN /\ slot \in Fds \cup {0} /\ backlog \in Seq(Clients)
    /\ tab \in [Fds -> Clients \cup {none}] /\ th \in [Clients -> Thread]
    /\ index \in [DOMAIN Queue -> Nat] /\ sent \in [Clients -> Nat]
    /\ clash \in BOOLEAN /\ cut \in [Clients -> BOOLEAN]
    /\ \A t \in Clients : /\ th[t].pc # "none" => up /\ slot \in Fds
                          /\ th[t].pc \in Serving => th[t].fd \in Fds
                          /\ th[t].pc = "created" => th[t].on = none
                          /\ th[t].pc = "receive" => th[t].on \in Clients
                          /\ th[t].pc \in {"compare", "increment", "respond"} =>
                                 th[t].cmd \in DOMAIN Queue

\* A connection waits to be accepted, or has one descriptor and one thread, or none.
PlaceInv ==
    /\ \A i, j \in DOMAIN backlog : backlog[i] = backlog[j] => i = j
    /\ \A i \in DOMAIN backlog : /\ cpc[backlog[i]] # "off" /\ th[backlog[i]].pc = "none"
                                 /\ \A f \in Fds : tab[f] # backlog[i]
    /\ \A f, g \in Fds : tab[f] # none /\ tab[f] = tab[g] => f = g
    /\ \A c \in Clients : cpc[c] = "off" => th[c].pc = "none" /\ \A f \in Fds : tab[f] # c
    /\ ~ up => backlog = <<>>

\* Threads that found room for the index, and have yet to move it.
Behind(k) == {t \in Clients : /\ th[t].pc = "increment" /\ th[t].cmd = k
                              /\ th[t].cur < Len(Queue[k]) - 1}
IndexInv == \A k \in DOMAIN Queue :
                index[k] + Cardinality(Behind(k)) <= Len(Queue[k]) + Cardinality(Clients) - 2

\* While no thread has found another's connection.
OwnInv ==
    ~ clash =>
        /\ \A t \in Clients : th[t].pc \in Serving => tab[th[t].fd] = t /\ th[t].on \in {none, t}
        /\ \A t \in Clients : th[t].pc = "created" => \E f \in Fds : tab[f] = t
        /\ \A f \in Fds : tab[f] # none => th[tab[f]].pc \in Serving \cup {"created"}
        /\ \A c \in Clients : seof[c] => /\ cpc[c] # "off" /\ th[c].pc \in {"none", "end"}
                                         /\ \A i \in DOMAIN backlog : backlog[i] # c

\* A connection on which answers may still be sent.
Live(c) == \/ th[c].pc \notin {"none", "close", "end"}
           \/ \E i \in DOMAIN backlog : backlog[i] = c

Waiting == {"welcome", "ready", "answer"}
Answering == {"parse", "compare", "increment", "respond"}

\* Client and thread in step: an answer on its way is the one the client waits for,
\* and nothing else is then under way; no answer is due to a client that waits
\* for none.
InStep(c) ==
    /\ cpc[c] \notin Waiting => s2c[c] = <<>>
    /\ s2c[c] # <<>> => /\ s2c[c] = AnswerNo(turn[c]) /\ sent[c] = turn[c] + 1
                        /\ c2s[c] = <<>> \/ ~ Live(c)
                        /\ th[c].pc \in {"recv", "receive", "close", "end", "none"}
    /\ cpc[c] = "off" => c2s[c] = <<>> /\ turn[c] = 0 /\ sent[c] = 0
    /\ Live(c) =>
         /\ cpc[c] \in Waiting /\ s2c[c] = <<>> => sent[c] = turn[c]
         /\ cpc[c] \in {"send", "literal", "crlf"} =>
                sent[c] = turn[c] + 1 /\ th[c].pc \in {"recv", "receive"}
         /\ cpc[c] \in {"welcome", "send"} => c2s[c] = <<>>
         /\ cpc[c] = "welcome" /\ s2c[c] = <<>> => th[c].pc \in {"none", "created", "greet"}
         /\ th[c].pc \in {"none", "created", "greet"} => cpc[c] = "welcome" /\ s2c[c] = <<>>
         /\ th[c].pc \in Answering => /\ cpc[c] \in {"ready", "answer"} \cup Over /\ s2c[c] = <<>>
                                      /\ cpc[c] \notin Over => c2s[c] = <<>>

LockInv == \A c \in Clients : /\ ~ clash /\ ~ odd[c] => InStep(c)
                              /\ stray[c] => clash

SimInv == ClientTypes /\ SimTypes /\ PlaceInv /\ IndexInv /\ OwnInv /\ LockInv

-----------------------------------------------------------------------------
\* There are as many descriptors as clients, numbered from 1.
LEMMA FdsFacts == /\ Cardinality(Clients) \in Nat \ {0}
                  /\ \A f : f \in Fds <=> f \in Nat /\ 1 <= f /\ f <= Cardinality(Clients)
                  /\ IsFiniteSet(Fds) /\ Cardinality(Fds) = Cardinality(Clients)
  <1>1. Cardinality(Clients) \in Nat \ {0}
    BY NsimAssumption, FS_CardinalityType, FS_EmptySet
  <1>2. IsFiniteSet(Fds) /\ Cardinality(Fds) = Cardinality(Clients)
    BY <1>1, FS_Interval DEF Fds
  <1>. QED  BY <1>1, <1>2 DEF Fds

\* The least of some descriptors is one of them.
LEMMA MinFacts ==
    ASSUME NEW S, S \subseteq Fds, S # {}
    PROVE  Min(S) \in S
  <1>1. \E x \in S : \A y \in S : x <= y
    <2>1. S \subseteq Nat
      BY FdsFacts
    <2>2. PICK x \in S : \A y \in S : ~ (<<y, x>> \in OpToRel(<, Nat))
      BY <2>1, NatLessThanWellFounded, WFMin
    <2>3. \A y \in S : ~ (y < x)
      BY <2>1, <2>2 DEF OpToRel
    <2>. QED  BY <2>1, <2>3
  <1>. QED  BY <1>1 DEF Min

\* An answer is two tokens; less of it than both ends with its tag.
LEMMA AnswerFacts ==
    ASSUME NEW k \in Nat
    PROVE  /\ AnswerNo(k) \in Seq(Nat \X {"tag", "rest"}) /\ Len(AnswerNo(k)) = 2 /\ AnswerNo(k) # <<>>
           /\ Last(SubSeq(AnswerNo(k), 1, 1))[2] = "tag"
           /\ SubSeq(AnswerNo(k), 1, 2) = AnswerNo(k)
           /\ SubSeq(AnswerNo(k), 3, 2) = <<>>
           /\ <<>> \o AnswerNo(k) = AnswerNo(k)
  <1>a. PICK a : a = <<k, "tag">>
    OBVIOUS
  <1>b. PICK b : b = <<k, "rest">>
    OBVIOUS
  <1>1. AnswerNo(k) = <<a, b>>
    BY <1>a, <1>b, Zenon DEF AnswerNo
  <1>c. a \in Nat \X {"tag", "rest"} /\ b \in Nat \X {"tag", "rest"}
    BY <1>a, <1>b
  <1>d. a[2] = "tag"
    BY <1>a
  <1>2. PICK s : s = AnswerNo(k)
    OBVIOUS
  <1>3. s \in Seq(Nat \X {"tag", "rest"}) /\ Len(s) = 2 /\ s[1] = a /\ s[2] = b
    BY <1>1, <1>2, <1>c
  <1>4. s # <<>>
    BY <1>3
  <1>5. Last(SubSeq(s, 1, 1)) = a
    BY <1>3, SubSeqProperties DEF Last
  <1>6. SubSeq(s, 1, 2) = s
    BY <1>3
  <1>7. SubSeq(s, 3, 2) = <<>>
    BY <1>3, SubSeqEmpty
  <1>8. <<>> \o s = s
    BY <1>3, ConcatEmptySeq
  <1>. QED  BY <1>2, <1>3, <1>4, <1>5, <1>6, <1>7, <1>8, <1>d

-----------------------------------------------------------------------------
\* The steps of clients.

\* Who has yet to move an index depends on the steps of the threads only.
LEMMA SameBehind ==
    ASSUME \A t \in Clients : th'[t].pc = th[t].pc /\ th'[t].cmd = th[t].cmd /\ th'[t].cur = th[t].cur
    PROVE  \A k : Behind(k)' = Behind(k)
  BY DEF Behind

\* A client's step disturbs nothing but the pace of that client.
LEMMA ClientFrame ==
    ASSUME SimInv, UNCHANGED simVars, ClientTypes', UNCHANGED seof, NEW c \in Clients,
           cpc[c] # "off", cpc'[c] # "off",
           \A d \in Clients \ {c} : /\ cpc'[d] = cpc[d] /\ turn'[d] = turn[d] /\ s2c'[d] = s2c[d]
                                    /\ c2s'[d] = c2s[d] /\ odd'[d] = odd[d] /\ stray'[d] = stray[d],
           ~ clash /\ ~ odd'[c] => InStep(c)',
           stray'[c] => clash
    PROVE  SimInv'
  <1>. USE DEF simVars
  <1>1. SimTypes'
    BY DEF SimInv, SimTypes
  <1>2. PlaceInv'
    <2>1. \A i \in DOMAIN backlog : backlog[i] \in Clients
      BY DEF SimInv, SimTypes
    <2>. QED  BY <2>1 DEF SimInv, PlaceInv
  <1>3. IndexInv'
    BY SameBehind DEF SimInv, IndexInv
  <1>4. OwnInv'
    BY DEF SimInv, OwnInv
  <1>5. LockInv'
    <2>1. ASSUME NEW d \in Clients, d # c
          PROVE  InStep(d) => InStep(d)'
      BY <2>1 DEF InStep, Live
    <2>. QED  BY <2>1 DEF SimInv, LockInv
  <1>. QED  BY <1>1, <1>2, <1>3, <1>4, <1>5 DEF SimInv

\* A session that ends.
LEMMA LeaveKeeps ==
    ASSUME SimInv, NEW c \in Clients, cpc[c] # "off", NEW label \in Over, Leave(c, label),
           UNCHANGED simVars, UNCHANGED <<todo, c2s, seof, turn, odd, stray>>,
           cpc[c] # "welcome" \/ seof[c]
    PROVE  SimInv'
  <1>. USE DEF Over
  <1>1. /\ cpc'[c] = label /\ s2c'[c] = <<>>
        /\ \A d \in Clients \ {c} : cpc'[d] = cpc[d] /\ s2c'[d] = s2c[d]
    BY DEF Leave, ClientGoto, SimInv, ClientTypes
  <1>2. ClientTypes'
    <2>1. /\ cpc' \in [Clients -> Over \cup {"off", "welcome", "send", "ready", "literal", "crlf",
                                             "answer"}]
          /\ ceof' \in [Clients -> BOOLEAN]
      BY DEF Leave, ClientGoto, SimInv, ClientTypes
    <2>2. s2c' \in [Clients -> Seq(Nat \X {"tag", "rest"})]
      BY DEF Leave, SimInv, ClientTypes
    <2>3. \A d \in Clients : ceof'[d] <=> cpc'[d] \in Over
      BY DEF Leave, ClientGoto, SimInv, ClientTypes
    <2>. QED  BY <1>1, <2>1, <2>2, <2>3 DEF SimInv, ClientTypes
  <1>3. ~ clash /\ ~ odd'[c] => InStep(c)'
    <2>. SUFFICES ASSUME ~ clash, ~ odd[c] PROVE InStep(c)'
      OBVIOUS
    <2>1. InStep(c)
      BY DEF SimInv, LockInv
    <2>2. Live(c)' <=> Live(c)
      BY DEF Live, simVars
    <2>3. seof[c] => ~ Live(c)
      BY DEF SimInv, OwnInv, Live
    <2>4. UNCHANGED <<th, sent>>
      BY DEF simVars
    <2>. QED  BY <1>1, <2>1, <2>2, <2>3, <2>4 DEF InStep, Waiting
  <1>. QED  BY <1>1, <1>2, <1>3, ClientFrame DEF SimInv, LockInv

\* What is written is tokens.
LEMMA Lines ==
    ASSUME NEW s \in Seq(Commands), s # <<>>
    PROVE  /\ Head(s) \in Commands /\ Tail(s) \in Seq(Commands)
           /\ <<Head(s).cmd>> \o CRLF \in Seq(Tokens)
           /\ Head(s).literal \in Seq(Tokens)
           /\ CRLF \in Seq(Tokens)
  <1>1. Head(s) \in Commands /\ Tail(s) \in Seq(Commands)
    OBVIOUS
  <1>2. CRLF \in Seq(Tokens)
    BY DEF CRLF, Tokens
  <1>3. PICK x : x = Head(s).cmd
    OBVIOUS
  <1>4. x \in Tokens
    BY <1>1, <1>3 DEF Commands, Tokens
  <1>5. <<x>> \in Seq(Tokens)
    BY <1>4
  <1>6. <<x>> \o CRLF \in Seq(Tokens)
    BY <1>2, <1>5, ConcatProperties
  <1>7. <<>> \in Seq(Tokens) /\ <<"text">> \in Seq(Tokens) /\ <<"text", "CR", "LF">> \in Seq(Tokens)
    BY DEF Tokens
  <1>8. Head(s).literal \in {<<>>, <<"text">>, <<"text", "CR", "LF">>}
    BY <1>1 DEF Commands
  <1>. QED  BY <1>1, <1>2, <1>3, <1>6, <1>7, <1>8

\* write() of a line, a literal or the line end behind it.
LEMMA WriteKeeps ==
    ASSUME SimInv, NEW c \in Clients, NEW tokens \in Seq(Tokens), NEW next,
           \/ cpc[c] = "send" /\ todo[c] # <<>> /\ next \in {"ready", "answer"}
           \/ cpc[c] = "literal" /\ next = "crlf"
           \/ cpc[c] = "crlf" /\ next = "answer",
           WriteOrBreak(c, tokens, next), UNCHANGED simVars
    PROVE  SimInv'
  <1>1. CASE seof[c] /\ Leave(c, "broken") /\ UNCHANGED <<c2s, turn>>
    BY <1>1, LeaveKeeps DEF WriteOrBreak, Over
  <1>2. CASE /\ c2s' = IF seof[c] THEN c2s ELSE [c2s EXCEPT ![c] = @ \o tokens]
             /\ turn' = [turn EXCEPT ![c] = IF next = "crlf" THEN @ ELSE @ + 1]
             /\ ClientGoto(c, next) /\ UNCHANGED <<s2c, ceof>>
    <2>1. /\ cpc'[c] = next /\ turn'[c] = IF next = "crlf" THEN turn[c] ELSE turn[c] + 1
          /\ \A d \in Clients \ {c} : cpc'[d] = cpc[d] /\ turn'[d] = turn[d] /\ c2s'[d] = c2s[d]
          /\ UNCHANGED <<todo, seof, odd, stray, s2c, ceof>>
      BY <1>2 DEF WriteOrBreak, ClientGoto, SimInv, ClientTypes
    <2>2. ClientTypes'
      <3>1. cpc' \in [Clients -> Over \cup {"off", "welcome", "send", "ready", "literal", "crlf",
                                            "answer"}]
        BY <1>2 DEF ClientGoto, SimInv, ClientTypes
      <3>2. turn' \in [Clients -> Nat]
        BY <1>2 DEF SimInv, ClientTypes
      <3>3. c2s' \in [Clients -> Seq(Tokens)]
        <4>1. c2s[c] \o tokens \in Seq(Tokens)
          BY ConcatProperties DEF SimInv, ClientTypes
        <4>. QED  BY <1>2, <4>1 DEF SimInv, ClientTypes
      <3>4. \A d \in Clients : cpc'[d] \in {"ready", "literal", "crlf", "answer"} => todo[d] # <<>>
        BY <2>1 DEF SimInv, ClientTypes
      <3>5. \A d \in Clients : ceof[d] <=> cpc'[d] \in Over
        BY <2>1 DEF SimInv, ClientTypes, Over
      <3>. QED  BY <2>1, <3>1, <3>2, <3>3, <3>4, <3>5 DEF SimInv, ClientTypes
    <2>3. ~ clash /\ ~ odd'[c] => InStep(c)'
      <3>. SUFFICES ASSUME ~ clash, ~ odd[c] PROVE InStep(c)'
        BY <2>1
      <3>1. InStep(c)
        BY DEF SimInv, LockInv
      <3>2. Live(c)' <=> Live(c)
        BY DEF Live, simVars
      <3>3. UNCHANGED <<th, sent>>
        BY DEF simVars
      <3>4. turn[c] \in Nat
        BY DEF SimInv, ClientTypes
      <3>. QED  BY <2>1, <3>1, <3>2, <3>3, <3>4 DEF InStep, Waiting, Answering, Over
    <2>. QED  BY <2>1, <2>2, <2>3, ClientFrame DEF SimInv, LockInv
  <1>. QED  BY <1>1, <1>2 DEF WriteOrBreak

\* read() takes some of what has come; where client and thread are in step and the
\* whole answer is read, it is the one that is due.
LEMMA TakeFacts ==
    ASSUME SimInv, NEW c \in Clients, NEW n \in 1 .. Len(s2c[c]), Take(c, n)
    PROVE  /\ s2c' \in [Clients -> Seq(Nat \X {"tag", "rest"})]
           /\ odd' \in [Clients -> BOOLEAN] /\ stray' \in [Clients -> BOOLEAN]
           /\ \A d \in Clients \ {c} : /\ s2c'[d] = s2c[d] /\ odd'[d] = odd[d]
                                       /\ stray'[d] = stray[d]
           /\ ~ clash /\ ~ odd'[c] => /\ ~ odd[c] /\ s2c[c] # <<>> /\ s2c'[c] = <<>>
           /\ stray'[c] => clash
  <1>. DEFINE got == SubSeq(s2c[c], 1, n)
  <1>1. /\ s2c' = [s2c EXCEPT ![c] = SubSeq(s2c[c], n + 1, Len(s2c[c]))]
        /\ odd' = [odd EXCEPT ![c] = odd[c] \/ Last(got)[2] = "tag"]
        /\ stray' = [stray EXCEPT ![c] = stray[c] \/ (~ odd'[c] /\ got # AnswerNo(turn[c]))]
    BY DEF Take, SimInv, ClientTypes
  <1>2. /\ s2c[c] \in Seq(Nat \X {"tag", "rest"}) /\ turn[c] \in Nat
        /\ odd \in [Clients -> BOOLEAN] /\ stray \in [Clients -> BOOLEAN]
    BY DEF SimInv, ClientTypes
  <1>3. SubSeq(s2c[c], n + 1, Len(s2c[c])) \in Seq(Nat \X {"tag", "rest"})
    BY <1>2
  <1>4. s2c' \in [Clients -> Seq(Nat \X {"tag", "rest"})]
    BY <1>1, <1>3 DEF SimInv, ClientTypes
  <1>. HIDE DEF got
  <1>5. /\ odd' \in [Clients -> BOOLEAN] /\ odd'[c] = (odd[c] \/ Last(got)[2] = "tag")
        /\ \A d \in Clients \ {c} : s2c'[d] = s2c[d] /\ odd'[d] = odd[d]
    BY <1>1, <1>2 DEF SimInv, ClientTypes
  <1>6. /\ stray' \in [Clients -> BOOLEAN]
        /\ stray'[c] = (stray[c] \/ (~ odd'[c] /\ got # AnswerNo(turn[c])))
        /\ \A d \in Clients \ {c} : stray'[d] = stray[d]
    BY <1>1, <1>2
  <1>7. ASSUME ~ clash, ~ odd'[c]
        PROVE  ~ odd[c] /\ s2c[c] # <<>> /\ s2c'[c] = <<>> /\ got = AnswerNo(turn[c])
    <2>1. ~ odd[c] /\ Last(got)[2] # "tag"
      BY <1>5, <1>7
    <2>2. InStep(c)
      BY <1>7, <2>1 DEF SimInv, LockInv
    <2>3. s2c[c] # <<>>
      BY <1>2
    <2>4. s2c[c] = AnswerNo(turn[c])
      BY <2>2, <2>3 DEF InStep
    <2>5. Len(s2c[c]) = 2
      BY <1>2, <2>4, AnswerFacts
    <2>6. n = 2
      <3>1. n \in {1, 2}
        BY <2>5
      <3>2. n # 1
        BY <1>2, <2>1, <2>4, AnswerFacts DEF got
      <3>. QED  BY <3>1, <3>2
    <2>7. got = AnswerNo(turn[c])
      BY <1>2, <2>4, <2>6, AnswerFacts DEF got
    <2>8. s2c'[c] = SubSeq(AnswerNo(turn[c]), 3, 2)
      BY <1>1, <2>4, <2>5, <2>6 DEF SimInv, ClientTypes
    <2>. QED  BY <1>2, <2>1, <2>3, <2>7, <2>8, AnswerFacts
  <1>8. stray'[c] => clash
    BY <1>6, <1>7 DEF SimInv, LockInv
  <1>. QED  BY <1>4, <1>5, <1>6, <1>7, <1>8

\* read(), in a client that waits for an answer.
LEMMA ReadKeeps ==
    ASSUME SimInv, NEW c \in Clients, NEW next \in {"send", "literal"}, NEW left \in Seq(Commands),
           next = "literal" => left # <<>>, cpc[c] \in Waiting,
           ReadOrBreak(c, next, left), UNCHANGED simVars
    PROVE  SimInv'
  <1>1. CASE seof[c] /\ Leave(c, "broken") /\ UNCHANGED <<todo, c2s, seof, turn, odd, stray>>
    BY <1>1, LeaveKeeps DEF Waiting, Over
  <1>2. CASE /\ \/ \E n \in 1 .. Len(s2c[c]) : Take(c, n)
                \/ s2c[c] = <<>> /\ seof[c] /\ UNCHANGED <<c2s, s2c, ceof, seof, odd, stray>>
             /\ UNCHANGED turn
             /\ ClientGoto(c, next) /\ todo' = [todo EXCEPT ![c] = left]
    <2>1. /\ cpc'[c] = next /\ todo'[c] = left
          /\ \A d \in Clients \ {c} : cpc'[d] = cpc[d] /\ todo'[d] = todo[d]
          /\ UNCHANGED <<c2s, ceof, seof, turn>>
      BY <1>2 DEF Take, ClientGoto, SimInv, ClientTypes
    <2>2. /\ s2c' \in [Clients -> Seq(Nat \X {"tag", "rest"})]
          /\ odd' \in [Clients -> BOOLEAN] /\ stray' \in [Clients -> BOOLEAN]
          /\ \A d \in Clients \ {c} : /\ s2c'[d] = s2c[d] /\ odd'[d] = odd[d]
                                      /\ stray'[d] = stray[d]
          /\ ~ clash /\ ~ odd'[c] => ~ odd[c] /\ s2c'[c] = <<>> /\ (s2c[c] # <<>> \/ seof[c])
          /\ stray'[c] => clash
      BY <1>2, TakeFacts DEF SimInv, ClientTypes, LockInv
    <2>3. ClientTypes'
      <3>1. /\ cpc' \in [Clients -> Over \cup {"off", "welcome", "send", "ready", "literal", "crlf",
                                               "answer"}]
            /\ todo' \in [Clients -> Seq(Commands)]
        BY <1>2 DEF ClientGoto, SimInv, ClientTypes
      <3>2. \A d \in Clients : cpc'[d] \in {"ready", "literal", "crlf", "answer"} => todo'[d] # <<>>
        BY <2>1 DEF SimInv, ClientTypes
      <3>3. \A d \in Clients : ceof[d] <=> cpc'[d] \in Over
        BY <2>1 DEF SimInv, ClientTypes, Over, Waiting
      <3>. QED  BY <2>1, <2>2, <3>1, <3>2, <3>3 DEF SimInv, ClientTypes
    <2>4. ~ clash /\ ~ odd'[c] => InStep(c)'
      <3>. SUFFICES ASSUME ~ clash, ~ odd'[c] PROVE InStep(c)'
        OBVIOUS
      <3>1. InStep(c) /\ s2c'[c] = <<>> /\ (s2c[c] # <<>> \/ seof[c])
        BY <2>2 DEF SimInv, LockInv
      <3>2. Live(c)' <=> Live(c)
        BY DEF Live, simVars
      <3>3. UNCHANGED <<th, sent>>
        BY DEF simVars
      <3>4. seof[c] => ~ Live(c)
        BY DEF SimInv, OwnInv, Live
      <3>5. Live(c) => th[c].pc \notin {"close", "end"}
        BY DEF SimInv, PlaceInv, Live
      <3>. QED  BY <2>1, <3>1, <3>2, <3>3, <3>4, <3>5 DEF InStep, Waiting, Answering, Over
    <2>5. cpc[c] # "off" /\ cpc'[c] # "off"
      BY <2>1 DEF Waiting
    <2>. QED  BY <2>1, <2>2, <2>3, <2>4, <2>5, ClientFrame
  <1>. QED  BY <1>1, <1>2 DEF ReadOrBreak

\* Every step of a client keeps the invariant.
LEMMA ClientKeeps ==
    ASSUME SimInv, NEW c \in Clients, ClientStep(c), UNCHANGED simVars
    PROVE  SimInv'
  <1>1. /\ todo[c] \in Seq(Commands)
        /\ cpc[c] \in {"ready", "literal", "crlf", "answer"} => todo[c] # <<>>
    BY DEF SimInv, ClientTypes
  <1>2. todo[c] # <<>> => /\ Head(todo[c]) \in Commands /\ Tail(todo[c]) \in Seq(Commands)
                          /\ <<Head(todo[c]).cmd>> \o CRLF \in Seq(Tokens)
                          /\ Head(todo[c]).literal \in Seq(Tokens)
                          /\ CRLF \in Seq(Tokens)
    BY <1>1, Lines
  <1>3. CASE Welcome(c)
    BY <1>1, <1>3, ReadKeeps DEF Welcome, Waiting
  <1>4. CASE SendLine(c)
    <2>1. cpc[c] = "send" /\ todo[c] # <<>>
      BY <1>4 DEF SendLine
    <2>2. PICK tokens, next : /\ tokens = <<Head(todo[c]).cmd>> \o CRLF /\ next \in {"ready", "answer"}
                              /\ WriteOrBreak(c, tokens, next)
      BY <1>4, Zenon DEF SendLine
    <2>3. tokens \in Seq(Tokens)
      BY <1>2, <2>1, <2>2
    <2>. QED  BY <2>1, <2>2, <2>3, WriteKeeps
  <1>5. CASE Ready(c)
    <2>1. cpc[c] \in Waiting /\ cpc[c] = "ready"
      BY <1>5 DEF Ready, Waiting
    <2>2. CASE ReadOrBreak(c, "send", Tail(todo[c]))
      BY <1>1, <1>2, <2>1, <2>2, ReadKeeps
    <2>3. CASE ReadOrBreak(c, "literal", todo[c])
      BY <1>1, <2>1, <2>3, ReadKeeps
    <2>. QED  BY <1>5, <2>2, <2>3 DEF Ready
  <1>6. CASE SendLiteral(c)
    BY <1>1, <1>2, <1>6, WriteKeeps DEF SendLiteral
  <1>7. CASE SendCRLF(c)
    BY <1>1, <1>2, <1>7, WriteKeeps DEF SendCRLF
  <1>8. CASE Answer(c)
    BY <1>1, <1>2, <1>8, ReadKeeps DEF Answer, Waiting
  <1>9. CASE LogoutAgain(c)
    <2>1. /\ cpc[c] = "answer" /\ s2c[c] # <<>> /\ Head(s2c[c])[2] = "tag" /\ Take(c, 1)
          /\ UNCHANGED <<cpc, todo, turn, c2s, ceof, seof>>
      BY <1>9 DEF LogoutAgain, Take
    <2>2. s2c[c] \in Seq(Nat \X {"tag", "rest"}) /\ 1 \in 1 .. Len(s2c[c])
      BY <2>1 DEF SimInv, ClientTypes
    <2>3. /\ s2c' \in [Clients -> Seq(Nat \X {"tag", "rest"})]
          /\ odd' \in [Clients -> BOOLEAN] /\ stray' \in [Clients -> BOOLEAN]
          /\ \A d \in Clients \ {c} : /\ s2c'[d] = s2c[d] /\ odd'[d] = odd[d]
                                      /\ stray'[d] = stray[d]
          /\ stray'[c] => clash
      BY <2>1, <2>2, TakeFacts
    <2>4. odd'[c]
      <3>1. Last(SubSeq(s2c[c], 1, 1)) = Head(s2c[c])
        BY <2>2, SubSeqProperties DEF Last
      <3>. QED  BY <2>1, <3>1 DEF Take, SimInv, ClientTypes
    <2>5. ClientTypes'
      BY <2>1, <2>3 DEF SimInv, ClientTypes
    <2>. QED  BY <2>1, <2>3, <2>4, <2>5, ClientFrame
  <1>10. CASE CloseSession(c)
    BY <1>10, LeaveKeeps DEF CloseSession, Over
  <1>. QED  BY <1>3, <1>4, <1>5, <1>6, <1>7, <1>8, <1>9, <1>10 DEF ClientStep

-----------------------------------------------------------------------------
\* The steps of the simulator.

\* A thread that is not about to move an index leaves the bound alone.
LEMMA ThreadIndex ==
    ASSUME SimInv, SimTypes', NEW t \in Clients, UNCHANGED index, th'[t].pc # "increment",
           \A u \in Clients \ {t} : th'[u] = th[u]
    PROVE  IndexInv'
  <1>. SUFFICES ASSUME NEW k \in DOMAIN Queue
                PROVE  index[k] + Cardinality(Behind(k)') <= Len(Queue[k]) + Cardinality(Clients) - 2
    BY DEF IndexInv
  <1>1. Behind(k)' \subseteq Behind(k) /\ Behind(k) \subseteq Clients
    BY DEF Behind
  <1>2. /\ IsFiniteSet(Behind(k)) /\ IsFiniteSet(Behind(k)')
        /\ Cardinality(Behind(k)') <= Cardinality(Behind(k))
    BY <1>1, NsimAssumption, FS_Subset
  <1>3. Cardinality(Behind(k)') \in Nat /\ Cardinality(Behind(k)) \in Nat
    BY <1>2, FS_CardinalityType
  <1>4. index[k] \in Nat /\ Len(Queue[k]) \in Nat /\ Cardinality(Clients) \in Nat
    BY NsimAssumption, FdsFacts DEF SimInv, SimTypes
  <1>5. index[k] + Cardinality(Behind(k)) <= Len(Queue[k]) + Cardinality(Clients) - 2
    BY DEF SimInv, IndexInv
  <1>. QED  BY <1>2, <1>3, <1>4, <1>5

\* A thread's step between two descriptors' changes disturbs only its own client,
\* while no thread has found another's connection.
LEMMA ThreadFrame ==
    ASSUME SimInv, ClientTypes', SimTypes', IndexInv', NEW t \in Clients,
           UNCHANGED <<up, backlog, tab, cpc, turn, stray>>,
           th[t].pc # "none", th'[t].pc \in Serving,
           \A u \in Clients \ {t} : th'[u] = th[u],
           clash => clash',
           ~ clash' => /\ UNCHANGED seof
                       /\ tab[th'[t].fd] = t /\ th'[t].on \in {none, t}
                       /\ \A d \in Clients \ {t} : /\ s2c'[d] = s2c[d] /\ c2s'[d] = c2s[d]
                                                   /\ sent'[d] = sent[d] /\ odd'[d] = odd[d]
                       /\ ~ odd'[t] => InStep(t)'
    PROVE  SimInv'
  <1>1. PlaceInv'
    <2>1. th'[t].pc # "none"
      BY DEF Serving
    <2>2. \A i \in DOMAIN backlog : backlog[i] \in Clients
      BY DEF SimInv, SimTypes
    <2>. QED  BY <2>1, <2>2 DEF SimInv, PlaceInv
  <1>2. OwnInv'
    <2>. SUFFICES ASSUME ~ clash' PROVE OwnInv'
      BY DEF OwnInv
    <2>1. ~ clash
      OBVIOUS
    <2>2. th'[t].pc # "created" /\ ~ seof[t]
      <3>1. th'[t].pc # "created"
        BY DEF Serving
      <3>2. seof[t] => th[t].pc = "end"
        BY <2>1 DEF SimInv, OwnInv
      <3>3. th[t].pc = "end" => \A f \in Fds : tab[f] # t
        BY <2>1, NsimAssumption DEF SimInv, OwnInv, Serving
      <3>4. th'[t].fd \in Fds
        BY DEF SimTypes
      <3>. QED  BY <3>1, <3>2, <3>3, <3>4
    <2>3. \A f \in Fds : tab[f] # none => tab[f] \in Clients
      BY DEF SimInv, SimTypes
    <2>. QED  BY <2>1, <2>2, <2>3 DEF SimInv, OwnInv
  <1>3. LockInv'
    <2>1. ASSUME NEW d \in Clients, d # t, ~ clash', InStep(d)
          PROVE  InStep(d)'
      BY <2>1 DEF InStep, Live
    <2>. QED  BY <2>1 DEF SimInv, LockInv
  <1>. QED  BY <1>1, <1>2, <1>3 DEF SimInv

\* What it knows of its own connection.
LEMMA OwnFacts ==
    ASSUME SimInv, NEW t \in Clients, th[t].pc \in Serving
    PROVE  /\ th[t].fd \in Fds /\ up /\ tab[th[t].fd] \in Clients \cup {none}
           /\ ~ clash => tab[th[t].fd] = t /\ th[t].on \in {none, t} /\ t # none
           /\ ~ clash /\ ~ odd[t] => InStep(t)
  BY NsimAssumption DEF SimInv, SimTypes, OwnInv, LockInv, Serving

\* socketSubThreadRun's first step.
LEMMA ReadSlotKeeps ==
    ASSUME SimInv, NEW t \in Clients, ReadSlot(t)
    PROVE  SimInv'
  <1>. USE DEF clientVars
  <1>1. /\ th[t].pc = "created" /\ th' = [th EXCEPT ![t].pc = "greet", ![t].fd = slot]
        /\ clash' = (clash \/ tab[slot] # t)
        /\ UNCHANGED <<cpc, todo, c2s, s2c, ceof, seof, turn, odd, stray, up, backlog, slot, tab,
                       index, sent, cut>>
    BY DEF ReadSlot
  <1>2. th[t] \in Thread /\ slot \in Fds
    BY <1>1 DEF SimInv, SimTypes
  <1>3. /\ th'[t].pc = "greet" /\ th'[t].fd = slot /\ th'[t].on = th[t].on
        /\ \A u \in Clients \ {t} : th'[u] = th[u]
    BY <1>1, <1>2 DEF SimInv, SimTypes, Thread
  <1>4. th' \in [Clients -> Thread]
    BY <1>1, <1>2 DEF SimInv, SimTypes, Thread, ThreadLabels
  <1>5. ClientTypes'
    BY <1>1 DEF SimInv, ClientTypes
  <1>6. SimTypes'
    BY <1>1, <1>2, <1>3, <1>4 DEF SimInv, SimTypes, Serving
  <1>7. IndexInv'
    BY <1>1, <1>3, <1>6, ThreadIndex
  <1>8. ASSUME ~ clash'
        PROVE  tab[th'[t].fd] = t /\ th'[t].on \in {none, t} /\ (~ odd'[t] => InStep(t)')
    <2>1. ~ clash /\ tab[slot] = t /\ th[t].on = none
      BY <1>1, <1>8 DEF SimInv, SimTypes
    <2>2. ~ odd[t] => InStep(t)
      BY <2>1 DEF SimInv, LockInv
    <2>3. Live(t) /\ Live(t)'
      BY <1>1, <1>3 DEF Live
    <2>4. ~ odd[t] => InStep(t)'
      BY <1>1, <1>3, <2>2, <2>3 DEF InStep, Waiting, Answering, Over
    <2>. QED  BY <1>1, <1>3, <2>1, <2>4
  <1>9. th'[t].pc \in Serving /\ th[t].pc # "none"
    BY <1>1, <1>3 DEF Serving
  <1>. QED  BY <1>1, <1>3, <1>5, <1>6, <1>7, <1>8, <1>9, ThreadFrame

\* The process ends: nothing more is sent to anybody.
LEMMA DiesKeeps == ASSUME SimInv, Dies
                   PROVE  SimInv'
  <1>1. /\ UNCHANGED <<cpc, todo, c2s, s2c, ceof, turn, odd, stray, slot, index, sent, clash, cut>>
        /\ up' = FALSE /\ backlog' = <<>> /\ tab' = [f \in Fds |-> none]
        /\ th' = [t \in Clients |-> NoThread]
    BY DEF Dies
  <1>2. seof' \in [Clients -> BOOLEAN]
    BY DEF Dies, SimInv, ClientTypes
  <1>3. NoThread \in Thread /\ NoThread.pc = "none"
    BY DEF NoThread, Thread, ThreadLabels
  <1>4. \A t \in Clients : th'[t].pc = "none"
    BY <1>1, <1>3
  <1>5. ClientTypes'
    BY <1>1, <1>2 DEF SimInv, ClientTypes
  <1>6. SimTypes'
    <2>1. th' \in [Clients -> Thread]
      BY <1>1, <1>3
    <2>2. backlog' \in Seq(Clients)
      BY <1>1
    <2>3. tab' \in [Fds -> Clients \cup {none}]
      BY <1>1
    <2>. QED  BY <1>1, <1>4, <2>1, <2>2, <2>3 DEF SimInv, SimTypes, Serving
  <1>7. PlaceInv'
    BY <1>1, <1>4, NsimAssumption DEF PlaceInv
  <1>8. IndexInv'
    <2>. SUFFICES ASSUME NEW k \in DOMAIN Queue
                  PROVE  index[k] + Cardinality(Behind(k)') <= Len(Queue[k]) + Cardinality(Clients) - 2
      BY <1>1 DEF IndexInv
    <2>1. Behind(k)' = {}
      BY <1>4 DEF Behind
    <2>2. IsFiniteSet(Behind(k)) /\ Cardinality(Behind(k)') = 0
      BY <2>1, NsimAssumption, FS_Subset, FS_EmptySet DEF Behind
    <2>3. Cardinality(Behind(k)) \in Nat
      BY <2>2, FS_CardinalityType
    <2>4. index[k] \in Nat /\ Len(Queue[k]) \in Nat /\ Cardinality(Clients) \in Nat
      BY NsimAssumption, FdsFacts DEF SimInv, SimTypes
    <2>. QED  BY <2>2, <2>3, <2>4 DEF SimInv, IndexInv
  <1>9. OwnInv'
    <2>1. ~ clash => \A c \in Clients : seof'[c] => cpc[c] # "off"
      BY DEF Dies, SimInv, OwnInv
    <2>. QED  BY <1>1, <1>4, <2>1 DEF OwnInv, Serving
  <1>10. LockInv'
    <2>1. ASSUME NEW c \in Clients, InStep(c)
          PROVE  InStep(c)'
      <3>1. ~ Live(c)'
        BY <1>1, <1>4 DEF Live
      <3>. QED  BY <1>1, <1>4, <2>1, <3>1 DEF InStep
    <2>. QED  BY <1>1, <2>1 DEF SimInv, LockInv
  <1>. QED  BY <1>5, <1>6, <1>7, <1>8, <1>9, <1>10 DEF SimInv

\* After its request a thread has its descriptor and nothing else.
LEMMA BetweenFacts ==
    ASSUME SimInv, NEW t \in Clients, th[t].pc \in Serving, NEW label \in Serving \ {"receive"},
           label \notin {"compare", "increment", "respond"}, Between(t, label)
    PROVE  /\ th'[t].pc = label /\ th'[t].fd = th[t].fd /\ th'[t].on = none
           /\ \A u \in Clients \ {t} : th'[u] = th[u]
           /\ th' \in [Clients -> Thread]
           /\ UNCHANGED <<up, slot, backlog, tab, index, clash, cut>> /\ sent' \in [Clients -> Nat]
                 => SimTypes' /\ IndexInv'
  <1>. DEFINE r == [NoThread EXCEPT !.pc = label, !.fd = th[t].fd]
  <1>1. th[t].fd \in Fds
    BY OwnFacts
  <1>2. r \in Thread /\ r.pc = label /\ r.fd = th[t].fd /\ r.on = none
    <2>1. label \in ThreadLabels
      BY DEF ThreadLabels, Serving
    <2>2. PICK n : n = NoThread
      OBVIOUS
    <2>3. n \in Thread /\ n.on = none
      BY <2>2 DEF NoThread, Thread, ThreadLabels
    <2>4. r = [n EXCEPT !.pc = label, !.fd = th[t].fd]
      BY <2>2
    <2>. QED  BY <1>1, <2>1, <2>3, <2>4 DEF Thread
  <1>3. th' = [th EXCEPT ![t] = r]
    BY DEF Between
  <1>. HIDE DEF r
  <1>4. /\ th'[t].pc = label /\ th'[t].fd = th[t].fd /\ th'[t].on = none
        /\ \A u \in Clients \ {t} : th'[u] = th[u]
        /\ th' \in [Clients -> Thread]
    BY <1>2, <1>3 DEF SimInv, SimTypes
  <1>5. ASSUME UNCHANGED <<up, slot, backlog, tab, index, clash, cut>>, sent' \in [Clients -> Nat]
        PROVE  SimTypes' /\ IndexInv'
    <2>1. th[t].pc # "none" /\ label # "none" /\ label # "created"
      BY DEF Serving
    <2>2. SimTypes'
      BY <1>1, <1>4, <1>5, <2>1 DEF SimInv, SimTypes
    <2>. QED  BY <1>4, <1>5, <2>2, ThreadIndex
  <1>. QED  BY <1>4, <1>5

\* doSendBack, at the start of a connection and as the answer to a request.
LEMMA SendBackKeeps ==
    ASSUME SimInv, NEW t \in Clients, NEW next \in {"recv", "close"}, SendBack(t, next),
           th[t].pc = "greet" \/ th[t].pc = "respond"
    PROVE  SimInv'
  <1>. USE DEF clientVars
  <1>. DEFINE d == tab[th[t].fd]
  <1>1. th[t].pc \in Serving /\ th[t].pc # "none"
    BY DEF Serving
  <1>2. d \in Clients \cup {none}
    BY <1>1, OwnFacts
  <1>3. {"recv", "close"} \subseteq Serving \ {"receive"}
    BY DEF Serving
  <1>4. CASE /\ d = none /\ Between(t, "close")
             /\ UNCHANGED <<clientVars, up, backlog, slot, tab, index, sent, clash, cut>>
    <2>1. /\ th'[t].pc = "close" /\ th'[t].fd = th[t].fd /\ th'[t].on = none
          /\ \A u \in Clients \ {t} : th'[u] = th[u]
          /\ SimTypes' /\ IndexInv'
      BY <1>1, <1>3, <1>4, BetweenFacts DEF SimInv, SimTypes
    <2>2. ClientTypes'
      BY <1>4 DEF SimInv, ClientTypes
    <2>3. clash
      BY <1>1, <1>4, OwnFacts
    <2>. QED  BY <1>1, <1>3, <1>4, <2>1, <2>2, <2>3, ThreadFrame
  <1>5. CASE /\ d # none /\ Between(t, next)
             /\ s2c' = IF ceof[d] THEN s2c ELSE [s2c EXCEPT ![d] = @ \o AnswerNo(sent[d])]
             /\ sent' = [sent EXCEPT ![d] = @ + 1]
             /\ UNCHANGED <<cpc, todo, c2s, ceof, seof, turn, odd, stray>>
             /\ UNCHANGED <<up, backlog, slot, tab, index, clash, cut>>
    <2>1. PICK e : e = d
      OBVIOUS
    <2>2. e \in Clients
      BY <1>2, <1>5, <2>1
    <2>3. /\ sent' = [sent EXCEPT ![e] = sent[e] + 1]
          /\ s2c' = IF ceof[e] THEN s2c ELSE [s2c EXCEPT ![e] = s2c[e] \o AnswerNo(sent[e])]
      BY <1>5, <2>1
    <2>4. /\ sent' \in [Clients -> Nat] /\ sent'[e] = sent[e] + 1 /\ sent[e] \in Nat
          /\ \A c \in Clients \ {e} : sent'[c] = sent[c]
      BY <2>2, <2>3 DEF SimInv, SimTypes
    <2>5. /\ s2c' \in [Clients -> Seq(Nat \X {"tag", "rest"})]
          /\ s2c'[e] = IF ceof[e] THEN s2c[e] ELSE s2c[e] \o AnswerNo(sent[e])
          /\ \A c \in Clients \ {e} : s2c'[c] = s2c[c]
      <3>1. s2c[e] \o AnswerNo(sent[e]) \in Seq(Nat \X {"tag", "rest"})
        BY <2>2, <2>4, AnswerFacts, ConcatProperties DEF SimInv, ClientTypes
      <3>. QED  BY <2>2, <2>3, <3>1 DEF SimInv, ClientTypes
    <2>6. /\ th'[t].pc = next /\ th'[t].fd = th[t].fd /\ th'[t].on = none
          /\ \A u \in Clients \ {t} : th'[u] = th[u]
          /\ SimTypes' /\ IndexInv'
      BY <1>1, <1>3, <1>5, <2>4, BetweenFacts
    <2>7. ClientTypes'
      BY <1>5, <2>5 DEF SimInv, ClientTypes
    <2>8. ASSUME ~ clash
          PROVE  e = t /\ tab[th[t].fd] = t /\ (~ odd[t] => InStep(t)')
      <3>1. e = t /\ tab[th[t].fd] = t
        BY <1>1, <2>1, <2>8, OwnFacts
      <3>2. ASSUME ~ odd[t]
            PROVE  InStep(t)'
        <4>1. InStep(t) /\ Live(t) /\ s2c[t] = <<>>
          <5>1. InStep(t) /\ Live(t)
            BY <2>8, <3>2 DEF SimInv, LockInv, Live
          <5>. QED  BY <5>1 DEF InStep, Answering
        <4>2. (ceof[t] <=> cpc[t] \in Over) /\ turn[t] \in Nat
          BY DEF SimInv, ClientTypes
        <4>3. CASE ceof[t]
          <5>1. s2c'[t] = <<>> /\ cpc[t] \in Over
            BY <2>5, <3>1, <4>1, <4>2, <4>3
          <5>2. th'[t].pc \in {"recv", "close"}
            BY <2>6
          <5>. QED  BY <1>5, <5>1, <5>2 DEF InStep, Waiting, Answering, Over
        <4>4. CASE ~ ceof[t]
          <5>1. /\ cpc[t] \in Waiting /\ sent[t] = turn[t] /\ c2s[t] = <<>>
            BY <4>1, <4>2, <4>4 DEF InStep, Waiting, Answering, Over
          <5>2. s2c'[t] = <<>> \o AnswerNo(turn[t])
            BY <2>5, <3>1, <4>1, <4>4, <5>1
          <5>3. s2c'[t] = AnswerNo(turn[t]) /\ s2c'[t] # <<>>
            BY <4>2, <5>2, AnswerFacts
          <5>4. /\ sent'[t] = turn[t] + 1 /\ th'[t].pc \in {"recv", "close"}
            BY <2>4, <2>6, <3>1, <5>1
          <5>. QED  BY <1>5, <5>1, <5>3, <5>4 DEF InStep, Waiting, Answering, Over
        <4>. QED  BY <4>3, <4>4
      <3>. QED  BY <3>1, <3>2
    <2>. QED  BY <1>1, <1>3, <1>5, <2>4, <2>5, <2>6, <2>7, <2>8, ThreadFrame
  <1>6. CASE Dies
    BY <1>6, DiesKeeps
  <1>. QED  BY <1>4, <1>5, <1>6 DEF SendBack

\* As long as every descriptor is known to its own thread, a connection is closed
\* only with its descriptor.
LEMMA NoHangUp ==
    ASSUME SimInv, HangUp, UNCHANGED tab
    PROVE  /\ seof' \in [Clients -> BOOLEAN]
           /\ ~ clash => UNCHANGED seof
  <1>1. seof' \in [Clients -> BOOLEAN]
    BY DEF HangUp, SimInv, ClientTypes
  <1>2. ASSUME ~ clash, NEW d \in Clients, Held(d, tab, th)
        PROVE  Held(d, tab, th')
    <2>1. \E f \in Fds : tab[f] = d
      <3>1. CASE \E t \in Clients : th[t].pc = "receive" /\ th[t].on = d
        <4>1. PICK t \in Clients : th[t].pc = "receive" /\ th[t].on = d
          BY <3>1
        <4>2. th[t].fd \in Fds /\ tab[th[t].fd] = t /\ th[t].on \in {none, t}
          BY <1>2, <4>1, OwnFacts DEF Serving
        <4>. QED  BY <4>1, <4>2, NsimAssumption
      <3>. QED  BY <1>2, <3>1 DEF Held
    <2>. QED  BY <2>1 DEF Held
  <1>3. ~ clash => \A d \in Clients : seof'[d] = seof[d]
    BY <1>2 DEF HangUp, SimInv, ClientTypes
  <1>4. seof \in [Clients -> BOOLEAN]
    BY DEF SimInv, ClientTypes
  <1>. QED  BY <1>1, <1>3, <1>4

\* Calling recv() on whatever has the number keeps the invariant.
LEMMA RecvCallKeeps ==
    ASSUME SimInv, NEW t \in Clients, RecvCall(t)
    PROVE  SimInv'
  <1>. USE DEF clientVars
  <1>1. PICK d : d = tab[th[t].fd]
    OBVIOUS
  <1>2. /\ th[t].pc = "recv"
        /\ th' = [th EXCEPT ![t].pc = IF d = none THEN "close" ELSE "receive", ![t].on = d]
        /\ UNCHANGED <<cpc, todo, c2s, s2c, ceof, seof, turn, odd, stray, up, backlog, slot, tab,
                       index, sent, clash, cut>>
    BY <1>1 DEF RecvCall
  <1>3. th[t].pc \in Serving /\ th[t] \in Thread
    BY <1>2 DEF Serving, SimInv, SimTypes
  <1>4. d \in Clients \cup {none} /\ th[t].fd \in Fds /\ (~ clash => d = t /\ d # none)
    BY <1>1, <1>3, OwnFacts
  <1>5. /\ th'[t].pc = (IF d = none THEN "close" ELSE "receive")
        /\ th'[t].fd = th[t].fd /\ th'[t].on = d
        /\ \A u \in Clients \ {t} : th'[u] = th[u]
    BY <1>2, <1>3 DEF SimInv, SimTypes, Thread
  <1>6. th' \in [Clients -> Thread]
    BY <1>2, <1>3, <1>4 DEF SimInv, SimTypes, Thread, ThreadLabels
  <1>7. ClientTypes'
    BY <1>2 DEF SimInv, ClientTypes
  <1>8. SimTypes'
    BY <1>2, <1>4, <1>5, <1>6 DEF SimInv, SimTypes, Serving
  <1>a. th'[t].pc \in {"close", "receive"}
    BY <1>5
  <1>9. IndexInv'
    BY <1>2, <1>5, <1>8, <1>a, ThreadIndex
  <1>10. ASSUME ~ clash, ~ odd[t]
         PROVE  InStep(t)'
    <2>1. InStep(t) /\ Live(t)
      BY <1>2, <1>10 DEF SimInv, LockInv, Live
    <2>2. th'[t].pc = "receive" /\ Live(t)'
      BY <1>4, <1>5, <1>10 DEF Live
    <2>. QED  BY <1>2, <2>1, <2>2 DEF InStep, Waiting, Answering, Over
  <1>11. th'[t].pc \in Serving /\ th[t].pc # "none"
    BY <1>2, <1>5 DEF Serving
  <1>. QED  BY <1>1, <1>2, <1>4, <1>5, <1>7, <1>8, <1>9, <1>10, <1>11, ThreadFrame

\* recv returns some of what the client has written.  Where a line end is in it and
\* more is still to come, the thread answers part of a request.
LEMMA RecvKeeps ==
    ASSUME SimInv, NEW t \in Clients, Recv(t)
    PROVE  SimInv'
  <1>1. PICK d : d = th[t].on
    OBVIOUS
  <1>2. th[t].pc = "receive" /\ th[t].pc \in Serving /\ th[t] \in Thread
    BY DEF Recv, Serving, SimInv, SimTypes
  <1>3. /\ d \in Clients /\ th[t].fd \in Fds /\ (~ clash => d = t /\ tab[th[t].fd] = t)
    BY <1>1, <1>2, OwnFacts, NsimAssumption DEF SimInv, SimTypes
  <1>a. PICK n \in 1 .. Len(c2s[th[t].on]) :
            LET chunk == SubSeq(c2s[th[t].on], 1, n)
                rest == SubSeq(c2s[th[t].on], n + 1, Len(c2s[th[t].on]))
            IN /\ c2s' = [c2s EXCEPT ![th[t].on] = rest]
               /\ th' = [th EXCEPT ![t].got = @ \o chunk, ![t].on = none,
                                   ![t].pc = IF findCRLF(chunk) THEN "parse" ELSE "recv"]
               /\ cut' = [cut EXCEPT ![th[t].on] = @ \/ (rest # <<>> /\ Head(rest) = "LF")]
               /\ odd' = [odd EXCEPT ![th[t].on] = @ \/ (findCRLF(chunk) /\
                              (rest # <<>> \/ cpc[th[t].on] \in {"literal", "crlf"}))]
    BY DEF Recv
  <1>b. PICK chunk : chunk = SubSeq(c2s[th[t].on], 1, n)
    OBVIOUS
  <1>c. PICK rest : rest = SubSeq(c2s[th[t].on], n + 1, Len(c2s[th[t].on]))
    OBVIOUS
  <1>4. /\ n \in 1 .. Len(c2s[d]) /\ chunk = SubSeq(c2s[d], 1, n)
        /\ rest = SubSeq(c2s[d], n + 1, Len(c2s[d]))
        /\ c2s' = [c2s EXCEPT ![d] = rest]
        /\ th' = [th EXCEPT ![t].got = @ \o chunk, ![t].on = none,
                            ![t].pc = IF findCRLF(chunk) THEN "parse" ELSE "recv"]
        /\ cut' = [cut EXCEPT ![d] = @ \/ (rest # <<>> /\ Head(rest) = "LF")]
        /\ odd' = [odd EXCEPT ![d] = @ \/ (findCRLF(chunk) /\
                       (rest # <<>> \/ cpc[d] \in {"literal", "crlf"}))]
    BY <1>1, <1>a, <1>b, <1>c
  <1>5. /\ UNCHANGED <<cpc, todo, s2c, ceof, turn, stray, up, backlog, slot, tab, index, sent, clash>>
        /\ HangUp
    BY DEF Recv
  <1>6. chunk \in Seq(Tokens) /\ rest \in Seq(Tokens) /\ c2s[d] # <<>>
    <2>1. c2s[d] \in Seq(Tokens)
      BY <1>3 DEF SimInv, ClientTypes
    <2>. QED  BY <1>4, <2>1
  <1>7. /\ th'[t].pc = (IF findCRLF(chunk) THEN "parse" ELSE "recv")
        /\ th'[t].fd = th[t].fd /\ th'[t].on = none
        /\ \A u \in Clients \ {t} : th'[u] = th[u]
    BY <1>2, <1>4 DEF SimInv, SimTypes, Thread
  <1>8. th' \in [Clients -> Thread]
    <2>1. th[t].got \o chunk \in Seq(Tokens)
      BY <1>2, <1>6, ConcatProperties DEF Thread
    <2>2. (IF findCRLF(chunk) THEN "parse" ELSE "recv") \in ThreadLabels
      BY DEF ThreadLabels
    <2>. QED  BY <1>2, <1>4, <2>1, <2>2 DEF SimInv, SimTypes, Thread
  <1>9. /\ c2s' \in [Clients -> Seq(Tokens)] /\ c2s'[d] = rest
        /\ \A c \in Clients \ {d} : c2s'[c] = c2s[c]
    BY <1>3, <1>4, <1>6 DEF SimInv, ClientTypes
  <1>10. /\ odd' \in [Clients -> BOOLEAN] /\ cut' \in [Clients -> BOOLEAN]
         /\ odd'[d] = (odd[d] \/ (findCRLF(chunk) /\ (rest # <<>> \/ cpc[d] \in {"literal", "crlf"})))
         /\ \A c \in Clients \ {d} : odd'[c] = odd[c]
    BY <1>3, <1>4 DEF SimInv, ClientTypes, SimTypes
  <1>11. seof' \in [Clients -> BOOLEAN] /\ (~ clash => UNCHANGED seof)
    BY <1>5, NoHangUp
  <1>12. ClientTypes'
    BY <1>5, <1>9, <1>10, <1>11 DEF SimInv, ClientTypes
  <1>13. SimTypes'
    BY <1>2, <1>3, <1>5, <1>7, <1>8, <1>10 DEF SimInv, SimTypes, Serving
  <1>14. IndexInv'
    BY <1>5, <1>7, <1>13, ThreadIndex
  <1>15. ASSUME ~ clash, ~ odd'[t]
         PROVE  InStep(t)'
    <2>1. d = t /\ ~ odd[t]
      BY <1>3, <1>10, <1>15
    <2>2. InStep(t) /\ Live(t)
      BY <1>2, <1>15, <2>1 DEF SimInv, LockInv, Live
    <2>3. s2c[t] = <<>> /\ cpc[t] \notin {"welcome", "send", "off"}
      <3>1. cpc[t] # "off"
        BY <1>2 DEF SimInv, PlaceInv
      <3>. QED  BY <1>6, <2>1, <2>2, <3>1 DEF InStep
    <2>4. Live(t)'
      BY <1>7 DEF Live
    <2>5. CASE findCRLF(chunk)
      <3>1. c2s'[t] = <<>> /\ cpc[t] \notin {"literal", "crlf"} /\ th'[t].pc = "parse"
        BY <1>7, <1>9, <1>10, <1>15, <2>1, <2>5
      <3>2. cpc[t] \in {"ready", "answer"} \cup Over
        BY <2>3, <3>1 DEF SimInv, ClientTypes
      <3>. QED  BY <1>5, <2>2, <2>3, <2>4, <3>1, <3>2 DEF InStep, Waiting, Answering, Over
    <2>6. CASE ~ findCRLF(chunk)
      <3>1. th'[t].pc = "recv"
        BY <1>7, <2>6
      <3>. QED  BY <1>5, <2>2, <2>3, <2>4, <3>1 DEF InStep, Waiting, Answering, Over
    <2>. QED  BY <2>5, <2>6
  <1>16. th'[t].pc \in Serving /\ th[t].pc # "none"
    BY <1>2, <1>7 DEF Serving
  <1>. QED  BY <1>3, <1>5, <1>7, <1>9, <1>10, <1>11, <1>12, <1>13, <1>14, <1>15, <1>16, ThreadFrame

\* The end of the stream, or an error, keeps the invariant.
LEMMA RecvEndsKeeps ==
    ASSUME SimInv, NEW t \in Clients, RecvEnds(t)
    PROVE  SimInv'
  <1>1. /\ th[t].pc = "receive" /\ Between(t, "close") /\ HangUp
        /\ UNCHANGED <<cpc, todo, c2s, s2c, ceof, turn, odd, stray, up, backlog, slot, tab, index,
                       sent, clash, cut>>
    BY DEF RecvEnds
  <1>2. th[t].pc \in Serving /\ "close" \in Serving \ {"receive"} /\ th[t].pc # "none"
    BY <1>1 DEF Serving
  <1>3. /\ th'[t].pc = "close" /\ th'[t].fd = th[t].fd /\ th'[t].on = none
        /\ \A u \in Clients \ {t} : th'[u] = th[u]
        /\ SimTypes' /\ IndexInv'
    BY <1>1, <1>2, BetweenFacts DEF SimInv, SimTypes
  <1>4. seof' \in [Clients -> BOOLEAN] /\ (~ clash => UNCHANGED seof)
    BY <1>1, NoHangUp
  <1>5. ClientTypes'
    BY <1>1, <1>4 DEF SimInv, ClientTypes
  <1>6. ASSUME ~ clash, ~ odd[t]
        PROVE  InStep(t)'
    <2>1. InStep(t)
      BY <1>6 DEF SimInv, LockInv
    <2>2. ~ Live(t)'
      BY <1>1, <1>3 DEF Live, SimInv, PlaceInv
    <2>. QED  BY <1>1, <1>3, <2>1, <2>2 DEF InStep
  <1>7. ~ clash => tab[th[t].fd] = t
    BY <1>2, OwnFacts
  <1>. QED  BY <1>1, <1>2, <1>3, <1>4, <1>5, <1>6, <1>7, ThreadFrame

\* The command is one that has a queue.
LEMMA GetCmdQueIndexKeeps ==
    ASSUME SimInv, NEW t \in Clients, GetCmdQueIndex(t)
    PROVE  SimInv'
  <1>. USE DEF clientVars
  <1>1. PICK k : k = Command(th[t].got)
    OBVIOUS
  <1>2. k \in DOMAIN Queue
    <2>1. Redirected(Head(Words(th[t].got))) \in DOMAIN Queue
      BY NsimAssumption DEF Redirected
    <2>2. "OTHER" \in DOMAIN Queue
      BY NsimAssumption
    <2>. QED  BY <1>1, <2>1, <2>2 DEF Command
  <1>3. /\ th[t].pc = "parse"
        /\ th' = [th EXCEPT ![t].pc = "compare", ![t].got = <<>>, ![t].cmd = k, ![t].idx = index[k]]
        /\ UNCHANGED <<cpc, todo, c2s, s2c, ceof, seof, turn, odd, stray, up, backlog, slot, tab,
                       index, sent, clash, cut>>
    BY <1>1 DEF GetCmdQueIndex
  <1>4. th[t].pc \in Serving /\ th[t] \in Thread /\ index[k] \in Nat
    BY <1>2, <1>3 DEF Serving, SimInv, SimTypes
  <1>5. th[t].fd \in Fds /\ (~ clash => tab[th[t].fd] = t /\ th[t].on \in {none, t})
    BY <1>4, OwnFacts
  <1>6. /\ th'[t].pc = "compare" /\ th'[t].fd = th[t].fd /\ th'[t].on = th[t].on /\ th'[t].cmd = k
        /\ \A u \in Clients \ {t} : th'[u] = th[u]
    BY <1>3, <1>4 DEF SimInv, SimTypes, Thread
  <1>7. th' \in [Clients -> Thread]
    <2>1. PICK r : r = [th[t] EXCEPT !.pc = "compare", !.got = <<>>, !.cmd = k, !.idx = index[k]]
      OBVIOUS
    <2>2. "compare" \in ThreadLabels /\ <<>> \in Seq(Tokens)
      BY DEF ThreadLabels
    <2>3. PICK e : e = <<>>
      OBVIOUS
    <2>4. r = [th[t] EXCEPT !.pc = "compare", !.got = e, !.cmd = k, !.idx = index[k]]
      BY <2>1, <2>3
    <2>5. r \in Thread
      BY <1>2, <1>4, <2>2, <2>3, <2>4 DEF Thread
    <2>6. th' = [th EXCEPT ![t] = r]
      BY <1>3, <2>1 DEF SimInv, SimTypes
    <2>. QED  BY <2>5, <2>6 DEF SimInv, SimTypes
  <1>8. ClientTypes'
    BY <1>3 DEF SimInv, ClientTypes
  <1>9. SimTypes'
    BY <1>2, <1>3, <1>5, <1>6, <1>7 DEF SimInv, SimTypes, Serving
  <1>10. IndexInv'
    BY <1>3, <1>6, <1>9, ThreadIndex
  <1>11. ASSUME ~ clash, ~ odd[t]
         PROVE  InStep(t)'
    <2>1. InStep(t) /\ Live(t) /\ Live(t)'
      BY <1>3, <1>6, <1>11 DEF SimInv, LockInv, Live
    <2>. QED  BY <1>3, <1>6, <2>1 DEF InStep, Waiting, Answering, Over
  <1>12. th'[t].pc \in Serving /\ th[t].pc # "none"
    BY <1>3, <1>6 DEF Serving
  <1>. QED  BY <1>3, <1>5, <1>6, <1>8, <1>9, <1>10, <1>11, <1>12, ThreadFrame

\* The threads that have yet to move an index are no more than there are threads.
LEMMA BehindFacts ==
    ASSUME NEW k \in DOMAIN Queue
    PROVE  /\ IsFiniteSet(Behind(k)) /\ Cardinality(Behind(k)) \in Nat
           /\ Cardinality(Behind(k)) <= Cardinality(Clients)
           /\ Len(Queue[k]) \in Nat \ {0} /\ Cardinality(Clients) \in Nat \ {0}
  <1>1. Behind(k) \subseteq Clients
    BY DEF Behind
  <1>2. IsFiniteSet(Behind(k)) /\ Cardinality(Behind(k)) <= Cardinality(Clients)
    BY <1>1, NsimAssumption, FS_Subset
  <1>3. Cardinality(Behind(k)) \in Nat
    BY <1>2, FS_CardinalityType
  <1>4. Len(Queue[k]) \in Nat \ {0}
    BY NsimAssumption
  <1>. QED  BY <1>2, <1>3, <1>4, FdsFacts

\* A thread joins those that will move the index only while there is room.
LEMMA CompareIndexKeeps ==
    ASSUME SimInv, NEW t \in Clients, CompareIndex(t)
    PROVE  SimInv'
  <1>. USE DEF clientVars
  <1>1. PICK k : k = th[t].cmd
    OBVIOUS
  <1>3. /\ th[t].pc = "compare"
        /\ th' = [th EXCEPT ![t].pc = "increment", ![t].cur = index[k]]
        /\ UNCHANGED <<cpc, todo, c2s, s2c, ceof, seof, turn, odd, stray, up, backlog, slot, tab,
                       index, sent, clash, cut>>
    BY <1>1 DEF CompareIndex
  <1>2. k \in DOMAIN Queue
    BY <1>1, <1>3 DEF SimInv, SimTypes
  <1>4. th[t].pc \in Serving /\ th[t] \in Thread /\ index[k] \in Nat
    BY <1>2, <1>3 DEF Serving, SimInv, SimTypes
  <1>5. th[t].fd \in Fds /\ (~ clash => tab[th[t].fd] = t /\ th[t].on \in {none, t})
    BY <1>4, OwnFacts
  <1>6. /\ th'[t].pc = "increment" /\ th'[t].fd = th[t].fd /\ th'[t].on = th[t].on
        /\ th'[t].cmd = k /\ th'[t].cur = index[k]
        /\ \A u \in Clients \ {t} : th'[u] = th[u]
    BY <1>1, <1>3, <1>4 DEF SimInv, SimTypes, Thread
  <1>7. th' \in [Clients -> Thread]
    BY <1>2, <1>3, <1>4 DEF SimInv, SimTypes, Thread, ThreadLabels
  <1>8. ClientTypes'
    BY <1>3 DEF SimInv, ClientTypes
  <1>9. SimTypes'
    BY <1>2, <1>3, <1>5, <1>6, <1>7 DEF SimInv, SimTypes, Serving
  <1>10. IndexInv'
    <2>. SUFFICES ASSUME NEW m \in DOMAIN Queue
                  PROVE  index[m] + Cardinality(Behind(m)') <= Len(Queue[m]) + Cardinality(Clients) - 2
      BY <1>3 DEF IndexInv
    <2>1. index[m] \in Nat
      BY DEF SimInv, SimTypes
    <2>2. /\ IsFiniteSet(Behind(m)) /\ Cardinality(Behind(m)) \in Nat
          /\ Len(Queue[m]) \in Nat \ {0} /\ Cardinality(Clients) \in Nat \ {0}
          /\ index[m] + Cardinality(Behind(m)) <= Len(Queue[m]) + Cardinality(Clients) - 2
      BY BehindFacts DEF SimInv, IndexInv
    <2>3. CASE m = k /\ index[k] < Len(Queue[k]) - 1
      <3>1. Behind(m)' \subseteq Clients
        BY DEF Behind
      <3>2. IsFiniteSet(Behind(m)') /\ Cardinality(Behind(m)') <= Cardinality(Clients)
        BY <3>1, NsimAssumption, FS_Subset
      <3>3. Cardinality(Behind(m)') \in Nat
        BY <3>2, FS_CardinalityType
      <3>. QED  BY <2>1, <2>2, <2>3, <3>2, <3>3
    <2>4. CASE ~ (m = k /\ index[k] < Len(Queue[k]) - 1)
      <3>1. Behind(m)' \subseteq Behind(m)
        BY <1>6, <2>4 DEF Behind
      <3>2. IsFiniteSet(Behind(m)') /\ Cardinality(Behind(m)') <= Cardinality(Behind(m))
        BY <2>2, <3>1, FS_Subset
      <3>3. Cardinality(Behind(m)') \in Nat
        BY <3>2, FS_CardinalityType
      <3>. QED  BY <2>1, <2>2, <3>2, <3>3
    <2>. QED  BY <2>3, <2>4
  <1>11. ASSUME ~ clash, ~ odd[t]
         PROVE  InStep(t)'
    <2>1. InStep(t) /\ Live(t) /\ Live(t)'
      BY <1>3, <1>6, <1>11 DEF SimInv, LockInv, Live
    <2>. QED  BY <1>3, <1>6, <2>1 DEF InStep, Waiting, Answering, Over
  <1>12. th'[t].pc \in Serving /\ th[t].pc # "none"
    BY <1>3, <1>6 DEF Serving
  <1>. QED  BY <1>3, <1>5, <1>6, <1>8, <1>9, <1>10, <1>11, <1>12, ThreadFrame

\* One that moves it leaves them.
LEMMA CmdQueIndexIncrementKeeps ==
    ASSUME SimInv, NEW t \in Clients, CmdQueIndexIncrement(t)
    PROVE  SimInv'
  <1>. USE DEF clientVars
  <1>1. PICK k : k = th[t].cmd
    OBVIOUS
  <1>3. /\ th[t].pc = "increment"
        /\ th' = [th EXCEPT ![t].pc = "respond", ![t].cur = 0]
        /\ UNCHANGED <<cpc, todo, c2s, s2c, ceof, seof, turn, odd, stray, up, backlog, slot, tab,
                       sent, clash, cut>>
    BY DEF CmdQueIndexIncrement
  <1>2. k \in DOMAIN Queue
    BY <1>1, <1>3 DEF SimInv, SimTypes
  <1>4. th[t].pc \in Serving /\ th[t] \in Thread /\ index[k] \in Nat /\ th[t].cur \in Nat
    BY <1>2, <1>3 DEF Serving, SimInv, SimTypes, Thread
  <1>5. th[t].fd \in Fds /\ (~ clash => tab[th[t].fd] = t /\ th[t].on \in {none, t})
    BY <1>4, OwnFacts
  <1>6. /\ th'[t].pc = "respond" /\ th'[t].fd = th[t].fd /\ th'[t].on = th[t].on /\ th'[t].cmd = k
        /\ \A u \in Clients \ {t} : th'[u] = th[u]
    BY <1>1, <1>3, <1>4 DEF SimInv, SimTypes, Thread
  <1>7. th' \in [Clients -> Thread]
    BY <1>2, <1>3, <1>4 DEF SimInv, SimTypes, Thread, ThreadLabels
  <1>8. ClientTypes'
    BY <1>3 DEF SimInv, ClientTypes
  <1>a. PICK new \in Nat :
            /\ index' = [index EXCEPT ![k] = new]
            /\ \/ th[t].cur < Len(Queue[k]) - 1 /\ new \in {index[k] + 1, th[t].cur + 1}
               \/ ~ (th[t].cur < Len(Queue[k]) - 1) /\ new = 0
    <2>1. CASE th[t].cur < Len(Queue[k]) - 1
      <3>1. PICK from \in {index[k], th[t].cur} : index' = [index EXCEPT ![k] = from + 1]
        BY <1>1, <2>1 DEF CmdQueIndexIncrement
      <3>2. from + 1 \in Nat /\ from + 1 \in {index[k] + 1, th[t].cur + 1}
        BY <1>4, <3>1
      <3>. QED  BY <2>1, <3>1, <3>2
    <2>2. CASE ~ (th[t].cur < Len(Queue[k]) - 1)
      BY <1>1, <2>2 DEF CmdQueIndexIncrement
    <2>. QED  BY <2>1, <2>2
  <1>b. /\ index' \in [DOMAIN Queue -> Nat] /\ index'[k] = new
        /\ \A m \in DOMAIN Queue : m # k => index'[m] = index[m]
    BY <1>2, <1>a DEF SimInv, SimTypes
  <1>9. SimTypes'
    BY <1>2, <1>3, <1>5, <1>6, <1>7, <1>b DEF SimInv, SimTypes, Serving
  <1>10. IndexInv'
    <2>. SUFFICES ASSUME NEW m \in DOMAIN Queue
                  PROVE  index'[m] + Cardinality(Behind(m)') <= Len(Queue[m]) + Cardinality(Clients) - 2
      BY DEF IndexInv
    <2>1. index[m] \in Nat
      BY DEF SimInv, SimTypes
    <2>2. /\ IsFiniteSet(Behind(m)) /\ Cardinality(Behind(m)) \in Nat
          /\ Len(Queue[m]) \in Nat \ {0} /\ Cardinality(Clients) \in Nat \ {0}
          /\ index[m] + Cardinality(Behind(m)) <= Len(Queue[m]) + Cardinality(Clients) - 2
      BY BehindFacts DEF SimInv, IndexInv
    <2>3. /\ Behind(m)' \subseteq Behind(m) /\ Behind(m)' \subseteq Clients \ {t}
          /\ m = k /\ th[t].cur < Len(Queue[k]) - 1 => t \in Behind(m)
      BY <1>1, <1>3, <1>6 DEF Behind
    <2>4. /\ IsFiniteSet(Behind(m)') /\ Cardinality(Behind(m)') <= Cardinality(Behind(m))
      BY <2>2, <2>3, FS_Subset
    <2>5. Cardinality(Behind(m)') \in Nat
      BY <2>4, FS_CardinalityType
    <2>6. Cardinality(Behind(m)') <= Cardinality(Clients) - 1
      <3>1. IsFiniteSet(Clients \ {t}) /\ Cardinality(Clients \ {t}) = Cardinality(Clients) - 1
        BY NsimAssumption, FS_RemoveElement
      <3>. QED  BY <2>3, <3>1, FS_Subset
    <2>7. CASE m # k
      BY <1>b, <2>1, <2>2, <2>4, <2>5, <2>7
    <2>8. CASE m = k /\ new = index[k] + 1 /\ th[t].cur < Len(Queue[k]) - 1
      <3>1. /\ IsFiniteSet(Behind(m) \ {t}) /\ Cardinality(Behind(m) \ {t}) = Cardinality(Behind(m)) - 1
        BY <2>2, <2>3, <2>8, FS_RemoveElement
      <3>2. Behind(m)' \subseteq Behind(m) \ {t}
        BY <2>3
      <3>3. Cardinality(Behind(m)') <= Cardinality(Behind(m)) - 1
        BY <3>1, <3>2, FS_Subset
      <3>4. index'[m] = index[m] + 1
        BY <1>b, <2>8
      <3>. QED  BY <2>1, <2>2, <2>5, <3>3, <3>4
    <2>9. CASE m = k /\ new = th[t].cur + 1 /\ th[t].cur < Len(Queue[k]) - 1
      BY <1>4, <1>b, <2>2, <2>5, <2>6, <2>9
    <2>10. CASE m = k /\ new = 0
      BY <1>b, <2>2, <2>5, <2>6, <2>10
    <2>. QED  BY <1>a, <2>7, <2>8, <2>9, <2>10
  <1>11. ASSUME ~ clash, ~ odd[t]
         PROVE  InStep(t)'
    <2>1. InStep(t) /\ Live(t) /\ Live(t)'
      BY <1>3, <1>6, <1>11 DEF SimInv, LockInv, Live
    <2>. QED  BY <1>3, <1>6, <2>1 DEF InStep, Waiting, Answering, Over
  <1>12. th'[t].pc \in Serving /\ th[t].pc # "none"
    BY <1>3, <1>6 DEF Serving
  <1>. QED  BY <1>3, <1>5, <1>6, <1>8, <1>9, <1>10, <1>11, <1>12, ThreadFrame

-----------------------------------------------------------------------------
\* zn_cimap_session::init: the client waits to be accepted, or finds nobody.
LEMMA ConnectKeeps ==
    ASSUME SimInv, NEW c \in Clients, Connect(c)
    PROVE  SimInv'
  <1>1. /\ cpc[c] = "off"
        /\ UNCHANGED <<todo, c2s, s2c, seof, turn, odd, stray, up, slot, tab, th, index, sent,
                       clash, cut>>
    BY DEF Connect
  <1>2. /\ th[c].pc = "none" /\ \A i \in DOMAIN backlog : backlog[i] # c
        /\ ~ clash => ~ seof[c]
    BY <1>1 DEF SimInv, PlaceInv, OwnInv
  <1>3. backlog \in Seq(Clients) /\ ~ ceof[c] /\ cpc \in [Clients -> Over \cup {"off", "welcome",
                                         "send", "ready", "literal", "crlf", "answer"}]
    BY <1>1 DEF SimInv, SimTypes, ClientTypes, Over
  <1>4. IndexInv'
    BY <1>1, SameBehind DEF SimInv, IndexInv
  <1>5. ~ clash /\ ~ odd[c] => s2c[c] = <<>> /\ c2s[c] = <<>> /\ turn[c] = 0 /\ sent[c] = 0
    BY <1>1 DEF SimInv, LockInv, InStep, Waiting
  <1>6. CASE up
    <2>1. /\ backlog' = Append(backlog, c) /\ cpc' = [cpc EXCEPT ![c] = "welcome"] /\ UNCHANGED ceof
      BY <1>6 DEF Connect, ClientGoto
    <2>2. cpc'[c] = "welcome" /\ \A d \in Clients \ {c} : cpc'[d] = cpc[d]
      BY <1>3, <2>1
    <2>3. /\ backlog' \in Seq(Clients) /\ DOMAIN backlog' = 1 .. Len(backlog) + 1
          /\ DOMAIN backlog = 1 .. Len(backlog) /\ Len(backlog) \in Nat
          /\ backlog'[Len(backlog) + 1] = c
          /\ \A i \in DOMAIN backlog : backlog'[i] = backlog[i] /\ backlog[i] \in Clients
      BY <1>3, <2>1
    <2>4. \A i \in DOMAIN backlog' : i \in DOMAIN backlog \/ i = Len(backlog) + 1
      BY <2>3
    <2>5. ClientTypes'
      <3>1. cpc' \in [Clients -> Over \cup {"off", "welcome", "send", "ready", "literal", "crlf",
                                            "answer"}]
        BY <1>3, <2>1
      <3>2. \A d \in Clients : ceof[d] <=> cpc'[d] \in Over
        BY <1>3, <2>2 DEF SimInv, ClientTypes, Over
      <3>3. \A d \in Clients : cpc'[d] \in {"ready", "literal", "crlf", "answer"} => todo[d] # <<>>
        BY <2>2 DEF SimInv, ClientTypes
      <3>. QED  BY <1>1, <2>1, <3>1, <3>2, <3>3 DEF SimInv, ClientTypes
    <2>6. SimTypes'
      BY <1>1, <2>3 DEF SimInv, SimTypes
    <2>7. PlaceInv'
      <3>1. \A i, j \in DOMAIN backlog' : backlog'[i] = backlog'[j] => i = j
        BY <1>2, <2>3, <2>4 DEF SimInv, PlaceInv
      <3>2. \A i \in DOMAIN backlog' : /\ cpc'[backlog'[i]] # "off" /\ th[backlog'[i]].pc = "none"
                                       /\ \A f \in Fds : tab[f] # backlog'[i]
        <4>1. cpc'[c] # "off" /\ th[c].pc = "none" /\ \A f \in Fds : tab[f] # c
          BY <1>1, <2>2 DEF SimInv, PlaceInv
        <4>2. \A i \in DOMAIN backlog : /\ cpc'[backlog[i]] # "off" /\ th[backlog[i]].pc = "none"
                                        /\ \A f \in Fds : tab[f] # backlog[i]
          BY <2>2, <2>3 DEF SimInv, PlaceInv
        <4>. QED  BY <2>3, <2>4, <4>1, <4>2
      <3>. QED  BY <1>1, <1>6, <2>2, <3>1, <3>2 DEF SimInv, PlaceInv
    <2>8. OwnInv'
      <3>1. ASSUME NEW d \in Clients, ~ clash, seof[d]
            PROVE  cpc'[d] # "off" /\ \A i \in DOMAIN backlog' : backlog'[i] # d
        <4>1. d # c /\ cpc[d] # "off" /\ \A i \in DOMAIN backlog : backlog[i] # d
          BY <1>2, <3>1 DEF SimInv, OwnInv
        <4>. QED  BY <2>2, <2>3, <2>4, <4>1
      <3>. QED  BY <1>1, <3>1 DEF SimInv, OwnInv
    <2>9. LockInv'
      <3>1. ASSUME NEW d \in Clients, d # c, InStep(d)
            PROVE  InStep(d)'
        <4>1. (\E i \in DOMAIN backlog' : backlog'[i] = d) <=> (\E i \in DOMAIN backlog : backlog[i] = d)
          BY <2>3, <2>4, <3>1
        <4>2. Live(d)' <=> Live(d)
          BY <1>1, <4>1 DEF Live
        <4>. QED  BY <1>1, <2>2, <3>1, <4>2 DEF InStep
      <3>2. ~ clash /\ ~ odd[c] => InStep(c)'
        BY <1>1, <1>2, <1>5, <2>2 DEF InStep, Waiting, Answering
      <3>. QED  BY <1>1, <3>1, <3>2 DEF SimInv, LockInv
    <2>. QED  BY <1>4, <2>5, <2>6, <2>7, <2>8, <2>9 DEF SimInv
  <1>7. CASE ~ up
    <2>1. /\ UNCHANGED backlog /\ cpc' = [cpc EXCEPT ![c] = "broken"]
          /\ ceof' = [ceof EXCEPT ![c] = TRUE]
      BY <1>7 DEF Connect, ClientGoto
    <2>2. cpc'[c] = "broken" /\ \A d \in Clients \ {c} : cpc'[d] = cpc[d]
      BY <1>3, <2>1
    <2>3. backlog = <<>>
      BY <1>7 DEF SimInv, PlaceInv
    <2>5. ClientTypes'
      <3>1. cpc' \in [Clients -> Over \cup {"off", "welcome", "send", "ready", "literal", "crlf",
                                            "answer"}]
        BY <1>3, <2>1 DEF Over
      <3>2. ceof' \in [Clients -> BOOLEAN] /\ \A d \in Clients : ceof'[d] <=> cpc'[d] \in Over
        BY <1>3, <2>1, <2>2 DEF SimInv, ClientTypes, Over
      <3>3. \A d \in Clients : cpc'[d] \in {"ready", "literal", "crlf", "answer"} => todo[d] # <<>>
        BY <2>2 DEF SimInv, ClientTypes
      <3>. QED  BY <1>1, <2>1, <3>1, <3>2, <3>3 DEF SimInv, ClientTypes
    <2>6. SimTypes'
      BY <1>1, <2>1 DEF SimInv, SimTypes
    <2>7. PlaceInv'
      BY <1>1, <2>1, <2>2, <2>3 DEF SimInv, PlaceInv
    <2>8. OwnInv'
      BY <1>1, <1>2, <2>1, <2>2 DEF SimInv, OwnInv
    <2>9. LockInv'
      <3>1. ASSUME NEW d \in Clients, d # c, InStep(d)
            PROVE  InStep(d)'
        BY <1>1, <2>1, <2>2, <3>1 DEF InStep, Live
      <3>2. ~ clash /\ ~ odd[c] => InStep(c)'
        <4>1. ~ Live(c)'
          BY <1>1, <1>2, <2>1 DEF Live
        <4>. QED  BY <1>1, <1>5, <2>2, <4>1 DEF InStep, Waiting
      <3>. QED  BY <1>1, <3>1, <3>2 DEF SimInv, LockInv
    <2>. QED  BY <1>4, <2>5, <2>6, <2>7, <2>8, <2>9 DEF SimInv
  <1>. QED  BY <1>6, <1>7

\* A connection to accept finds a free number: there are as many as clients, and
\* no client has two.
LEMMA FreeFd ==
    ASSUME SimInv, NEW c \in Clients, \A g \in Fds : tab[g] # c
    PROVE  \E g \in Fds : tab[g] = none
  <1>. SUFFICES ASSUME \A g \in Fds : tab[g] # none PROVE FALSE
    OBVIOUS
  <1>1. tab \in [Fds -> Clients \ {c}]
    BY DEF SimInv, SimTypes
  <1>2. IsFiniteSet(Clients \ {c}) /\ Cardinality(Clients \ {c}) = Cardinality(Clients) - 1
    BY NsimAssumption, FS_RemoveElement
  <1>3. Cardinality(Clients \ {c}) < Cardinality(Fds)
    BY <1>2, FdsFacts
  <1>4. PICK f, g \in Fds : f # g /\ tab[f] = tab[g]
    BY <1>1, <1>2, <1>3, FdsFacts, FS_PigeonHole
  <1>. QED  BY <1>4 DEF SimInv, PlaceInv

\* The connection that waited longest gets a number nobody has, and a thread.
LEMMA AcceptKeeps ==
    ASSUME SimInv, Accept
    PROVE  SimInv'
  <1>. USE DEF clientVars
  <1>1. PICK c : c = Head(backlog)
    OBVIOUS
  <1>2. PICK f : f = Min({g \in Fds : tab[g] = none})
    OBVIOUS
  <1>3. PICK r : r = [NoThread EXCEPT !.pc = "created"]
    OBVIOUS
  <1>4. /\ up /\ backlog # <<>> /\ tab' = [tab EXCEPT ![f] = c] /\ slot' = f
        /\ th' = [th EXCEPT ![c] = r] /\ backlog' = Tail(backlog)
        /\ UNCHANGED <<cpc, todo, c2s, s2c, ceof, seof, turn, odd, stray, up, index, sent, clash, cut>>
    BY <1>1, <1>2, <1>3 DEF Accept
  <1>5. /\ backlog \in Seq(Clients) /\ Len(backlog) \in Nat \ {0} /\ c = backlog[1]
        /\ DOMAIN backlog = 1 .. Len(backlog)
        /\ backlog' \in Seq(Clients) /\ DOMAIN backlog' = 1 .. Len(backlog) - 1
        /\ \A i \in 1 .. Len(backlog) - 1 : backlog'[i] = backlog[i + 1]
    BY <1>1, <1>4 DEF SimInv, SimTypes
  <1>6. /\ 1 \in DOMAIN backlog
        /\ \A i \in DOMAIN backlog' : /\ i + 1 \in DOMAIN backlog /\ backlog'[i] = backlog[i + 1]
                                      /\ i + 1 # 1 /\ i \in Nat
        /\ \A i \in DOMAIN backlog : i = 1 \/ (i - 1 \in DOMAIN backlog' /\ backlog'[i - 1] = backlog[i])
    BY <1>5
  <1>a. c = backlog[1] /\ 1 \in DOMAIN backlog /\ \A i \in DOMAIN backlog : backlog[i] \in Clients
    BY <1>5, <1>6
  <1>7. /\ c \in Clients /\ th[c].pc = "none" /\ cpc[c] # "off" /\ \A g \in Fds : tab[g] # c
    BY <1>a DEF SimInv, PlaceInv
  <1>b. \A i \in DOMAIN backlog : backlog[i] = backlog[1] => i = 1
    BY <1>a DEF SimInv, PlaceInv
  <1>8. \A i \in DOMAIN backlog' : backlog'[i] \in Clients /\ backlog'[i] # c
    BY <1>6, <1>a, <1>b
  <1>c. \E g \in Fds : tab[g] = none
    BY <1>7, FreeFd
  <1>d. PICK S : S = {g \in Fds : tab[g] = none}
    OBVIOUS
  <1>e. S \subseteq Fds /\ S # {} /\ f = Min(S)
    BY <1>2, <1>c, <1>d
  <1>f. f \in S
    BY <1>e, MinFacts
  <1>9. f \in Fds /\ tab[f] = none /\ c # none
    BY <1>7, <1>d, <1>f, NsimAssumption
  <1>10. tab'[f] = c /\ (\A g \in Fds \ {f} : tab'[g] = tab[g]) /\ tab' \in [Fds -> Clients \cup {none}]
    BY <1>4, <1>7, <1>9 DEF SimInv, SimTypes
  <1>11. r \in Thread /\ r.pc = "created" /\ r.on = none
    <2>1. PICK n : n = NoThread
      OBVIOUS
    <2>2. n \in Thread /\ n.on = none
      BY <2>1 DEF NoThread, Thread, ThreadLabels
    <2>3. "created" \in ThreadLabels
      BY DEF ThreadLabels
    <2>4. r = [n EXCEPT !.pc = "created"]
      BY <1>3, <2>1
    <2>. QED  BY <2>2, <2>3, <2>4 DEF Thread
  <1>12. /\ th'[c] = r /\ (\A u \in Clients \ {c} : th'[u] = th[u]) /\ th' \in [Clients -> Thread]
    BY <1>4, <1>7, <1>11 DEF SimInv, SimTypes
  <1>13. ClientTypes'
    BY <1>4 DEF SimInv, ClientTypes
  <1>14. SimTypes'
    <2>1. \A t \in Clients : /\ th'[t].pc # "none" => up' /\ slot' \in Fds
                             /\ th'[t].pc \in Serving => th'[t].fd \in Fds
                             /\ th'[t].pc = "created" => th'[t].on = none
                             /\ th'[t].pc = "receive" => th'[t].on \in Clients
                             /\ th'[t].pc \in {"compare", "increment", "respond"} =>
                                   th'[t].cmd \in DOMAIN Queue
      BY <1>4, <1>7, <1>9, <1>11, <1>12 DEF SimInv, SimTypes, Serving
    <2>. QED  BY <1>4, <1>5, <1>9, <1>10, <1>12, <2>1 DEF SimInv, SimTypes
  <1>15. PlaceInv'
    <2>1. \A i, j \in DOMAIN backlog' : backlog'[i] = backlog'[j] => i = j
      <3>. SUFFICES ASSUME NEW i \in DOMAIN backlog', NEW j \in DOMAIN backlog', backlog'[i] = backlog'[j]
                    PROVE  i = j
        OBVIOUS
      <3>1. i + 1 = j + 1
        BY <1>6 DEF SimInv, PlaceInv
      <3>. QED  BY <1>6, <3>1
    <2>2. \A i \in DOMAIN backlog' : /\ cpc'[backlog'[i]] # "off" /\ th'[backlog'[i]].pc = "none"
                                     /\ \A g \in Fds : tab'[g] # backlog'[i]
      <3>. SUFFICES ASSUME NEW i \in DOMAIN backlog'
                    PROVE  /\ cpc[backlog'[i]] # "off" /\ th'[backlog'[i]].pc = "none"
                           /\ \A g \in Fds : tab'[g] # backlog'[i]
        BY <1>4
      <3>1. /\ cpc[backlog'[i]] # "off" /\ th[backlog'[i]].pc = "none"
            /\ \A g \in Fds : tab[g] # backlog'[i]
        BY <1>6 DEF SimInv, PlaceInv
      <3>. QED  BY <1>8, <1>10, <1>12, <3>1
    <2>3. \A g, h \in Fds : tab'[g] # none /\ tab'[g] = tab'[h] => g = h
      BY <1>7, <1>10 DEF SimInv, PlaceInv
    <2>4. \A d \in Clients : cpc'[d] = "off" => th'[d].pc = "none" /\ \A g \in Fds : tab'[g] # d
      BY <1>4, <1>7, <1>10, <1>12 DEF SimInv, PlaceInv
    <2>. QED  BY <1>4, <2>1, <2>2, <2>3, <2>4 DEF PlaceInv
  <1>16. IndexInv'
    BY <1>4, <1>7, <1>11, <1>12, <1>14, ThreadIndex
  <1>17. OwnInv'
    <2>. SUFFICES ASSUME ~ clash PROVE OwnInv'
      BY <1>4 DEF OwnInv
    <2>1. \A t \in Clients : th'[t].pc \in Serving => tab'[th'[t].fd] = t /\ th'[t].on \in {none, t}
      <3>. SUFFICES ASSUME NEW t \in Clients, th'[t].pc \in Serving
                    PROVE  tab'[th'[t].fd] = t /\ th'[t].on \in {none, t}
        OBVIOUS
      <3>1. t # c /\ th'[t] = th[t]
        BY <1>11, <1>12 DEF Serving
      <3>2. th[t].fd \in Fds /\ tab[th[t].fd] = t /\ th[t].on \in {none, t}
        BY <3>1, OwnFacts
      <3>. QED  BY <1>9, <1>10, <3>1, <3>2, NsimAssumption
    <2>2. \A t \in Clients : th'[t].pc = "created" => \E g \in Fds : tab'[g] = t
      <3>. SUFFICES ASSUME NEW t \in Clients, t # c, th[t].pc = "created"
                    PROVE  \E g \in Fds : tab'[g] = t
        BY <1>9, <1>10, <1>12
      <3>1. PICK g \in Fds : tab[g] = t
        BY DEF SimInv, OwnInv
      <3>. QED  BY <1>9, <1>10, <3>1, NsimAssumption
    <2>3. \A g \in Fds : tab'[g] # none => th'[tab'[g]].pc \in Serving \cup {"created"}
      <3>. SUFFICES ASSUME NEW g \in Fds, tab'[g] # none
                    PROVE  th'[tab'[g]].pc \in Serving \cup {"created"}
        OBVIOUS
      <3>1. CASE g = f
        BY <1>10, <1>11, <1>12, <3>1
      <3>2. CASE g # f
        <4>1. tab'[g] = tab[g] /\ tab[g] \in Clients \ {c}
          BY <1>7, <1>10, <3>2 DEF SimInv, SimTypes
        <4>2. th[tab[g]].pc \in Serving \cup {"created"}
          BY <4>1, NsimAssumption DEF SimInv, OwnInv
        <4>. QED  BY <1>12, <4>1, <4>2
      <3>. QED  BY <3>1, <3>2
    <2>4. ASSUME NEW d \in Clients, seof[d]
          PROVE  /\ cpc[d] # "off" /\ th'[d].pc \in {"none", "end"}
                 /\ \A i \in DOMAIN backlog' : backlog'[i] # d
      <3>1. /\ cpc[d] # "off" /\ th[d].pc \in {"none", "end"}
            /\ \A i \in DOMAIN backlog : backlog[i] # d
        BY <2>4 DEF SimInv, OwnInv
      <3>2. d # c
        BY <1>5, <1>6, <3>1
      <3>. QED  BY <1>6, <1>12, <3>1, <3>2
    <2>. QED  BY <1>4, <2>1, <2>2, <2>3, <2>4 DEF OwnInv
  <1>18. LockInv'
    <2>1. ASSUME NEW d \in Clients, d # c, InStep(d)
          PROVE  InStep(d)'
      <3>1. (\E i \in DOMAIN backlog' : backlog'[i] = d) <=> (\E i \in DOMAIN backlog : backlog[i] = d)
        <4>1. ASSUME NEW i \in DOMAIN backlog, backlog[i] = d
              PROVE  i - 1 \in DOMAIN backlog' /\ backlog'[i - 1] = d
          BY <1>5, <1>6, <2>1, <4>1
        <4>. QED  BY <1>6, <4>1
      <3>2. Live(d)' <=> Live(d)
        BY <1>12, <2>1, <3>1 DEF Live
      <3>. QED  BY <1>4, <1>12, <2>1, <3>2 DEF InStep
    <2>2. ASSUME InStep(c)
          PROVE  InStep(c)'
      <3>1. Live(c)
        BY <1>5, <1>6 DEF Live
      <3>2. cpc[c] = "welcome" /\ s2c[c] = <<>> /\ c2s[c] = <<>> /\ sent[c] = turn[c]
        BY <1>7, <2>2, <3>1 DEF InStep, Waiting
      <3>. QED  BY <1>4, <1>11, <1>12, <3>2 DEF InStep, Waiting, Answering
    <2>. QED  BY <1>4, <2>1, <2>2 DEF SimInv, LockInv
  <1>. QED  BY <1>13, <1>14, <1>15, <1>16, <1>17, <1>18 DEF SimInv

\* close() at the end of a thread: as long as no thread has found another's
\* connection, it is its own.
LEMMA CloseFdKeeps ==
    ASSUME SimInv, NEW t \in Clients, CloseFd(t)
    PROVE  SimInv'
  <1>1. PICK f : f = th[t].fd
    OBVIOUS
  <1>2. PICK r : r = [NoThread EXCEPT !.pc = "end"]
    OBVIOUS
  <1>3. /\ th[t].pc = "close" /\ tab' = [tab EXCEPT ![f] = none] /\ th' = [th EXCEPT ![t] = r]
        /\ HangUp
        /\ UNCHANGED <<cpc, todo, c2s, s2c, ceof, turn, odd, stray, up, backlog, slot, index, sent,
                       clash, cut>>
    BY <1>1, <1>2 DEF CloseFd
  <1>4. th[t].pc \in Serving /\ th[t].pc # "none"
    BY <1>3 DEF Serving
  <1>5. f \in Fds /\ up /\ slot \in Fds /\ (~ clash => tab[f] = t)
    BY <1>1, <1>4, OwnFacts DEF SimInv, SimTypes
  <1>6. tab'[f] = none /\ (\A g \in Fds \ {f} : tab'[g] = tab[g]) /\ tab' \in [Fds -> Clients \cup {none}]
    BY <1>3, <1>5 DEF SimInv, SimTypes
  <1>7. r \in Thread /\ r.pc = "end" /\ r.on = none
    <2>1. PICK n : n = NoThread
      OBVIOUS
    <2>2. n \in Thread /\ n.on = none
      BY <2>1 DEF NoThread, Thread, ThreadLabels
    <2>3. "end" \in ThreadLabels
      BY DEF ThreadLabels
    <2>4. r = [n EXCEPT !.pc = "end"]
      BY <1>2, <2>1
    <2>. QED  BY <2>2, <2>3, <2>4 DEF Thread
  <1>8. th'[t] = r /\ (\A u \in Clients \ {t} : th'[u] = th[u]) /\ th' \in [Clients -> Thread]
    BY <1>3, <1>7 DEF SimInv, SimTypes
  <1>9. t # none /\ cpc[t] # "off" /\ \A i \in DOMAIN backlog : backlog[i] \in Clients \ {t}
    BY <1>4, NsimAssumption DEF SimInv, PlaceInv, SimTypes
  <1>10. seof' \in [Clients -> BOOLEAN]
    BY <1>3 DEF HangUp, SimInv, ClientTypes
  <1>11. ClientTypes'
    BY <1>3, <1>10 DEF SimInv, ClientTypes
  <1>12. SimTypes'
    <2>1. \A u \in Clients : /\ th'[u].pc # "none" => up' /\ slot' \in Fds
                             /\ th'[u].pc \in Serving => th'[u].fd \in Fds
                             /\ th'[u].pc = "created" => th'[u].on = none
                             /\ th'[u].pc = "receive" => th'[u].on \in Clients
                             /\ th'[u].pc \in {"compare", "increment", "respond"} =>
                                   th'[u].cmd \in DOMAIN Queue
      BY <1>3, <1>5, <1>7, <1>8 DEF SimInv, SimTypes, Serving
    <2>. QED  BY <1>3, <1>6, <1>8, <2>1 DEF SimInv, SimTypes
  <1>13. PlaceInv'
    <2>1. \A i \in DOMAIN backlog : /\ cpc[backlog[i]] # "off" /\ th'[backlog[i]].pc = "none"
                                    /\ \A g \in Fds : tab'[g] # backlog[i]
      <3>1. \A i \in DOMAIN backlog : /\ cpc[backlog[i]] # "off" /\ th[backlog[i]].pc = "none"
                                      /\ \A g \in Fds : tab[g] # backlog[i]
        BY DEF SimInv, PlaceInv
      <3>. QED  BY <1>6, <1>8, <1>9, <3>1, NsimAssumption
    <2>2. \A g, h \in Fds : tab'[g] # none /\ tab'[g] = tab'[h] => g = h
      BY <1>6 DEF SimInv, PlaceInv
    <2>3. \A d \in Clients : cpc[d] = "off" => th'[d].pc = "none" /\ \A g \in Fds : tab'[g] # d
      BY <1>6, <1>8, <1>9, NsimAssumption DEF SimInv, PlaceInv
    <2>. QED  BY <1>3, <2>1, <2>2, <2>3 DEF SimInv, PlaceInv
  <1>14. IndexInv'
    BY <1>3, <1>7, <1>8, <1>12, ThreadIndex
  <1>15. OwnInv'
    <2>. SUFFICES ASSUME ~ clash PROVE OwnInv'
      BY <1>3 DEF OwnInv
    <2>1. \A u \in Clients : th'[u].pc \in Serving => tab'[th'[u].fd] = u /\ th'[u].on \in {none, u}
      <3>. SUFFICES ASSUME NEW u \in Clients, th'[u].pc \in Serving
                    PROVE  tab'[th'[u].fd] = u /\ th'[u].on \in {none, u}
        OBVIOUS
      <3>1. u # t /\ th'[u] = th[u]
        BY <1>7, <1>8 DEF Serving
      <3>2. th[u].fd \in Fds /\ tab[th[u].fd] = u /\ th[u].on \in {none, u}
        BY <3>1, OwnFacts
      <3>. QED  BY <1>5, <1>6, <3>1, <3>2
    <2>2. \A u \in Clients : th'[u].pc = "created" => \E g \in Fds : tab'[g] = u
      <3>. SUFFICES ASSUME NEW u \in Clients, u # t, th[u].pc = "created"
                    PROVE  \E g \in Fds : tab'[g] = u
        BY <1>7, <1>8
      <3>1. PICK g \in Fds : tab[g] = u
        BY DEF SimInv, OwnInv
      <3>. QED  BY <1>5, <1>6, <3>1
    <2>3. \A g \in Fds : tab'[g] # none => th'[tab'[g]].pc \in Serving \cup {"created"}
      <3>. SUFFICES ASSUME NEW g \in Fds, tab'[g] # none
                    PROVE  th'[tab'[g]].pc \in Serving \cup {"created"}
        OBVIOUS
      <3>1. g # f /\ tab'[g] = tab[g] /\ tab[g] \in Clients
        BY <1>6 DEF SimInv, SimTypes
      <3>2. tab[g] # t
        BY <1>5, <1>9, <3>1 DEF SimInv, PlaceInv
      <3>3. th[tab[g]].pc \in Serving \cup {"created"}
        BY <3>1, NsimAssumption DEF SimInv, OwnInv
      <3>. QED  BY <1>8, <3>1, <3>2, <3>3
    <2>4. ASSUME NEW d \in Clients, d # t, Held(d, tab, th)
          PROVE  Held(d, tab', th')
      <3>1. CASE \E g \in Fds : tab[g] = d
        <4>1. PICK g \in Fds : tab[g] = d
          BY <3>1
        <4>2. tab'[g] = d
          BY <1>5, <1>6, <2>4, <4>1
        <4>. QED  BY <4>2 DEF Held
      <3>2. CASE \E u \in Clients : th[u].pc = "receive" /\ th[u].on = d
        <4>1. PICK u \in Clients : th[u].pc = "receive" /\ th[u].on = d
          BY <3>2
        <4>2. th'[u].pc = "receive" /\ th'[u].on = d
          BY <1>3, <1>8, <4>1
        <4>. QED  BY <4>2 DEF Held
      <3>. QED  BY <2>4, <3>1, <3>2 DEF Held
    <2>5. \A d \in Clients \ {t} : seof'[d] = seof[d]
      BY <1>3, <2>4 DEF HangUp, SimInv, ClientTypes
    <2>6. \A d \in Clients : seof'[d] => /\ cpc[d] # "off" /\ th'[d].pc \in {"none", "end"}
                                         /\ \A i \in DOMAIN backlog : backlog[i] # d
      <3>1. \A d \in Clients \ {t} : seof'[d] => /\ cpc[d] # "off" /\ th'[d].pc \in {"none", "end"}
                                                 /\ \A i \in DOMAIN backlog : backlog[i] # d
        BY <1>8, <2>5 DEF SimInv, OwnInv
      <3>2. cpc[t] # "off" /\ th'[t].pc = "end" /\ \A i \in DOMAIN backlog : backlog[i] # t
        BY <1>7, <1>8, <1>9
      <3>. QED  BY <3>1, <3>2
    <2>. QED  BY <1>3, <2>1, <2>2, <2>3, <2>6 DEF OwnInv
  <1>16. LockInv'
    <2>1. ASSUME NEW d \in Clients, d # t, InStep(d)
          PROVE  InStep(d)'
      BY <1>3, <1>8, <2>1 DEF InStep, Live
    <2>2. ASSUME InStep(t)
          PROVE  InStep(t)'
      <3>1. ~ Live(t)' /\ ~ Live(t) /\ th'[t].pc = "end"
        BY <1>3, <1>7, <1>8, <1>9 DEF Live
      <3>. QED  BY <1>3, <2>2, <3>1 DEF InStep
    <2>. QED  BY <1>3, <2>1, <2>2 DEF SimInv, LockInv
  <1>. QED  BY <1>11, <1>12, <1>13, <1>14, <1>15, <1>16 DEF SimInv

-----------------------------------------------------------------------------
\* The invariant holds when the simulator starts.
LEMMA InitSim == Init => SimInv
  <1>. SUFFICES ASSUME Init PROVE SimInv
    OBVIOUS
  <1>. USE DEF Init, ClientInit
  <1>1. NoThread \in Thread /\ NoThread.pc = "none"
    BY DEF NoThread, Thread, ThreadLabels
  <1>2. \A t \in Clients : th[t].pc = "none"
    BY <1>1
  <1>3. todo \in [Clients -> Seq(Commands)]
    BY PlanAssumption DEF Commands
  <1>4. ClientTypes
    BY <1>3 DEF ClientTypes, Over
  <1>5. SimTypes
    <2>1. backlog \in Seq(Clients)
      OBVIOUS
    <2>2. th \in [Clients -> Thread]
      BY <1>1
    <2>3. /\ up \in BOOLEAN /\ slot \in Fds \cup {0} /\ tab \in [Fds -> Clients \cup {none}]
          /\ index \in [DOMAIN Queue -> Nat] /\ sent \in [Clients -> Nat]
          /\ clash \in BOOLEAN /\ cut \in [Clients -> BOOLEAN]
      OBVIOUS
    <2>. QED  BY ONLY <1>2, <2>1, <2>2, <2>3 DEF SimTypes, Serving
  <1>6. PlaceInv
    BY <1>2, NsimAssumption DEF PlaceInv
  <1>7. IndexInv
    <2>. SUFFICES ASSUME NEW k \in DOMAIN Queue
                  PROVE  index[k] + Cardinality(Behind(k)) <= Len(Queue[k]) + Cardinality(Clients) - 2
      BY DEF IndexInv
    <2>1. Behind(k) = {}
      BY <1>2 DEF Behind
    <2>2. Cardinality(Behind(k)) = 0
      BY <2>1, FS_EmptySet
    <2>3. index[k] = 0
      OBVIOUS
    <2>. QED  BY <2>2, <2>3, BehindFacts
  <1>8. OwnInv
    BY <1>2 DEF OwnInv, Serving
  <1>9. LockInv
    BY <1>2 DEF LockInv, InStep, Live, Waiting
  <1>. QED  BY <1>4, <1>5, <1>6, <1>7, <1>8, <1>9 DEF SimInv

\* The invariant depends on the variables only.
LEMMA StutterSim == SimInv /\ UNCHANGED vars => SimInv'
  <1>. SUFFICES ASSUME SimInv, UNCHANGED vars PROVE SimInv'
    OBVIOUS
  <1>. USE DEF vars, clientVars, simVars
  <1>1. ClientTypes' /\ SimTypes'
    BY DEF SimInv, ClientTypes, SimTypes
  <1>2. PlaceInv' /\ OwnInv'
    BY DEF SimInv, PlaceInv, OwnInv
  <1>3. IndexInv'
    BY SameBehind DEF SimInv, IndexInv
  <1>4. LockInv'
    BY DEF SimInv, LockInv, InStep, Live
  <1>. QED  BY <1>1, <1>2, <1>3, <1>4 DEF SimInv

\* Every step of a client, of main() and of a thread keeps the invariant.
LEMMA NextSim == SimInv /\ Next => SimInv'
  <1>. SUFFICES ASSUME SimInv, Next PROVE SimInv'
    OBVIOUS
  <1>1. CASE Accept
    BY <1>1, AcceptKeeps
  <1>2. CASE MainFails
    BY <1>2, DiesKeeps DEF MainFails
  <1>3. ASSUME NEW c \in Clients, Connect(c)
        PROVE  SimInv'
    BY <1>3, ConnectKeeps
  <1>4. ASSUME NEW c \in Clients, ClientStep(c), UNCHANGED simVars
        PROVE  SimInv'
    BY <1>4, ClientKeeps
  <1>5. ASSUME NEW c \in Clients, ThreadStep(c)
        PROVE  SimInv'
    <2>1. CASE Greet(c)
      BY <2>1, SendBackKeeps DEF Greet
    <2>2. CASE Respond(c)
      <3>1. th[c].pc = "respond" /\ \E next \in {"recv", "close"} : SendBack(c, next)
        BY <2>2 DEF Respond
      <3>. QED  BY <3>1, SendBackKeeps
    <2>3. CASE Faults(c)
      BY <2>3, DiesKeeps DEF Faults
    <2>. QED  BY <1>5, <2>1, <2>2, <2>3, ReadSlotKeeps, RecvCallKeeps, RecvKeeps, RecvEndsKeeps,
                 GetCmdQueIndexKeeps, CompareIndexKeeps, CmdQueIndexIncrementKeeps, CloseFdKeeps
                 DEF ThreadStep
  <1>. QED  BY <1>1, <1>2, <1>3, <1>4, <1>5 DEF Next

-----------------------------------------------------------------------------
\* The inductive invariant: places of connections, indexes with the threads about to
\* move them, descriptors with their threads, and each client in step with its thread.
THEOREM SimInvariance == Spec => []SimInv
  <1>1. SimInv /\ [Next]_vars => SimInv'
    BY NextSim, StutterSim
  <1>. QED  BY <1>1, InitSim, PTL DEF Spec

\* For any number of threads: mapCmdQueCount is behind a queue's end by no more than
\* the threads but one, although it is compared and changed with no lock.
THEOREM IndexesBounded == Spec => []IndexBound
  <1>1. SimInv => IndexBound
    <2>. SUFFICES ASSUME SimInv, NEW k \in DOMAIN Queue
                  PROVE  index[k] <= Len(Queue[k]) - 1 + (Cardinality(Clients) - 1)
      BY DEF IndexBound
    <2>1. index[k] \in Nat /\ index[k] + Cardinality(Behind(k)) <= Len(Queue[k]) + Cardinality(Clients) - 2
      BY DEF SimInv, SimTypes, IndexInv
    <2>. QED  BY <2>1, BehindFacts
  <1>. QED  BY <1>1, SimInvariance, PTL

\* For any number of connections: as long as every thread reads its own descriptor
\* from the one variable of the accept loop, reusing numbers mixes nobody up.
THEOREM ConnectionsKept == Spec => []OwnConnection
  <1>1. SimInv => OwnConnection
    BY DEF SimInv, OwnInv, OwnConnection
  <1>. QED  BY <1>1, SimInvariance, PTL

\* For any plans and any queues: a client that reads a whole answer, to a request that
\* was received whole, reads the answer to its own command.
THEOREM AnswersOwn == Spec => []OwnAnswer
  <1>1. SimInv => OwnAnswer
    BY DEF SimInv, LockInv, OwnAnswer
  <1>. QED  BY <1>1, SimInvariance, PTL
=============================================================================
