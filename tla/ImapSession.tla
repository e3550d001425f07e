---------------------------- MODULE ImapSession ----------------------------
(***************************************************************************)
(* The IMAP client of the migration process (zn_cimap.cpp): a session is a *)
(* connection and a list of commands, and every command is a perform() of  *)
(* writes and single reads.  What a client writes is a stream of tokens in *)
(* which CR and LF stand for themselves; an answer is two tokens, its tag  *)
(* and the rest, so that one read may return part of it.                   *)
(***************************************************************************)
EXTENDS Naturals, Sequences, SequencesExt

CONSTANTS Clients,
          Plans       \* the sessions each client may have: the commands, with the
                      \* literal of an APPEND
\* A command that is no APPEND has no literal; a mail whose file was not found is
\* an APPEND of the empty one.
ASSUME PlanAssumption ==
    \A c \in Clients : \A p \in Plans[c] :
        p \in Seq([cmd : {"LOGIN", "CREATE", "APPEND", "LOGOUT"},
                   literal : {<<>>, <<"text">>, <<"text", "CR", "LF">>}])

VARIABLES
    cpc, todo,        \* where each client is in perform(), the commands left
    c2s, s2c,         \* what is on its way to the server and to the client
    ceof, seof,       \* the connection was closed at that end
    turn,             \* the number of the answer that is due to the client
    odd, stray        \* history: a read returned part of an answer, or the server had
                      \* answered part of a request; before that, one returned anything
                      \* but its own answer

clientVars == <<cpc, todo, c2s, s2c, ceof, seof, turn, odd, stray>>

CRLF == <<"CR", "LF">>
Over == {"done", "broken"}

ClientInit == /\ cpc = [c \in Clients |-> "off"]
              /\ todo \in {f \in [Clients -> UNION {Plans[c] : c \in Clients}] :
                           \A c \in Clients : f[c] \in Plans[c]}
              /\ c2s = [c \in Clients |-> <<>>] /\ s2c = [c \in Clients |-> <<>>]
              /\ ceof = [c \in Clients |-> FALSE] /\ seof = [c \in Clients |-> FALSE]
              /\ turn = [c \in Clients |-> 0]
              /\ odd = [c \in Clients |-> FALSE] /\ stray = [c \in Clients |-> FALSE]

ClientGoto(c, label) == cpc' = [cpc EXCEPT ![c] = label]

\* The end of a session; what was on its way to the client is gone.
Leave(c, label) == /\ ClientGoto(c, label)
                   /\ ceof' = [ceof EXCEPT ![c] = TRUE]
                   /\ s2c' = [s2c EXCEPT ![c] = <<>>]

\* write(): what is written after the server closed is lost, or kills the process.
WriteOrBreak(c, tokens, next) ==
    /\ \/ /\ c2s' = IF seof[c] THEN c2s ELSE [c2s EXCEPT ![c] = @ \o tokens]
          /\ turn' = [turn EXCEPT ![c] = IF next = "crlf" THEN @ ELSE @ + 1]
          /\ ClientGoto(c, next) /\ UNCHANGED <<s2c, ceof>>
       \/ seof[c] /\ Leave(c, "broken") /\ UNCHANGED <<c2s, turn>>
    /\ UNCHANGED <<todo, seof, odd, stray>>

\* The server sends an answer in one piece.
AnswerNo(k) == << <<k, "tag">>, <<k, "rest">> >>

\* The first n tokens that have come are read, as the answer that is waited for.
Take(c, n) ==
    LET got == SubSeq(s2c[c], 1, n)
    IN /\ s2c' = [s2c EXCEPT ![c] = SubSeq(@, n + 1, Len(@))]
       /\ odd' = [odd EXCEPT ![c] = @ \/ Last(got)[2] = "tag"]
       /\ stray' = [stray EXCEPT ![c] = @ \/ (~ odd'[c] /\ got # AnswerNo(turn[c]))]
       /\ UNCHANGED <<c2s, ceof, seof>>

\* read(): some of what has come, nothing when the server has closed, or an error
\* that becomes an exception.  No answer is looked at (_check_response).
ReadOrBreak(c, next, left) ==
    \/ /\ \/ \E n \in 1 .. Len(s2c[c]) : Take(c, n)
          \/ s2c[c] = <<>> /\ seof[c] /\ UNCHANGED <<c2s, s2c, ceof, seof, odd, stray>>
       /\ UNCHANGED turn
       /\ ClientGoto(c, next) /\ todo' = [todo EXCEPT ![c] = left]
    \/ /\ seof[c] /\ Leave(c, "broken")
       /\ UNCHANGED <<todo, c2s, seof, turn, odd, stray>>

-----------------------------------------------------------------------------
\* zn_cimap_cmd_welcome
Welcome(c) == /\ cpc[c] = "welcome" /\ ReadOrBreak(c, "send", todo[c])

\* The line of a command; LOGIN, CREATE and LOGOUT wait for one answer, APPEND
\* first for leave to send its literal.
SendLine(c) ==
    /\ cpc[c] = "send" /\ todo[c] # <<>>
    /\ LET do == Head(todo[c])
       IN WriteOrBreak(c, <<do.cmd>> \o CRLF, IF do.cmd = "APPEND" THEN "ready" ELSE "answer")

\* Mutant: the literal is sent without waiting for leave.
ReadyAtOnce(c) ==
    /\ cpc[c] = "ready" /\ ClientGoto(c, "literal")
    /\ UNCHANGED <<todo, c2s, s2c, ceof, seof, turn, odd, stray>>

\* Mutant: the answer to an empty literal is awaited.
ReadyWaits(c) ==
    /\ cpc[c] = "ready"
    /\ ReadOrBreak(c, IF Head(todo[c]).literal = <<>> THEN "answer" ELSE "literal", todo[c])

\* Any answer is leave.  write() of an empty literal returns 0, and perform()
\* returns at once, without the line end that should follow.
Ready(c) ==
    /\ cpc[c] = "ready"
    /\ IF Head(todo[c]).literal = <<>> THEN ReadOrBreak(c, "send", Tail(todo[c]))
                                       ELSE ReadOrBreak(c, "literal", todo[c])

\* The loop of writes.
SendLiteral(c) ==
    /\ cpc[c] = "literal"
    /\ WriteOrBreak(c, Head(todo[c]).literal, "crlf")

SendCRLF(c) ==
    /\ cpc[c] = "crlf"
    /\ WriteOrBreak(c, CRLF, "answer")

Answer(c) == /\ cpc[c] = "answer" /\ ReadOrBreak(c, "send", Tail(todo[c]))

\* LOGOUT reads again after a read that returned a tag and nothing else.
LogoutAgain(c) == /\ cpc[c] = "answer" /\ Head(todo[c]).cmd = "LOGOUT"
                  /\ s2c[c] # <<>> /\ Head(s2c[c])[2] = "tag" /\ Take(c, 1)
                  /\ UNCHANGED <<cpc, todo, turn>>

\* ~zn_cimap_session
CloseSession(c) == /\ cpc[c] = "send" /\ todo[c] = <<>>
                   /\ Leave(c, "done")
                   /\ UNCHANGED <<todo, c2s, seof, turn, odd, stray>>

ClientStep(c) == \/ Welcome(c) \/ SendLine(c) \/ Ready(c) \/ SendLiteral(c) \/ SendCRLF(c)
                 \/ Answer(c) \/ LogoutAgain(c) \/ CloseSession(c)

ClientTypeOK ==
    /\ cpc \in [Clients -> Over \cup {"off", "welcome", "send", "ready", "literal", "crlf",
                                      "answer"}]
    /\ \A c \in Clients : \E p \in Plans[c] : IsSuffix(todo[c], p)
    /\ \A c \in Clients : cpc[c] \in {"ready", "literal", "crlf", "answer"} => todo[c] # <<>>
    /\ \A c \in Clients : /\ Range(c2s[c]) \subseteq {"LOGIN", "CREATE", "APPEND", "LOGOUT",
                                                       "text", "CR", "LF"}
                          /\ ceof[c] <=> cpc[c] \in Over
    /\ seof \in [Clients -> BOOLEAN]
    /\ turn \in [Clients -> Nat]
    /\ odd \in [Clients -> BOOLEAN] /\ stray \in [Clients -> BOOLEAN]
=============================================================================
