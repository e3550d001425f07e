------------------------------- MODULE MCNsim -------------------------------
(* One session that moves a mail or an empty one, and one that only logs out. *)
(* APPEND is answered from its own queue, mails and LOGOUT from a shared one.  *)
EXTENDS Nsim
CONSTANTS c1, c2

Append1(literal) == << [cmd |-> "APPEND", literal |-> literal] >>

MCPlans == (c1 :> {Append1(<<>>), Append1(<<"text", "CR", "LF">>)})
        @@ (c2 :> {<< [cmd |-> "LOGOUT", literal |-> <<>>] >>})

MCQueue == ("APPEND" :> <<"0">>) @@ ("OTHER" :> <<"0", "2">>)
=============================================================================
