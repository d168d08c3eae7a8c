---------------------------- MODULE MCEchoServer ----------------------------
(* EchoServer with two clients, lines with and without a newline. *)
EXTENDS EchoServer

MCClient == {"c1", "c2"}

MCLine == {<<"a", "b", "nl">>, <<"b", "a", "b">>}
=============================================================================
