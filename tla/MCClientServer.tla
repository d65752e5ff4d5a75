---------------------------- MODULE MCClientServer ----------------------------
(* A small instance of ClientServer: one client sends two commands, the     *)
(* other one.                                                               *)
EXTENDS ClientServer, TLC

CONSTANTS c1, c2

MCClients == {c1, c2}

MCMaxCommands == (c1 :> 2) @@ (c2 :> 1)

=============================================================================
