------------------------------ MODULE MCLogin ------------------------------
(* Login on a small instance.                                              *)
EXTENDS Login

MCTimeout     == 2
MCMaxConns    == 2
MCMaxCommands == 1

=============================================================================
