------------------------------ MODULE MCGateway ------------------------------
(* Model values for Gateway: two tables and a name that is too long for one,  *)
(* two command-line sessions.                                                 *)
EXTENDS Gateway

CONSTANTS s1, s2

MCTables == {<<"a">>, <<"b">>, <<"a", "b">>}
=============================================================================
