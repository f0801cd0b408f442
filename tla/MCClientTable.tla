---------------------------- MODULE MCClientTable ---------------------------
(* ClientTable with one connection more than the table has room for.       *)
EXTENDS ClientTable, TLC
=============================================================================
