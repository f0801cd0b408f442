---------------------------- MODULE MCShmChannel ----------------------------
(* ShmChannel with two displays that share a menu.                         *)
EXTENDS ShmChannel, TLC
CONSTANTS d1, d2, hello
=============================================================================
