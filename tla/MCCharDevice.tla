---------------------------- MODULE MCCharDevice ----------------------------
(* CharDevice on small instances: files are named by what they are opened  *)
(* for, and a buffer has one to three bytes.                               *)
EXTENDS CharDevice, TLC
CONSTANTS w1, w2, r1, r2

\* No later step reads what a call returned, nor do the properties of the runs
\* that take this view, but for TypeOK, which has it an integer: states that
\* differ in it only are the same.  Every step changes pc, so that fairness sees
\* the same steps with it and without it.
WithoutResults == <<dev, sum, pc, call, pos>>
=============================================================================
