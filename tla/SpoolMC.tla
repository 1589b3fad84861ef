------------------------------ MODULE SpoolMC ------------------------------
(* Model-checking instance of Spool: two writers race four appends through a *)
(* file that holds three records.                                            *)
EXTENDS Spool
=============================================================================
