------------------------------ MODULE IngestMC ------------------------------
(* Model-checking instance of Ingest: two sensors, every message they can    *)
(* send, four messages per process life.                                     *)
EXTENDS Ingest
=============================================================================
