------------------------------ MODULE MCIngest ------------------------------
(* Small instances of Ingest.                                                *)
EXTENDS Ingest
=============================================================================
