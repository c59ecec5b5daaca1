---------------------------- MODULE MCCamHealth ----------------------------
(* Small instances of CamHealth.                                             *)
EXTENDS CamHealth
=============================================================================
