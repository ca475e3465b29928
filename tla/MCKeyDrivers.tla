---------------------------- MODULE MCKeyDrivers ----------------------------
(* Two keys; two processes that read events, one that counts presses.  *)
EXTENDS KeyDrivers
=============================================================================
