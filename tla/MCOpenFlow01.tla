---------------------------- MODULE MCOpenFlow01 ----------------------------
(* Names for the switches of the run. *)
EXTENDS OpenFlow01

CONSTANTS d1
=============================================================================
