------------------------------ MODULE MCSyslog ------------------------------
(* Syslog for TLC.                                                         *)
EXTENDS Syslog
=============================================================================
