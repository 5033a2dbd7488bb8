---------------------------- MODULE MCDhcpServer ----------------------------
(***************************************************************************)
(* DhcpServer for TLC: three clients for two addresses, ticks modulo 12.   *)
(***************************************************************************)
EXTENDS DhcpServer

Macs == {"m1", "m2", "m3"}
=============================================================================
