---------------------------- MODULE MCDhcpServer ----------------------------
(* TLC instance of the DHCP server. *)
EXTENDS DhcpServer
=============================================================================
