----------------------------- MODULE MCMailbox -----------------------------
(* Instance of Mailbox for TLC: eth1, tcpip_thread, and a caller above and *)
(* one below it.                                                           *)
EXTENDS Mailbox

===========================================================================
