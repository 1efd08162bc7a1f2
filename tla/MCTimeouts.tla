---------------------------- MODULE MCTimeouts ----------------------------
(* Timeouts with the order of the intervals of the board: tcpip_tcp_timer is
   the shortest, ip_reass_timer and dns_timer are equal, arp_timer is the
   longest.                                                                 *)
EXTENDS Timeouts

MCStartup == <<"ip", "arp", "dns">>
MCInterval == [h \in Handlers |-> CASE h = TCP -> 1
                                    [] h \in {"ip", "dns"} -> 2
                                    [] h = APP -> 3
                                    [] h = "arp" -> 4]
=============================================================================
