-------------------------- MODULE MCResolverConfig --------------------------
(***************************************************************************)
(* Instance of ResolverConfig for TLC: a server with the default options, a  *)
(* server that the options reconfigure twice, and one default server.        *)
(***************************************************************************)
EXTENDS ResolverConfig

Addr(protocol) == [protocol |-> protocol]
Timeout(t) == [kind |-> "timeout", value |-> t]

MCAddresses == {Addr("udp")}
MCOptionLists == {<<>>, <<Timeout(0), Timeout(1)>>}
MCDefaultAddrs == <<Addr("udp"), Addr("udp")>>
=============================================================================
