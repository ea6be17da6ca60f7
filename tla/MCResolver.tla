----------------------------- MODULE MCResolver -----------------------------
(***************************************************************************)
(* Instance of Resolver for TLC.                                            *)
(***************************************************************************)
EXTENDS Resolver, TLC

MCHosts == {"example", "tor", "bad", "ip6"}
MCPuny == [example |-> "a", tor |-> "t", bad |-> "invalid", ip6 |-> "i"]
MCLower == [a |-> "a", A |-> "a", b |-> "b", t |-> "t", i |-> "i"]
MCText == [ip4 |-> "ip4", ip6 |-> "ip6", mapped |-> "ip4"]

Server(protocol, timeout, name) ==
  [protocol |-> protocol, timeout |-> timeout, name |-> name]
MCDefaultServers == <<Server("udp", 5, "s1"), Server("udp", 5, "s2")>>
MCConfigServers == ToSet(MCDefaultServers) \cup {Server("doh", 0, "s3")}

MCAttemptsArgs == {-1, 1}

RR(name, type, data) == [name |-> name, type |-> type, class |-> "IN", data |-> data]
Reply(type, id, rcode, answer_) ==
  [response |-> TRUE, id |-> id, rcode |-> rcode, aa |-> FALSE, ra |-> TRUE,
   question |-> <<[name |-> "A", type |-> type, class |-> "IN"]>>, answer |-> answer_]

\* A usable answer and NXDOMAIN; an answer with an IPv4-mapped address and one
\* of the other family; and a failure whose ID is right for DNS over HTTPS only.
MCReplies ==
  {Reply("A", 7, "NOERROR", <<RR("a", "CNAME", "b"), RR("b", "A", "ip4")>>),
   Reply("A", 7, "NXDOMAIN", <<>>),
   Reply("AAAA", 7, "NOERROR", <<RR("a", "AAAA", "ip6"), RR("A", "AAAA", "mapped")>>),
   Reply("AAAA", 7, "NOERROR", <<RR("a", "A", "ip4")>>),
   Reply("AAAA", 0, "SERVFAIL", <<>>)}

\* Fewer replies for the liveness properties.
MCFewReplies == {r \in MCReplies : r.rcode # "NOERROR"}
=============================================================================
