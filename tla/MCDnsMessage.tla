---------------------------- MODULE MCDnsMessage ----------------------------
(***************************************************************************)
(* The functions of DnsMessage, checked against their reference definitions  *)
(* over all small responses and address lists.                              *)
(***************************************************************************)
EXTENDS DnsInputs

\* Two spellings of one name, and two other names.
MCLower == [a |-> "a", A |-> "a", b |-> "b", c |-> "c"]
MCText == [ip4 |-> "ip4", ip6 |-> "ip6", mapped |-> "ip4"]
MCV6 == {"ip6", "ip6bis"}
MCAddrTexts == {"ip4", "ip4bis"} \cup MCV6

MCAsked == [name |-> "a", type |-> "A", class |-> "IN"]

RR(name, type, class, data) == [name |-> name, type |-> type, class |-> class, data |-> data]
MCRecords ==
  {RR(n, "CNAME", "IN", t) : n \in {"A", "b", "c"}, t \in {"a", "b", "c"}}
    \cup {RR(n, "A", "IN", "ip4") : n \in {"A", "b", "c"}}
    \cup {RR("b", "AAAA", "IN", "ip6"), RR("b", "A", "CH", "ip4")}
=============================================================================
