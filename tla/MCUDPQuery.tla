----------------------------- MODULE MCUDPQuery -----------------------------
(***************************************************************************)
(* Instance of UDPQuery for TLC: a message that fits the default response    *)
(* size, one that only fits an EDNS(0) response size, and queries with no    *)
(* OPT record, a zero-sized one, a usable one, and two of them.              *)
(***************************************************************************)
EXTENDS UDPQuery, TLC

CONSTANTS small, big

OPT(n) == [type |-> "OPT", size |-> n]
MCMsgs == {small, big}
MCSize == (small :> 512 @@ big :> 513 @@ Garbage :> 1)
MCExtras == {<<>>, <<OPT(0)>>, <<[type |-> "TXT", size |-> 0], OPT(1232)>>,
             <<OPT(512), OPT(1232)>>}
=============================================================================
