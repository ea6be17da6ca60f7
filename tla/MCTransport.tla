----------------------------- MODULE MCTransport -----------------------------
(***************************************************************************)
(* Instance of Transport for TLC: every protocol and an unknown one.          *)
(*                                                                         *)
(* A message fits the default response size or only an EDNS(0) one; both     *)
(* lengths need both length bytes of a frame.  Queries are at the limit of a *)
(* frame, and have no OPT record, a zero-sized one, a usable one, or two.    *)
(***************************************************************************)
EXTENDS Transport, TLC

CONSTANTS small, big

OPT(n) == [type |-> "OPT", size |-> n]
MCMsgs == {small, big}
MCSize == (small :> 512 @@ big :> 513 @@ Garbage :> 1)
MCExtras == {<<>>, <<OPT(0)>>, <<[type |-> "TXT", size |-> 0], OPT(1232)>>,
             <<OPT(512), OPT(1232)>>}
MCQuerySizes == {40, 65535, 65536}

\* Proper frames; an empty one, one too short for its message, one too long for what
\* the server sends, one that runs into what follows, and one of the largest length.
Framed(d, n) == [header |-> <<n \div 256, n % 256>>, body |-> d, rest |-> 0]
MCStreams ==
  {Framed(d, MCSize[d]) : d \in MCMsgs \cup {Garbage}}
  \cup {Framed(small, n) : n \in {0, 511, 513}}
  \cup {[Framed(small, n) EXCEPT !.rest = 3] : n \in {512, 513}}
  \cup {[Framed(small, 65535) EXCEPT !.rest = 65535 - 512]}

\* Replies with good and bad headers, with and without an announced length.
Good(d) == [status |-> 200, ctype |-> "dns-message", body |-> d, delimited |-> TRUE]
MCReplies ==
  {Good(d) : d \in MCMsgs \cup {Garbage}}
  \cup {[Good(small) EXCEPT !.status = 500], [Good(small) EXCEPT !.ctype = "other"],
        [Good(small) EXCEPT !.delimited = FALSE]}

\* Pieces end within and after the header of a frame or of a message, and within and
\* after each body.
MCPieceEnds == {1, 2, 3, 11, 12, 511, 512, 513, 514, 515, 517, 65536, 65537}
=============================================================================
