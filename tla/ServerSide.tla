----------------------------- MODULE ServerSide -----------------------------
(***************************************************************************)
(* The other end of a query over TCP, TLS or HTTPS: what a server may send,   *)
(* and the places where what it sends may be cut into pieces.                *)
(***************************************************************************)
EXTENDS QueryCall

CONSTANTS
  QuerySizes,  \* the lengths query.Pack may produce
  Streams,     \* what a server may send over TCP and TLS: [header, body, rest]
  Replies,     \* what it may answer over HTTPS: [status, ctype, body, delimited]
  PieceEnds    \* bound: the places in a stream or a body where a piece may end

ASSUME StreamAssumption ==
  /\ QuerySizes \subseteq Nat
  /\ Streams \subseteq [header : (0..255) \X (0..255), body : Payloads, rest : Nat]
  /\ PieceEnds \subseteq Nat

ASSUME ReplyAssumption ==
  /\ Replies \subseteq [status : Nat, ctype : {"dns-message", "other"},
                        body : Payloads, delimited : BOOLEAN]
  /\ PieceEnds \subseteq Nat
=============================================================================
