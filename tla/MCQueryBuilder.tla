--------------------------- MODULE MCQueryBuilder ---------------------------
(***************************************************************************)
(* Instance of QueryBuilder for TLC: every length of name that matters for a *)
(* block, names with and without a final dot, the root, and all sequences of *)
(* at most three options.                                                   *)
(***************************************************************************)
EXTENDS QueryBuilder

MCNames ==
  [valid : {TRUE}, fqdn : {FALSE}, length : {0, 1, 80, 81, 82, 83, 93, 94, 95, 96, 253}]
    \cup [valid : {TRUE}, fqdn : {TRUE}, length : {1, 94, 254}]
    \cup [valid : {FALSE}, fqdn : {FALSE}, length : {5}]

MCOptions ==
  {[kind |-> "edns0", size |-> 1232, DO |-> FALSE, padding |-> FALSE],
   [kind |-> "edns0", size |-> 4096, DO |-> TRUE, padding |-> TRUE],
   [kind |-> "id", id |-> 7], [kind |-> "id", id |-> 0],
   [kind |-> "fails"]}

MCOptionLists == UNION {[1..n -> MCOptions] : n \in 0..3}
=============================================================================
