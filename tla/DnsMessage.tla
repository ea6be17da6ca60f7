----------------------------- MODULE DnsMessage -----------------------------
(***************************************************************************)
(* The pure functions of the resolver: src/response.go (validation of a      *)
(* response and extraction of its answers), src/answer.go (decoding) and     *)
(* resolverDedupAndSort of src/resolver.go.                                 *)
(*                                                                         *)
(* A message is a record with the fields the functions look at:              *)
(*   query     [id, question]                                               *)
(*   response  [response, id, question, rcode, aa, ra, answer]              *)
(*   question  a sequence of [name, type, class]                            *)
(*   answer    a sequence of [name, type, class, data]                      *)
(* where data is the target of a CNAME, and the address of an A or AAAA.     *)
(***************************************************************************)
EXTENDS SequencesExt, Integers

CONSTANTS
  Lower,    \* Lower[name]: the name with its ASCII letters in lower case
  Text,     \* Text[ip]: net.IP.String, which prints an IPv4-mapped IPv6
            \* address like the IPv4 address
  V6        \* the texts that contain a colon

Nil == "nil"

OK(rrs) == [val |-> rrs, err |-> Nil]
Fail(e) == [val |-> <<>>, err |-> e]

\* What a loop over s that appends the elements at the positions I to a list
\* has built at its end.
appended(s, I) ==
  LET built[i \in 0..Len(s)] ==
        IF i = 0 THEN <<>>
        ELSE IF i \in I THEN Append(built[i - 1], s[i]) ELSE built[i - 1]
  IN  built[Len(s)]

-----------------------------------------------------------------------------
\* response.go

equalASCIIName(x, y) == Lower[x] = Lower[y]

ValidateResponse(query, resp) ==
  IF ~resp.response \/ resp.id # query.id \/ Len(resp.question) # 1
  THEN "ErrInvalidResponse"
  ELSE IF Len(query.question) # 1 THEN "ErrInvalidQuery"
  ELSE LET r0 == resp.question[1]
           q0 == query.question[1]
       IN  IF equalASCIIName(r0.name, q0.name) /\ r0.class = q0.class /\ r0.type = q0.type
           THEN Nil ELSE "ErrInvalidResponse"

lameReferral(resp) ==
  resp.rcode = "NOERROR" /\ ~resp.aa /\ ~resp.ra /\ resp.answer = <<>>

RCodeToError(resp) ==
  CASE resp.rcode = "NXDOMAIN" -> "ErrNoName"
    [] lameReferral(resp)      -> "ErrNoData"
    [] resp.rcode = "SERVFAIL" -> "ErrServerTemporarilyMisbehaving"
    [] resp.rcode \notin {"NXDOMAIN", "SERVFAIL", "NOERROR"} -> "ErrServerMisbehaving"
    [] OTHER -> Nil

cnames(answer) == {i \in 1..Len(answer) : answer[i].type = "CNAME"}

\* Mutant: the first CNAME decides.
expectName_First(q0, answer) ==
  IF cnames(answer) = {} THEN q0.name ELSE answer[Min(cnames(answer))].data

\* The name the answers are filtered for: the target of the last CNAME.
expectName(q0, answer) ==
  IF cnames(answer) = {} THEN q0.name ELSE answer[Max(cnames(answer))].data

ValidAnswers(q0, resp) ==
  LET name  == expectName(q0, resp.answer)
      valid == appended(resp.answer, {i \in 1..Len(resp.answer) :
                 /\ equalASCIIName(name, resp.answer[i].name)
                 /\ q0.class = resp.answer[i].class})
  IN  IF valid = <<>> THEN Fail("ErrNoData") ELSE OK(valid)

\* What exchange (src/lookup.go) makes of the response to its query.
Interpret(query, resp) ==
  LET invalid == ValidateResponse(query, resp)
      failure == RCodeToError(resp)
  IN  IF invalid # Nil THEN Fail(invalid)
      ELSE IF failure # Nil THEN Fail(failure)
      ELSE ValidAnswers(query.question[1], resp)

-----------------------------------------------------------------------------
\* answer.go: DecodeLookupA is decodeLookup("A", _), DecodeLookupAAAA is
\* decodeLookup("AAAA", _).

decodeLookup(type, rrs) ==
  LET of == appended(rrs, {i \in 1..Len(rrs) : rrs[i].type = type})
  IN  IF of = <<>> THEN Fail("ErrNoData")
      ELSE OK([i \in 1..Len(of) |-> Text[of[i].data]])

-----------------------------------------------------------------------------
\* resolver.go

\* Mutant: only adjacent duplicates are removed.
firsts_Adjacent(addrs) ==
  {i \in 1..Len(addrs) : i = 1 \/ addrs[i - 1] # addrs[i]}

\* The positions of the addresses that the map uniq does not have yet.
firsts(addrs) ==
  {i \in 1..Len(addrs) : \A j \in 1..(i - 1) : addrs[j] # addrs[i]}

resolverDedupAndSort(addrs) ==
  LET dedupA    == {i \in firsts(addrs) : addrs[i] \notin V6}
      dedupAAAA == {i \in firsts(addrs) : addrs[i] \in V6}
  IN  appended(addrs, dedupA) \o appended(addrs, dedupAAAA)

-----------------------------------------------------------------------------
\* What the functions should return, by definitions of their own

aliases(answer) == appended(answer, cnames(answer))

\* The CNAMEs lead from the question away, one after the other, without a loop:
\* RFC 1034 answers "possibly preface by one or more CNAME RRs".
InOrderChain(q0, answer) ==
  LET al   == aliases(answer)
      hops == <<Lower[q0.name]>> \o [i \in 1..Len(al) |-> Lower[al[i].data]]
  IN  /\ \A i \in 1..Len(al) : Lower[al[i].name] = hops[i]
      /\ \A i, j \in 1..Len(hops) : hops[i] = hops[j] => i = j

\* On the chain, and not an alias of something else.
AtEndOfChain(q0, answer, rr) ==
  /\ Lower[rr.name] \in {Lower[q0.name]} \cup {Lower[c.data] : c \in ToSet(aliases(answer))}
  /\ \A c \in ToSet(aliases(answer)) : Lower[c.name] # Lower[rr.name]

\* The positions of the records that answer the question.
wanted(q0, answer) ==
  {i \in 1..Len(answer) : AtEndOfChain(q0, answer, answer[i]) /\ q0.class = answer[i].class}

\* The list r consists of the elements of s at the positions I, in order: at[k]
\* is the position that the element k of r comes from.
Picks(r, s, I, at) ==
  /\ at \in [1..Len(r) -> I]
  /\ \A k \in 1..Len(r) : r[k] = s[at[k]]
  /\ \A j, k \in 1..Len(r) : j < k => at[j] < at[k]
  /\ \A i \in I : \E k \in 1..Len(r) : at[k] = i

FirstIndex(s, a) == CHOOSE i \in 1..Len(s) :
                      s[i] = a /\ \A j \in 1..(i - 1) : s[j] # a

\* r has every address of addrs exactly once, IPv4 before IPv6, and within each
\* family in the order of the first occurrences.
DedupedAndSorted(r, addrs) ==
  /\ ToSet(r) = ToSet(addrs)
  /\ \A i, j \in 1..Len(r) : i < j =>
       /\ r[i] # r[j]
       /\ r[i] \in V6 => r[j] \in V6
       /\ (r[i] \in V6 <=> r[j] \in V6) =>
            FirstIndex(addrs, r[i]) < FirstIndex(addrs, r[j])
=============================================================================
