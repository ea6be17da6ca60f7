------------------------------ MODULE DnsInputs ------------------------------
(***************************************************************************)
(* The inputs of the functions of DnsMessage, and what the functions return  *)
(* for them.  A state is an input, a response to the question asked and a    *)
(* list of addresses; a step makes the input longer.                        *)
(***************************************************************************)
EXTENDS DnsMessage

CONSTANTS
  asked,                  \* the question
  RCodes, Records,        \* what a response may contain
  AddrTexts,              \* the addresses, as texts
  MaxAnswers, MaxAddrs    \* bounds on the length of an answer and of a list

VARIABLES received, addresses

Responses(Answers) ==
  [response : {TRUE}, id : {1}, question : {<<asked>>}, rcode : RCodes,
   aa : BOOLEAN, ra : {FALSE}, answer : Answers]

InputInit == received \in Responses({<<>>}) /\ addresses = <<>>

LongerAnswer ==
  /\ Len(received.answer) < MaxAnswers /\ received.rcode = "NOERROR" /\ addresses = <<>>
  /\ \E rr \in Records : received' = [received EXCEPT !.answer = Append(@, rr)]
  /\ UNCHANGED addresses

LongerAddrs ==
  /\ Len(addresses) < MaxAddrs /\ received.answer = <<>>
  /\ \E a \in AddrTexts : addresses' = Append(addresses, a)
  /\ UNCHANGED received

InputNext == LongerAnswer \/ LongerAddrs

InputSpec == InputInit /\ [][InputNext]_<<received, addresses>>

-----------------------------------------------------------------------------

\* When the aliases of a response form a chain from the question, in order,
\* ValidAnswers returns exactly the records of the name at the end of the chain
\* that have the class of the question, in the order of the response, and it
\* fails with ErrNoData when there are none: looking at the target of the last
\* CNAME only is enough.
AnswersAtEndOfChain ==
  InOrderChain(asked, received.answer) =>
    LET I      == wanted(asked, received.answer)
        actual == ValidAnswers(asked, received)
    IN  /\ \E at \in [1..Len(actual.val) -> I] : Picks(actual.val, received.answer, I, at)
        /\ actual.err = IF I = {} THEN "ErrNoData" ELSE Nil

\* resolverDedupAndSort keeps every address exactly once, puts IPv4 before
\* IPv6, and keeps the order of the first occurrences within each family.
DedupAndSortCorrect == DedupedAndSorted(resolverDedupAndSort(addresses), addresses)

\* "If the RCODE is zero, this function returns nil": the comment of
\* RCodeToError, which the lame referral contradicts.
ZeroRCodeIsNil == received.rcode = "NOERROR" => RCodeToError(received) = Nil

\* "If the response does not contain any valid RRs, this function returns an
\* empty list": the comment of ValidAnswers, which returns an error instead.
NoValidRRsIsNoError == ValidAnswers(asked, received).err = Nil
=============================================================================
