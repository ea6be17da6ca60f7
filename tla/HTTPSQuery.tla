----------------------------- MODULE HTTPSQuery -----------------------------
(***************************************************************************)
(* DNS over HTTPS: queryHTTPS of src/dohttps.go.  The HTTP client is external;*)
(* it hands over the headers of a reply and then its body in pieces of any   *)
(* length.  A body whose length the reply announces cannot end early without *)
(* an error; one that lasts until the connection is closed can.              *)
(***************************************************************************)
EXTENDS ServerSide

VARIABLES
  pc,        \* control point of the goroutine that runs the query
  reply,     \* what the server answers
  httpBody,  \* httpResp.Body: "none", "open" or "closed"
  nbody,     \* len(rawResp) so far
  result     \* what the query returned to its caller

vars == <<ctxVars, pc, reply, httpBody, nbody, result>>

\* Mutant: the deferred Close is missing.
Return_NoClose(r) == result' = r /\ pc' = "done" /\ UNCHANGED httpBody

\* The return statement, with the deferred httpResp.Body.Close().
Return(r) ==
  /\ result' = r /\ pc' = "done"
  /\ httpBody' = IF httpBody = "open" THEN "closed" ELSE httpBody

Goto(label) == pc' = label /\ UNCHANGED <<httpBody, result>>

\* Step 0: fail at once if the context is already done.
queryHTTPS_Enter ==
  /\ pc = "start"
  /\ \/ ctx # "live" /\ Return(Err("ctx"))
     \/ ctx = "live" /\ Goto("pack")
  /\ UNCHANGED <<ctxVars, reply, nbody>>

\* Step 1: serialize the query.
queryHTTPS_Pack ==
  /\ pc = "pack"
  /\ Return(Err("pack")) \/ Goto("request")
  /\ UNCHANGED <<ctxVars, reply, nbody>>

\* Step 2: create the request, which fails for an address that is not an URL.
queryHTTPS_Request ==
  /\ pc = "request"
  /\ Return(Err("request")) \/ Goto("do")
  /\ UNCHANGED <<ctxVars, reply, nbody>>

\* Step 4: httpClientDo obtains the headers of the reply ...
queryHTTPS_Do ==
  /\ pc = "do"
  /\ pc' = "headers" /\ httpBody' = "open"
  /\ UNCHANGED <<ctxVars, reply, nbody, result>>

\* ... or fails for a reason of the network.
queryHTTPS_DoFails ==
  /\ pc = "do"
  /\ Return(Err("net"))
  /\ UNCHANGED <<ctxVars, reply, nbody>>

\* Mutant: the request does not carry the context.
Aborted_NoContext == FALSE

\* The request was created with the context, and so was its body.
Aborted == ctx # "live"

\* Mutant: the reader does not limit the body.
Limit_None == Size[reply.body] + 1

\* Mutant: the reader stops one byte early.
Limit_Short == edns0MaxResponseSize(extra) - 1

\* The bytes io.LimitReader lets through.
Limit == edns0MaxResponseSize(extra)

\* httpClientDo and the reads of the body fail when the context is done.
queryHTTPS_Abort ==
  /\ pc = "do" \/ (pc = "body" /\ nbody < Limit)
  /\ Aborted
  /\ Return(Err("ctx"))
  /\ UNCHANGED <<ctxVars, reply, nbody>>

\* The reply has the right status and the right content type.
headersOK == reply.status = 200 /\ reply.ctype = "dns-message"

\* Step 6: check the headers.
queryHTTPS_Headers ==
  /\ pc = "headers"
  /\ \/ ~headersOK /\ Return(Err("misbehaving"))
     \/ headersOK /\ Goto("body")
  /\ UNCHANGED <<ctxVars, reply, nbody>>

\* The body may end after n bytes: that is all of it, or nobody can tell.
Cut(n) == n = Size[reply.body] \/ ~reply.delimited

\* Step 7: io.ReadAll reads the body up to its end or up to the limit ...
readAll_Data ==
  /\ pc = "body" /\ nbody < Limit
  /\ \E n \in PieceEnds \cup {Limit} :
       nbody < n /\ n <= Limit /\ n <= Size[reply.body] /\ nbody' = n
  /\ UNCHANGED <<ctxVars, pc, reply, httpBody, result>>

\* ... and fails when the connection breaks or the body ends too early.
readAll_Fail ==
  /\ pc = "body" /\ nbody < Limit
  /\ \/ Return(Err("net"))
     \/ nbody < Size[reply.body] /\ reply.delimited /\ Return(Err("eof"))
  /\ UNCHANGED <<ctxVars, reply, nbody>>

\* The body, or the part of it within the limit, is complete and is parsed.
queryHTTPS_Unpack ==
  /\ pc = "body" /\ (nbody = Limit \/ Cut(nbody))
  /\ \E r \in UnpackPrefix(reply.body, nbody) : Return(r)
  /\ UNCHANGED <<ctxVars, reply, nbody>>

-----------------------------------------------------------------------------

Context ==
  /\ callerCancels \/ clockPassesDeadline \/ timerFires
  /\ UNCHANGED <<pc, reply, httpBody, nbody, result>>

\* The steps of the query that do not wait for the server.
Query ==
  \/ queryHTTPS_Enter \/ queryHTTPS_Pack \/ queryHTTPS_Request
  \/ queryHTTPS_Abort \/ queryHTTPS_Headers

\* The same and the parsing of a body that has reached the limit.
Progress == Query \/ (nbody = Limit /\ queryHTTPS_Unpack)

Terminated == pc = "done" /\ UNCHANGED vars

Init ==
  /\ ctxInit
  /\ reply \in Replies
  /\ pc = "start" /\ httpBody = "none" /\ nbody = 0
  /\ result = Nothing

Next ==
  \/ Query \/ queryHTTPS_Do \/ queryHTTPS_DoFails
  \/ readAll_Data \/ readAll_Fail \/ queryHTTPS_Unpack
  \/ Context \/ Terminated

Spec == Init /\ [][Next]_vars

-----------------------------------------------------------------------------
\* Properties

\* The query over HTTPS keeps its state well formed.
TypeOK ==
  /\ ctxTypeOK
  /\ reply \in Replies
  /\ pc \in {"start", "pack", "request", "do", "headers", "body", "done"}
  /\ httpBody \in {"none", "open", "closed"}
  /\ nbody \in 0..Size[reply.body]
  /\ result \in Results

\* A message that queryHTTPS returns comes from a reply with the right headers, and
\* is a part of the body only if the body is larger than the response size the
\* query advertised, or if the server did not announce its length.
WholeOrLimited ==
  (pc = "done" /\ result.err = "nil") =>
     /\ headersOK /\ result.msg = reply.body
     /\ ~result.whole => \/ Size[reply.body] > edns0MaxResponseSize(extra)
                         \/ ~reply.delimited

\* Whatever the server sends, no byte of a body is read before the headers were
\* accepted, and never more bytes than the query advertised.
ReadsBounded ==
  /\ nbody <= edns0MaxResponseSize(extra)
  /\ nbody > 0 => reply.status = 200 /\ reply.ctype = "dns-message"

\* "making sure we close the body": on every path.
BodyClosed == pc = "done" => httpBody # "open"

Contract == INSTANCE QueryContract WITH
  ctxDone <- ctx # "live",
  call    <- CallState(pc),
  outcome <- Outcome(pc = "done", result),
  inbox   <- IF httpBody = "none" THEN <<>> ELSE <<reply.body>>

\* queryHTTPS keeps the promise of Transport.Query.
Implements == Contract!Spec
=============================================================================
