-------------------------- MODULE HTTPSQueryProofs --------------------------
(***************************************************************************)
(* Proofs about HTTPSQuery: its safety properties, and that queryHTTPS       *)
(* implements QueryContract, for all replies, sizes and ways in which a body *)
(* is cut into pieces.                                                      *)
(***************************************************************************)
EXTENDS HTTPSQuery, QueryCallProofs

\* The body goes with the control point.
BodyInv ==
  /\ pc \in {"start", "pack", "request", "do"} => httpBody = "none"
  /\ pc \in {"headers", "body"} => httpBody = "open"
  /\ pc = "done" => httpBody # "open"
  /\ pc = "body" => headersOK
  /\ nbody > 0 => headersOK
  /\ nbody <= Limit

\* A returned message is the body, or the part of it that could be read.
ResultInv ==
  /\ pc # "done" => result = Nothing
  /\ pc = "done" /\ result.err = "nil" =>
       /\ headersOK /\ result.msg = reply.body
       /\ ~result.whole => Size[reply.body] > Limit \/ ~reply.delimited

\* The inductive invariant.
IInv == TypeOK /\ BodyInv /\ ResultInv

-----------------------------------------------------------------------------

\* The numbers of a reply.
LEMMA ReplyNumbers ==
  ASSUME reply \in Replies, extra \in Extras
  PROVE  reply.body \in Payloads /\ Size[reply.body] \in Nat /\ Limit \in Nat
BY ReplyAssumption, CallAssumption, ExtrasAssumption DEF Limit

\* A step that leaves the query and the reply alone leaves the limit alone.
LEMMA SameReply ==
  ASSUME reply' = reply, extra' = extra
  PROVE  Limit' = Limit /\ headersOK' = headersOK
BY DEF Limit, headersOK

\* A step that ends the query preserves the invariant if its result is justified.
LEMMA ReturnStep ==
  ASSUME IInv, pc # "done", NEW r \in Results, Return(r), UNCHANGED <<ctxVars, reply, nbody>>,
         r.err = "nil" => /\ headersOK /\ r.msg = reply.body
                          /\ ~r.whole => Size[reply.body] > Limit \/ ~reply.delimited
  PROVE  IInv'
<1> USE DEF IInv, ctxVars, Return
<1>1. TypeOK'
  BY DEF TypeOK, ctxTypeOK
<1>2. BodyInv'
  BY SameReply DEF BodyInv, headersOK
<1>3. ResultInv'
  BY SameReply DEF ResultInv, headersOK
<1> QED
  BY <1>1, <1>2, <1>3

\* An error ends the query.
LEMMA ErrorStep ==
  ASSUME IInv, pc # "done", NEW e \in Errors, Return(Err(e)),
         UNCHANGED <<ctxVars, reply, nbody>>
  PROVE  IInv'
<1>1. PICK r \in Results : r = Err(e)
  BY ErrorResult
<1>2. r.err # "nil"
  BY <1>1, ErrorResult
<1> QED
  BY <1>1, <1>2, ReturnStep

\* The query goes on to its next stage.
LEMMA GotoStep ==
  ASSUME IInv, NEW label, Goto(label), UNCHANGED <<ctxVars, reply, nbody>>,
         \/ pc = "start" /\ label = "pack"
         \/ pc = "pack" /\ label = "request"
         \/ pc = "request" /\ label = "do"
         \/ pc = "headers" /\ label = "body" /\ headersOK
  PROVE  IInv'
<1> USE DEF IInv, ctxVars, Goto
<1>1. TypeOK'
  BY DEF TypeOK, ctxTypeOK
<1>2. BodyInv'
  BY SameReply DEF BodyInv, headersOK
<1>3. ResultInv'
  BY SameReply DEF ResultInv, headersOK
<1> QED
  BY <1>1, <1>2, <1>3

\* A body is parsed up to its end, up to the limit, or up to where it broke off.
LEMMA UnpackStep == IInv /\ queryHTTPS_Unpack => IInv'
<1> SUFFICES ASSUME IInv, queryHTTPS_Unpack PROVE IInv'
  OBVIOUS
<1>1. pc = "body" /\ (nbody = Limit \/ Cut(nbody)) /\ UNCHANGED <<ctxVars, reply, nbody>>
  BY DEF queryHTTPS_Unpack
<1>2. PICK r \in UnpackPrefix(reply.body, nbody) : Return(r)
  BY DEF queryHTTPS_Unpack
<1>3. reply.body \in Payloads /\ Size[reply.body] \in Nat /\ Limit \in Nat /\ nbody \in Nat
  BY ReplyNumbers DEF IInv, TypeOK, ctxTypeOK
<1>4. /\ r \in Results
      /\ r.err = "nil" => /\ r.msg = reply.body
                          /\ ~r.whole => nbody < Size[reply.body]
  BY <1>2, <1>3, PrefixResult
<1>5. nbody < Size[reply.body] => Size[reply.body] > Limit \/ ~reply.delimited
  BY <1>1, <1>3 DEF Cut
<1>6. headersOK
  BY <1>1 DEF IInv, BodyInv
<1> QED
  BY <1>1, <1>2, <1>4, <1>5, <1>6, ReturnStep

\* A piece of the body stays within the limit.
LEMMA DataStep == IInv /\ readAll_Data => IInv'
<1> SUFFICES ASSUME IInv, readAll_Data PROVE IInv'
  OBVIOUS
<1> USE DEF IInv, ctxVars, readAll_Data
<1>1. Size[reply.body] \in Nat /\ Limit \in Nat /\ nbody \in Nat
  BY ReplyNumbers DEF TypeOK, ctxTypeOK
<1>2. nbody' \in Nat /\ nbody' <= Limit /\ nbody' <= Size[reply.body]
  BY <1>1, ReplyAssumption
<1>3. TypeOK'
  BY <1>1, <1>2 DEF TypeOK, ctxTypeOK
<1>4. BodyInv'
  BY <1>2, SameReply DEF BodyInv, headersOK
<1>5. ResultInv'
  BY SameReply DEF ResultInv, headersOK
<1> QED
  BY <1>3, <1>4, <1>5

-----------------------------------------------------------------------------

\* The inductive invariant holds in every reachable state.
THEOREM Invariance == Spec => []IInv
<1>1. Init => IInv
  <2> SUFFICES ASSUME Init PROVE IInv
    OBVIOUS
  <2>1. ctxTypeOK /\ reply \in Replies
    BY ContextInit DEF Init
  <2>2. Size[reply.body] \in Nat /\ Limit \in Nat
    BY <2>1, ReplyNumbers DEF ctxTypeOK
  <2>3. TypeOK
    BY <2>1, <2>2, ResultsType DEF Init, TypeOK
  <2>4. BodyInv /\ ResultInv
    BY <2>2 DEF Init, BodyInv, ResultInv
  <2> QED
    BY <2>3, <2>4 DEF IInv
<1>2. IInv /\ [Next]_vars => IInv'
  <2> SUFFICES ASSUME IInv, [Next]_vars PROVE IInv'
    OBVIOUS
  <2>1. CASE queryHTTPS_Enter
    BY <2>1, ErrorStep, GotoStep DEF queryHTTPS_Enter, Errors
  <2>2. CASE queryHTTPS_Pack
    BY <2>2, ErrorStep, GotoStep DEF queryHTTPS_Pack, Errors
  <2>3. CASE queryHTTPS_Request
    BY <2>3, ErrorStep, GotoStep DEF queryHTTPS_Request, Errors
  <2>4. CASE queryHTTPS_Abort
    BY <2>4, ErrorStep DEF queryHTTPS_Abort, Errors
  <2>5. CASE queryHTTPS_Headers
    BY <2>5, ErrorStep, GotoStep DEF queryHTTPS_Headers, Errors
  <2>6. CASE queryHTTPS_Do
    <3> USE <2>6 DEF IInv, ctxVars, queryHTTPS_Do
    <3>1. TypeOK'
      BY DEF TypeOK, ctxTypeOK
    <3>2. BodyInv'
      BY SameReply DEF BodyInv, headersOK
    <3>3. ResultInv'
      BY DEF ResultInv
    <3> QED
      BY <3>1, <3>2, <3>3
  <2>7. CASE queryHTTPS_DoFails
    BY <2>7, ErrorStep DEF queryHTTPS_DoFails, Errors
  <2>8. CASE readAll_Fail
    BY <2>8, ErrorStep DEF readAll_Fail, Errors
  <2>9. CASE Context
    <3> USE <2>9 DEF IInv, Context
    <3>1. ctxTypeOK' /\ extra' = extra
      BY ContextStep DEF TypeOK
    <3>2. TypeOK'
      BY <3>1 DEF TypeOK
    <3>3. BodyInv' /\ ResultInv'
      BY <3>1, SameReply DEF BodyInv, ResultInv, headersOK
    <3> QED
      BY <3>2, <3>3
  <2>10. CASE UNCHANGED vars
    <3> USE <2>10 DEF IInv, vars, ctxVars
    <3>1. TypeOK'
      BY DEF TypeOK, ctxTypeOK
    <3>2. BodyInv' /\ ResultInv'
      BY SameReply DEF BodyInv, ResultInv, headersOK
    <3> QED
      BY <3>1, <3>2
  <2> QED
    BY <2>1, <2>2, <2>3, <2>4, <2>5, <2>6, <2>7, <2>8, <2>9, <2>10, DataStep, UnpackStep
       DEF Next, Query, Terminated
<1> QED
  BY <1>1, <1>2, PTL DEF Spec

\* TypeOK holds for all constants.
THEOREM TypeCorrect == Spec => []TypeOK
BY Invariance, PTL DEF IInv

\* WholeOrLimited: a truncated message is returned only past the advertised size
\* or when the server announced no length.
THEOREM WholeUnlessLimited == Spec => []WholeOrLimited
<1>1. IInv => WholeOrLimited
  BY DEF IInv, ResultInv, WholeOrLimited, Limit
<1> QED
  BY <1>1, Invariance, PTL

\* ReadsBounded: never more bytes are read than the query advertised.
THEOREM BoundedReads == Spec => []ReadsBounded
<1>1. IInv => ReadsBounded
  BY DEF IInv, BodyInv, ReadsBounded, Limit, headersOK
<1> QED
  BY <1>1, Invariance, PTL

\* BodyClosed: no path leaves the body open.
THEOREM BodyAlwaysClosed == Spec => []BodyClosed
<1>1. IInv => BodyClosed
  BY DEF IInv, BodyInv, BodyClosed
<1> QED
  BY <1>1, Invariance, PTL

-----------------------------------------------------------------------------
\* How far the query is from returning once the context is done.

Remaining ==
  CASE pc = "start"   -> 10
    [] pc = "pack"    -> 9
    [] pc = "request" -> 8
    [] pc = "do"      -> 7
    [] pc = "headers" -> 6
    [] pc = "body"    -> 5
    [] OTHER -> 0

\* Once the context is done no step leads away from the return of queryHTTPS, and
\* every step of its goroutine leads nearer to it.
LEMMA RemainingStep ==
  ASSUME IInv, [Next]_vars, ctx # "live"
  PROVE  /\ ctx' # "live" /\ Remaining \in 0..10 /\ Remaining' \in 0..10
         /\ Remaining' <= Remaining
         /\ Progress => Remaining' < Remaining
         /\ Remaining = 0 <=> pc = "done"
         /\ Remaining # 4
<1>0. pc \in {"start", "pack", "request", "do", "headers", "body", "done"}
  BY DEF IInv, TypeOK
<1>1. Progress => pc' # pc
  BY DEF Progress, Query, queryHTTPS_Enter, queryHTTPS_Pack, queryHTTPS_Request,
     queryHTTPS_Abort, queryHTTPS_Headers, queryHTTPS_Unpack, Return, Goto
<1> USE DEF Remaining
<1>2. CASE UNCHANGED vars
  <2>1. ctx' = ctx /\ pc' = pc
    BY <1>2 DEF vars, ctxVars
  <2> QED BY <1>0, <1>1, <2>1
<1>3. CASE Query \/ queryHTTPS_Do \/ queryHTTPS_DoFails
  <2>1. /\ ctx' = ctx
        /\ \/ pc # "done" /\ pc' = "done"
           \/ pc = "pack" /\ pc' = "request"
           \/ pc = "request" /\ pc' = "do"
           \/ pc = "do" /\ pc' = "headers"
           \/ pc = "headers" /\ pc' = "body"
    BY <1>3 DEF Query, queryHTTPS_Enter, queryHTTPS_Pack, queryHTTPS_Request,
       queryHTTPS_Abort, queryHTTPS_Headers, queryHTTPS_Do, queryHTTPS_DoFails, Return,
       Goto, ctxVars
  <2> QED BY <1>0, <2>1
<1>4. CASE readAll_Data \/ readAll_Fail \/ queryHTTPS_Unpack
  <2>1. ctx' = ctx /\ pc = "body" /\ pc' \in {"body", "done"}
    BY <1>4 DEF readAll_Data, readAll_Fail, queryHTTPS_Unpack, Return, ctxVars
  <2> QED BY <1>0, <1>1, <2>1
<1>5. CASE Context
  <2>1. ctx' # "live" /\ pc' = pc
    BY <1>5 DEF Context, callerCancels, clockPassesDeadline, timerFires
  <2> QED BY <1>0, <1>1, <2>1
<1> QED BY <1>2, <1>3, <1>4, <1>5 DEF Next, Terminated

\* The clock does not run backwards.
LEMMA ClockStep ==
  ASSUME [Next]_vars
  PROVE  hasDeadline' = hasDeadline /\ (late => late') /\ (ctx # "live" => ctx' # "live")
<1>1. CASE \/ Query \/ queryHTTPS_Do \/ queryHTTPS_DoFails \/ UNCHANGED vars
           \/ readAll_Data \/ readAll_Fail \/ queryHTTPS_Unpack
  <2>1. UNCHANGED ctxVars
    BY <1>1 DEF Query, queryHTTPS_Enter, queryHTTPS_Pack, queryHTTPS_Request,
       queryHTTPS_Abort, queryHTTPS_Headers, queryHTTPS_Do, queryHTTPS_DoFails,
       readAll_Data, readAll_Fail, queryHTTPS_Unpack, vars
  <2> QED BY <2>1 DEF ctxVars
<1>2. CASE Context
  BY <1>2 DEF Context, callerCancels, clockPassesDeadline, timerFires
<1> QED BY <1>1, <1>2 DEF Next, Terminated

-----------------------------------------------------------------------------
\* The refinement

Received == IF httpBody = "none" THEN <<>> ELSE <<reply.body>>

\* A returned error is a failure or a justified abort of the contract.
LEMMA ErrorRefines ==
  ASSUME pc # "done", NEW e \in Errors, Return(Err(e)), UNCHANGED <<ctxVars, reply>>,
         e \in {"ctx", "closed", "timeout"} => ctx # "live" \/ late
  PROVE  Contract!ReturnAborted \/ Contract!ReturnFailed
<1>1. pc' = "done" /\ result' = Err(e)
  BY DEF Return
<1>2. CallState(pc) # "returned" /\ CallState(pc)' = "returned"
  BY <1>1 DEF CallState
<1>3. Outcome(pc = "done", result)' = Outcome(TRUE, Err(e))
  BY <1>1
<1>4. Received' = Received
  BY DEF Received, Return
<1>5. CASE e \in {"ctx", "closed", "timeout"}
  <2>1. Outcome(TRUE, Err(e)) = Contract!Aborted
    BY <1>5, OutcomeError DEF Contract!Aborted
  <2> QED
    BY <1>2, <1>3, <1>4, <1>5, <2>1 DEF Contract!ReturnAborted, Received, ctxVars
<1>6. CASE e \notin {"ctx", "closed", "timeout"}
  <2>1. Outcome(TRUE, Err(e)) = Contract!Failed
    BY <1>6, OutcomeError DEF Contract!Failed
  <2> QED
    BY <1>2, <1>3, <1>4, <2>1 DEF Contract!ReturnFailed, Received, ctxVars
<1> QED
  BY <1>5, <1>6

\* A step that changes neither the control point nor the body is at most a step of
\* the context.
LEMMA ContextRefines ==
  ASSUME UNCHANGED <<pc, reply, httpBody, result>>,
         ctx # "live" => ctx' # "live", late => late'
  PROVE  Contract!ContextChanges
<1>1. CallState(pc)' = CallState(pc)
  OBVIOUS
<1>2. Outcome(pc = "done", result)' = Outcome(pc = "done", result)
  OBVIOUS
<1>3. Received' = Received
  BY DEF Received
<1> QED
  BY <1>1, <1>2, <1>3 DEF Contract!ContextChanges, Received

\* A step inside the running query that keeps the body is invisible.
LEMMA QuietRefines ==
  ASSUME pc \notin {"start", "done"}, NEW label, label \notin {"start", "done"}, Goto(label),
         UNCHANGED <<ctxVars, reply>>
  PROVE  UNCHANGED Contract!cvars
<1>1. CallState(pc) = "running" /\ CallState(pc)' = "running"
  BY DEF CallState, Goto
<1>2. Outcome(pc = "done", result)' = Outcome(pc = "done", result)
  BY DEF Outcome, Goto
<1>3. Received' = Received
  BY DEF Received, Goto
<1> QED
  BY <1>1, <1>2, <1>3 DEF Contract!cvars, Received, ctxVars

\* The context is checked before the query begins.
LEMMA EnterRefines ==
  ASSUME queryHTTPS_Enter
  PROVE  Contract!Begin \/ Contract!ReturnAborted \/ Contract!ReturnFailed
<1>1. pc = "start" /\ UNCHANGED <<ctxVars, reply>>
  BY DEF queryHTTPS_Enter
<1>2. CASE ctx # "live" /\ Return(Err("ctx"))
  BY <1>1, <1>2, ErrorRefines, AbortErrors
<1>3. CASE ctx = "live" /\ Goto("pack")
  <2>1. CallState(pc) = "called" /\ CallState(pc)' = "running"
    BY <1>1, <1>3 DEF CallState, Goto
  <2>2. Outcome(pc = "done", result)' = Outcome(pc = "done", result)
    BY <1>1, <1>3 DEF Outcome, Goto
  <2>3. Received' = Received
    BY <1>1, <1>3 DEF Received, Goto
  <2> QED
    BY <1>1, <1>3, <2>1, <2>2, <2>3 DEF Contract!Begin, Received, ctxVars
<1> QED
  BY <1>2, <1>3 DEF queryHTTPS_Enter

\* The reply arrives with its headers.
LEMMA DoRefines ==
  ASSUME IInv, queryHTTPS_Do PROVE Contract!Receive
<1>1. pc = "do" /\ pc' = "headers" /\ UNCHANGED <<ctxVars, reply, result>>
  BY DEF queryHTTPS_Do
<1>2. Received = <<>> /\ Received' = <<reply.body>>
  BY DEF queryHTTPS_Do, IInv, BodyInv, Received
<1>3. reply.body \in Msgs \cup {Garbage} /\ Received' = Append(Received, reply.body)
  BY <1>2, ReplyNumbers DEF IInv, TypeOK, ctxTypeOK, Payloads
<1>4. CallState(pc) = "running" /\ CallState(pc)' = "running"
  BY <1>1 DEF CallState
<1>5. Outcome(pc = "done", result)' = Outcome(pc = "done", result)
  BY <1>1 DEF Outcome
<1> QED
  BY <1>1, <1>3, <1>4, <1>5 DEF Contract!Receive, Received, ctxVars

\* The parsed message is the one that was received.
LEMMA UnpackRefines ==
  ASSUME IInv, queryHTTPS_Unpack
  PROVE  Contract!ReturnMessage \/ Contract!ReturnAborted \/ Contract!ReturnFailed
<1>1. pc = "body" /\ UNCHANGED <<ctxVars, reply>>
  BY DEF queryHTTPS_Unpack
<1>2. PICK r \in UnpackPrefix(reply.body, nbody) : Return(r)
  BY DEF queryHTTPS_Unpack
<1>3. reply.body \in Payloads /\ Size[reply.body] \in Nat /\ nbody \in Nat
  BY ReplyNumbers DEF IInv, TypeOK, ctxTypeOK
<1>4. CASE r = Err("unpack")
  <2>1. "unpack" \in Errors
    BY DEF Errors
  <2> QED
    BY <1>1, <1>2, <1>4, <2>1, ErrorRefines
<1>5. ASSUME NEW w \in BOOLEAN, r = Msg(reply.body, w), reply.body \in Msgs
      PROVE  Contract!ReturnMessage
  <2>1. pc' = "done" /\ result' = Msg(reply.body, w)
    BY <1>2, <1>5 DEF Return
  <2>2. Received = <<reply.body>> /\ Received' = Received
    BY <1>1, <1>2 DEF Received, IInv, BodyInv, Return
  <2>3. Outcome(pc = "done", result)' = Contract!Message(reply.body)
    BY <2>1, OutcomeMessage DEF Contract!Message
  <2>4. CallState(pc) = "running" /\ CallState(pc)' = "returned"
    BY <1>1, <2>1 DEF CallState
  <2> QED
    BY <1>1, <1>5, <2>2, <2>3, <2>4 DEF Contract!ReturnMessage, Received, ctxVars
<1> QED
  BY <1>2, <1>3, <1>4, <1>5, PrefixType

\* The other steps of the query.
LEMMA QueryRefines ==
  ASSUME \/ queryHTTPS_Pack \/ queryHTTPS_Request \/ queryHTTPS_Abort \/ queryHTTPS_Headers
         \/ queryHTTPS_DoFails \/ readAll_Fail
  PROVE  Contract!ReturnAborted \/ Contract!ReturnFailed \/ UNCHANGED Contract!cvars
<1>1. pc \notin {"start", "done"} /\ UNCHANGED <<ctxVars, reply>>
  BY DEF queryHTTPS_Pack, queryHTTPS_Request, queryHTTPS_Abort, queryHTTPS_Headers,
         queryHTTPS_DoFails, readAll_Fail
<1>2. \/ \E label \in {"request", "do", "body"} : Goto(label)
      \/ \E e \in {"pack", "request", "misbehaving", "net", "eof"} : Return(Err(e))
      \/ ctx # "live" /\ Return(Err("ctx"))
  BY DEF queryHTTPS_Pack, queryHTTPS_Request, queryHTTPS_Abort, queryHTTPS_Headers,
         queryHTTPS_DoFails, readAll_Fail, Aborted
<1>3. ASSUME NEW label \in {"request", "do", "body"}, Goto(label)
      PROVE  UNCHANGED Contract!cvars
  BY <1>1, <1>3, QuietRefines
<1>4. ASSUME NEW e \in {"pack", "request", "misbehaving", "net", "eof"}, Return(Err(e))
      PROVE  Contract!ReturnAborted \/ Contract!ReturnFailed
  <2>1. e \in Errors /\ e \notin {"ctx", "closed", "timeout"}
    BY DEF Errors
  <2> QED
    BY <1>1, <1>4, <2>1, ErrorRefines
<1>5. CASE ctx # "live" /\ Return(Err("ctx"))
  BY <1>1, <1>5, ErrorRefines, AbortErrors
<1> QED
  BY <1>2, <1>3, <1>4, <1>5

\* Implements: queryHTTPS keeps the promise of Transport.Query, whatever the server
\* replies.
THEOREM Refinement == Spec => Implements
<1>1. Init => Contract!Init
  <2> SUFFICES ASSUME Init PROVE Contract!Init
    OBVIOUS
  <2>1. pc = "start" /\ late \in BOOLEAN
    BY ContextInit DEF Init, ctxTypeOK
  <2>2. Received = <<>>
    BY DEF Init, Received
  <2>3. CallState(pc) = "called"
    BY <2>1 DEF CallState
  <2>4. Outcome(pc = "done", result) = Contract!Pending
    BY <2>1 DEF Outcome, Contract!Pending
  <2> QED
    BY <2>1, <2>2, <2>3, <2>4 DEF Contract!Init, Received
<1>2. IInv /\ [Next]_vars => [Contract!Next]_(Contract!cvars)
  <2> SUFFICES ASSUME IInv, [Next]_vars PROVE Contract!Next \/ UNCHANGED Contract!cvars
    OBVIOUS
  <2> USE DEF Contract!Next
  <2>1. CASE Context
    <3>1. (ctx # "live" => ctx' # "live") /\ (late => late')
      BY <2>1, ContextStep DEF Context, IInv, TypeOK
    <3> QED
      BY <2>1, <3>1, ContextRefines DEF Context
  <2>2. CASE readAll_Data \/ UNCHANGED vars
    <3>1. UNCHANGED <<pc, reply, httpBody, result>> /\ ctx' = ctx /\ late' = late
      BY <2>2 DEF readAll_Data, vars, ctxVars
    <3> QED
      BY <3>1, ContextRefines
  <2> QED
    BY <2>1, <2>2, EnterRefines, QueryRefines, DoRefines, UnpackRefines
       DEF Next, Query, Terminated
<1> QED
  BY <1>1, <1>2, Invariance, PTL DEF Spec, Implements, Contract!Spec
=============================================================================
