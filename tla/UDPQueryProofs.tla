--------------------------- MODULE UDPQueryProofs ---------------------------
(***************************************************************************)
(* Theorems about UDPQuery, and lemmas about UDPSocket, for any set of        *)
(* messages, any query and any number of datagrams.                          *)
(***************************************************************************)
EXTENDS UDPQuery, QueryCallProofs

-----------------------------------------------------------------------------
\* The functions that queryUDP and queryUDPWithDuplicates share

\* What recvResponseUDP makes of a datagram.
LEMMA UnpackType ==
  ASSUME NEW d \in Payloads, NEW r \in Unpack(d)
  PROVE  /\ r \in Results
         /\ r.err \in {"nil", "unpack"}
         /\ r.err = "nil" => /\ r.msg = d /\ d \in Msgs
                             /\ ~r.whole => ~Fits(d)
<1>1. CASE r = Err("unpack")
  BY <1>1, ResultsType DEF Err, Errors
<1>2. CASE r = Msg(d, TRUE) /\ d # Garbage
  BY <1>2, ResultsType DEF Msg, Payloads
<1>3. CASE r = Msg(d, FALSE) /\ d # Garbage /\ ~Fits(d)
  BY <1>3, ResultsType DEF Msg, Payloads
<1> QED
  BY <1>1, <1>2, <1>3 DEF Unpack, UnpackPrefix, HeaderSize, Fits

\* The initial states of the socket are well formed.
LEMMA SockInitType == SockInit => SockTypeOK
<1> SUFFICES ASSUME SockInit PROVE SockTypeOK
  OBVIOUS
<1>1. late \in BOOLEAN /\ ctx \in {"live", "canceled", "expired"}
  BY Zenon DEF SockInit, ctxInit
<1>2. arrived \in Seq(Payloads) /\ nread \in 0..Len(arrived)
  BY DEF SockInit, ctxInit
<1>3. cancelled \in BOOLEAN /\ connDeadline \in BOOLEAN /\ hasDeadline \in BOOLEAN
  BY Zenon DEF SockInit, ctxInit
<1>4. /\ closer = "none" /\ conn = "none" /\ extra \in Extras /\ ret = Nothing
  BY DEF SockInit, ctxInit
<1> QED
  BY <1>1, <1>2, <1>3, <1>4, ResultsType DEF SockTypeOK, ctxTypeOK

\* The shared functions and the environment preserve the types.
LEMMA SockTypeStep ==
  ASSUME SockTypeOK, Helpers \/ Environment
  PROVE  SockTypeOK'
<1> USE DEF SockTypeOK, ctxTypeOK
<1>1. CASE sendQueryUDP_Dial
  BY <1>1, ResultsType DEF sendQueryUDP_Dial, ctxVars, netVars, Errors
<1>2. CASE sendQueryUDP_Pack
  BY <1>2, ResultsType DEF sendQueryUDP_Pack, ctxVars, connVars, netVars, Errors
<1>3. CASE sendQueryUDP_Write
  BY <1>3, ResultsType DEF sendQueryUDP_Write, ctxVars, connVars, netVars, Errors
<1>4. CASE recvResponseUDP_Call
  BY <1>4, ResultsType DEF recvResponseUDP_Call, ctxVars, connVars, netVars, Errors
<1>5. CASE recvResponseUDP_Data
  <2>1. nread + 1 \in 1..Len(arrived) /\ arrived[nread + 1] \in Payloads
    BY <1>5 DEF recvResponseUDP_Data
  <2>2. ret' \in Results
    BY <1>5, <2>1, UnpackType DEF recvResponseUDP_Data
  <2> QED
    BY <1>5, <2>1, <2>2 DEF recvResponseUDP_Data, ctxVars, connVars
<1>6. CASE recvResponseUDP_Abort
  BY <1>6, ResultsType DEF recvResponseUDP_Abort, ctxVars, connVars, netVars, Errors
<1>7. CASE recvResponseUDP_NetworkError
  BY <1>7, ResultsType
  DEF recvResponseUDP_NetworkError, ctxVars, connVars, netVars, Errors
<1>8. CASE closeOnDone
  BY <1>8 DEF closeOnDone, ctxVars, netVars
<1>9. CASE Cancel \/ DeadlinePasses \/ ContextExpires
  BY <1>9 DEF Cancel, DeadlinePasses, ContextExpires, callerCancels,
    clockPassesDeadline, timerFires, connVars, netVars
<1>10. CASE Deliver
  <2>1. PICK d \in Payloads : arrived' = Append(arrived, d)
    BY <1>10 DEF Deliver
  <2>2. arrived' \in Seq(Payloads) /\ Len(arrived') = Len(arrived) + 1
    BY <2>1
  <2>3. nread \in 0..Len(arrived')
    BY <2>2
  <2> QED
    BY <1>10, <2>2, <2>3 DEF Deliver, ctxVars, connVars
<1> QED
  BY <1>1, <1>2, <1>3, <1>4, <1>5, <1>6, <1>7, <1>8, <1>9, <1>10
  DEF Helpers, Environment

\* Where the shared functions can leave the control.
LEMMA SockControl ==
  ASSUME Helpers \/ Environment
  PROVE  pc' = pc \/ pc' \in {"pack", "write", "sent", "reading", "received"}
BY DEF Helpers, Environment, sendQueryUDP_Dial, sendQueryUDP_Pack,
   sendQueryUDP_Write, recvResponseUDP_Call, recvResponseUDP_Data,
   recvResponseUDP_Abort, recvResponseUDP_NetworkError, closeOnDone, Cancel,
   DeadlinePasses, ContextExpires, callerCancels,
    clockPassesDeadline, timerFires, Deliver

-----------------------------------------------------------------------------
\* queryUDP

\* The life of the connection follows the control point of the query.
ConnInv ==
  /\ pc \in {"start", "dial"} => conn = "none"
  /\ pc \in {"pack", "write"} => conn = "open"
  /\ pc \in {"start", "dial", "pack", "write", "sent"} => closer = "none"
  /\ pc = "sent" => /\ ret.err = "nil" => conn = "open"
                    /\ conn = "open" => ret.err \in {"nil", "pack", "write"}
  /\ pc \in {"read", "reading", "received"} => closer # "none"
  /\ pc = "done" /\ closer = "none" =>
       conn = "none" \/ result.err \in {"pack", "write"}
  /\ closer = "none" => conn # "closed"
  /\ closer = "waiting" => conn = "open"
  /\ closer = "exited" => conn = "closed" /\ derivedDone
  /\ cancelled => pc = "done"
  /\ pc = "done" /\ closer # "none" => cancelled
  /\ connDeadline => hasDeadline

\* What recvResponseUDP may return, and queryUDP passes on.
Explained(r) ==
  /\ r.err = "nil" => /\ nread = 1 /\ r.msg = arrived[1]
                      /\ ~r.whole => ~Fits(r.msg)
  /\ r.err = "closed" => ctx # "live"
  /\ r.err = "timeout" => hasDeadline /\ late

ResultInv ==
  /\ pc \notin {"received", "done"} => nread = 0
  /\ pc # "done" => result = Nothing
  /\ pc = "sent" => ret.err \notin {"closed", "timeout"}
  /\ pc = "received" => Explained(ret)
  /\ pc = "done" => Explained(result)

\* The inductive invariant.
IInv == TypeOK /\ ConnInv /\ ResultInv

-----------------------------------------------------------------------------

\* The initial states satisfy the invariant.
LEMMA InitInv == Init => IInv
<1> SUFFICES ASSUME Init PROVE IInv
  OBVIOUS
<1>1. TypeOK
  BY SockInitType, ResultsType DEF Init, SockInit, ctxInit, TypeOK
<1>2. ConnInv
  BY DEF Init, SockInit, ctxInit, ConnInv
<1>3. ResultInv
  BY DEF Init, SockInit, ctxInit, ResultInv
<1> QED
  BY <1>1, <1>2, <1>3 DEF IInv

\* Every step preserves the types.
LEMMA TypeStep ==
  ASSUME TypeOK, [Next]_vars
  PROVE  TypeOK'
<1> USE DEF TypeOK
<1>1. CASE UNCHANGED vars
  BY <1>1 DEF vars, sockVars, ctxVars, connVars, netVars, SockTypeOK, ctxTypeOK
<1>2. CASE queryUDP_Enter
  BY <1>2, ResultsType
  DEF queryUDP_Enter, Return, ctxVars, netVars, Errors, SockTypeOK, ctxTypeOK
<1>3. CASE queryUDP_Sent
  BY <1>3 DEF queryUDP_Sent, Return, ctxVars, netVars, SockTypeOK, ctxTypeOK
<1>4. CASE queryUDP_Received
  BY <1>4 DEF queryUDP_Received, Return, ctxVars, netVars, SockTypeOK, ctxTypeOK
<1>5. CASE (Helpers \/ Environment) /\ UNCHANGED result
  <2>1. SockTypeOK'
    BY <1>5, SockTypeStep
  <2>2. pc' = pc \/ pc' \in {"pack", "write", "sent", "reading", "received"}
    BY <1>5, SockControl
  <2> QED
    BY <1>5, <2>1, <2>2
<1> QED
  BY <1>1, <1>2, <1>3, <1>4, <1>5 DEF Next, Query, Terminated

\* Every step keeps the connection in agreement with the control point.
LEMMA ConnStep ==
  ASSUME TypeOK, ConnInv, [Next]_vars
  PROVE  ConnInv'
<1> USE DEF ConnInv, derivedDone
<1>1. CASE UNCHANGED vars
  BY <1>1 DEF vars, sockVars, ctxVars, connVars, netVars
<1>2. CASE queryUDP_Enter
  BY <1>2 DEF queryUDP_Enter, Return, ctxVars, TypeOK, SockTypeOK, ctxTypeOK
<1>3. CASE queryUDP_Sent
  <2>1. CASE ret.err # "nil"
    <3>1. /\ result' = ret /\ pc' = "done"
          /\ UNCHANGED <<ctx, hasDeadline, conn, connDeadline, closer, cancelled>>
      BY <1>3, <2>1 DEF queryUDP_Sent, Return, ctxVars
    <3> QED
      BY <1>3, <2>1, <3>1 DEF queryUDP_Sent, TypeOK, SockTypeOK, ctxTypeOK
  <2>2. CASE ret.err = "nil"
    BY <1>3, <2>2 DEF queryUDP_Sent, ctxVars
  <2> QED
    BY <2>1, <2>2
<1>4. CASE queryUDP_Received
  BY <1>4 DEF queryUDP_Received, Return, ctxVars, TypeOK, SockTypeOK, ctxTypeOK
<1>5. CASE sendQueryUDP_Dial /\ UNCHANGED result
  BY <1>5 DEF sendQueryUDP_Dial, ctxVars, Err, TypeOK, SockTypeOK, ctxTypeOK
<1>6. CASE sendQueryUDP_Pack /\ UNCHANGED result
  BY <1>6 DEF sendQueryUDP_Pack, ctxVars, connVars, Err
<1>7. CASE sendQueryUDP_Write /\ UNCHANGED result
  BY <1>7 DEF sendQueryUDP_Write, ctxVars, connVars, Err, Nothing
<1>8. CASE recvResponseUDP_Call /\ UNCHANGED result
  BY <1>8 DEF recvResponseUDP_Call, ctxVars, connVars
<1>9. CASE recvResponseUDP_Data /\ UNCHANGED result
  BY <1>9 DEF recvResponseUDP_Data, ctxVars, connVars
<1>10. CASE recvResponseUDP_Abort /\ UNCHANGED result
  BY <1>10 DEF recvResponseUDP_Abort, ctxVars, connVars
<1>11. CASE recvResponseUDP_NetworkError /\ UNCHANGED result
  BY <1>11 DEF recvResponseUDP_NetworkError, ctxVars, connVars
<1>12. CASE closeOnDone /\ UNCHANGED result
  BY <1>12 DEF closeOnDone, ctxVars
<1>13. CASE (Cancel \/ DeadlinePasses \/ ContextExpires) /\ UNCHANGED result
  BY <1>13 DEF Cancel, DeadlinePasses, ContextExpires, callerCancels,
    clockPassesDeadline, timerFires, connVars
<1>14. CASE Deliver /\ UNCHANGED result
  BY <1>14 DEF Deliver, ctxVars, connVars
<1> QED
  BY <1>1, <1>2, <1>3, <1>4, <1>5, <1>6, <1>7, <1>8, <1>9, <1>10, <1>11, <1>12,
     <1>13, <1>14 DEF Next, Query, Helpers, Environment, Terminated

\* What a result says about the world stays true: the first datagram does not
\* change, and neither a done context nor a passed deadline comes back.
LEMMA ExplainedStable ==
  ASSUME TypeOK, nread' = nread, extra' = extra, hasDeadline' = hasDeadline,
         ctx # "live" => ctx' # "live", late => late',
         arrived' = arrived \/ \E d \in Payloads : arrived' = Append(arrived, d)
  PROVE  /\ (ret' = ret /\ Explained(ret)) => Explained(ret)'
         /\ (result' = ret /\ Explained(ret)) => Explained(result)'
         /\ (result' = result /\ Explained(result)) => Explained(result)'
<1>1. nread = 1 => arrived'[1] = arrived[1]
  BY DEF TypeOK, SockTypeOK, ctxTypeOK
<1>2. edns0MaxResponseSize(extra)' = edns0MaxResponseSize(extra)
  OBVIOUS
<1> QED
  BY <1>1, <1>2 DEF Explained, Fits

\* Every step keeps the results explained.
LEMMA ResultStep ==
  ASSUME TypeOK, ConnInv, ResultInv, [Next]_vars
  PROVE  ResultInv'
<1> USE DEF ResultInv
<1>1. CASE UNCHANGED vars
  <2>1. /\ Explained(ret) => Explained(ret)'
        /\ Explained(result) => Explained(result)'
    BY <1>1, ExplainedStable DEF vars, sockVars, ctxVars, netVars
  <2> QED
    BY <1>1, <2>1 DEF vars, sockVars, ctxVars, netVars
<1>2. CASE queryUDP_Enter
  <2>1. CASE ctx # "live"
    <3>1. pc' = "done" /\ result' = Err("ctx")
      BY <1>2, <2>1 DEF queryUDP_Enter, Return
    <3>2. Explained(result)'
      BY <3>1 DEF Explained, Err
    <3> QED
      BY <3>1, <3>2
  <2>2. CASE ctx = "live"
    BY <1>2, <2>2 DEF queryUDP_Enter, Return, netVars
  <2> QED
    BY <2>1, <2>2
<1>3. CASE queryUDP_Sent
  <2>1. CASE ret.err # "nil"
    BY <1>3, <2>1 DEF queryUDP_Sent, Return, ctxVars, netVars, Explained
  <2>2. CASE ret.err = "nil"
    BY <1>3, <2>2 DEF queryUDP_Sent, netVars
  <2> QED
    BY <2>1, <2>2
<1>4. CASE queryUDP_Received
  <2>1. pc' = "done" /\ result' = ret
    BY <1>4 DEF queryUDP_Received, Return
  <2>2. Explained(result)'
    BY <1>4, <2>1, ExplainedStable DEF queryUDP_Received, ctxVars, netVars
  <2> QED
    BY <2>1, <2>2
<1>5. CASE (sendQueryUDP_Dial \/ sendQueryUDP_Pack \/ sendQueryUDP_Write) /\ UNCHANGED result
  BY <1>5 DEF sendQueryUDP_Dial, sendQueryUDP_Pack, sendQueryUDP_Write, netVars,
     Err, Nothing
<1>6. CASE recvResponseUDP_Call /\ UNCHANGED result
  <2>1. conn = "closed" => ctx # "live"
    BY <1>6 DEF recvResponseUDP_Call, ConnInv, derivedDone, TypeOK, SockTypeOK, ctxTypeOK
  <2>2. connDeadline => hasDeadline
    BY DEF ConnInv
  <2>3. pc' = "received" => Explained(ret)'
    BY <1>6, <2>1, <2>2 DEF recvResponseUDP_Call, ctxVars, Explained, Err
  <2> QED
    BY <1>6, <2>3 DEF recvResponseUDP_Call, netVars
<1>7. CASE recvResponseUDP_Data /\ UNCHANGED result
  <2>1. nread = 0 /\ arrived[1] \in Payloads /\ ret' \in Unpack(arrived[1])
    BY <1>7 DEF recvResponseUDP_Data, TypeOK, SockTypeOK, ctxTypeOK
  <2>2. /\ ret'.err \in {"nil", "unpack"}
        /\ ret'.err = "nil" => /\ ret'.msg = arrived[1]
                               /\ ~ret'.whole => ~Fits(arrived[1])
    BY <2>1, UnpackType
  <2>3. nread' = 1 /\ arrived' = arrived /\ pc' = "received" /\ extra' = extra
    BY <1>7, <2>1 DEF recvResponseUDP_Data, ctxVars
  <2>4. Fits(arrived[1])' = Fits(arrived[1])
    BY <2>3 DEF Fits
  <2>5. Explained(ret)'
    BY <2>2, <2>3, <2>4 DEF Explained
  <2> QED
    BY <1>7, <2>3, <2>5 DEF recvResponseUDP_Data
<1>8. CASE recvResponseUDP_Abort /\ UNCHANGED result
  <2>1. conn = "closed" => ctx # "live"
    BY <1>8 DEF recvResponseUDP_Abort, ConnInv, derivedDone, TypeOK, SockTypeOK, ctxTypeOK
  <2>2. connDeadline => hasDeadline
    BY DEF ConnInv
  <2>3. Explained(ret)'
    BY <1>8, <2>1, <2>2 DEF recvResponseUDP_Abort, ctxVars, Explained, Err
  <2> QED
    BY <1>8, <2>3 DEF recvResponseUDP_Abort, netVars
<1>9. CASE recvResponseUDP_NetworkError /\ UNCHANGED result
  BY <1>9 DEF recvResponseUDP_NetworkError, Explained, Err
<1>10. CASE (closeOnDone \/ Environment) /\ UNCHANGED result
  <2>1. /\ nread' = nread /\ extra' = extra /\ hasDeadline' = hasDeadline
        /\ ctx # "live" => ctx' # "live"
        /\ late => late'
        /\ arrived' = arrived \/ \E d \in Payloads : arrived' = Append(arrived, d)
        /\ pc' = pc /\ ret' = ret
    BY <1>10 DEF closeOnDone, Environment, Cancel, DeadlinePasses, ContextExpires, callerCancels,
    clockPassesDeadline, timerFires,
       Deliver, ctxVars, netVars
  <2>2. /\ Explained(ret) => Explained(ret)'
        /\ Explained(result) => Explained(result)'
    BY <1>10, <2>1, ExplainedStable
  <2> QED
    BY <1>10, <2>1, <2>2
<1> QED
  BY <1>1, <1>2, <1>3, <1>4, <1>5, <1>6, <1>7, <1>8, <1>9, <1>10
  DEF Next, Query, Helpers, Terminated

-----------------------------------------------------------------------------

\* The invariant holds in every reachable state of queryUDP.
THEOREM Invariance == Spec => []IInv
<1>1. IInv /\ [Next]_vars => IInv'
  BY TypeStep, ConnStep, ResultStep DEF IInv
<1> QED
  BY InitInv, <1>1, PTL DEF Spec

\* queryUDP keeps its state well formed.
THEOREM TypeCorrect == Spec => []TypeOK
<1>1. IInv => TypeOK
  BY DEF IInv
<1> QED
  BY Invariance, <1>1, PTL

\* queryUDP returns the first message that arrives, whole if it fits.
THEOREM ReturnsFirstMessage == Spec => []FirstMessage
<1>1. IInv => FirstMessage
  BY DEF IInv, ResultInv, Explained, FirstMessage
<1> QED
  BY Invariance, <1>1, PTL

\* queryUDP aborts a read only when the context is done or the deadline passed.
THEOREM NeverAbortsItself == Spec => []AbortOnlyWhenDone
<1>1. IInv => AbortOnlyWhenDone
  BY DEF IInv, ResultInv, Explained, AbortOnlyWhenDone, Nothing
<1> QED
  BY Invariance, <1>1, PTL

\* After a successful send the connection always has a goroutine to close it.
THEOREM ConnOwned == Spec => []OwnedAfterSend
<1>1. IInv => OwnedAfterSend
  BY DEF IInv, TypeOK, SockTypeOK, ctxTypeOK, ConnInv, ResultInv, OwnedAfterSend, Nothing
<1> QED
  BY Invariance, <1>1, PTL

-----------------------------------------------------------------------------
\* How far the query is from returning once the context is done.  At 4 a blocked
\* read waits for its connection to be closed.

Remaining ==
  CASE pc = "start"    -> 10
    [] pc = "dial"     -> 9
    [] pc = "pack"     -> 8
    [] pc = "write"    -> 7
    [] pc = "sent"     -> 6
    [] pc = "read"     -> 5
    [] pc = "reading" /\ closer = "waiting" -> 4
    [] pc = "reading" /\ closer # "waiting" -> 3
    [] pc = "received" -> 2
    [] OTHER -> 0

\* A step of its goroutine changes the control point, and one of the guard of the
\* connection its state.
LEMMA StepMoves ==
  /\ Progress => pc' # pc
  /\ closeOnDone => closer' # closer
BY DEF Progress, Query, queryUDP_Enter, queryUDP_Sent, queryUDP_Received, Return,
   sendQueryUDP, sendQueryUDP_Dial, sendQueryUDP_Pack, sendQueryUDP_Write,
   recvResponseUDP_Call, recvResponseUDP_Data, recvResponseUDP_Abort, closeOnDone

\* Once the context is done no step leads away from the return of queryUDP, and
\* every step of its goroutine leads nearer to it.  The goroutine that guards the
\* connection ends the wait of a blocked read.
LEMMA RemainingStep ==
  ASSUME IInv, [Next]_vars, ctx # "live"
  PROVE  /\ ctx' # "live" /\ Remaining \in 0..10 /\ Remaining' \in 0..10
         /\ Remaining' <= Remaining
         /\ Progress => Remaining' < Remaining
         /\ Remaining = 4 /\ closeOnDone => Remaining' < Remaining
         /\ Remaining = 0 <=> pc = "done"
<1>0. /\ pc \in {"start", "dial", "pack", "write", "sent", "read", "reading",
                "received", "done"}
      /\ pc \in {"start", "dial", "pack", "write", "sent"} => closer = "none"
  BY DEF IInv, TypeOK, ConnInv
<1> USE DEF Remaining
<1>1. CASE UNCHANGED vars
  <2>1. UNCHANGED <<ctx, pc, closer>>
    BY <1>1 DEF vars, sockVars, ctxVars, connVars
  <2> QED BY <1>0, <2>1, StepMoves
<1>2. CASE Query
  <2>1. /\ ctx' = ctx
        /\ \/ pc = "start" /\ pc' = "done"
           \/ pc = "sent" /\ pc' \in {"done", "read"}
           \/ pc = "received" /\ pc' = "done"
    BY <1>2 DEF Query, queryUDP_Enter, queryUDP_Sent, queryUDP_Received, Return, ctxVars
  <2> QED BY <1>0, <2>1
<1>3. CASE sendQueryUDP
  <2>1. /\ ctx' = ctx
        /\ \/ pc = "dial" /\ pc' \in {"pack", "sent"}
           \/ pc = "pack" /\ pc' \in {"write", "sent"}
           \/ pc = "write" /\ pc' = "sent"
    BY <1>3 DEF sendQueryUDP, sendQueryUDP_Dial, sendQueryUDP_Pack, sendQueryUDP_Write,
       ctxVars
  <2> QED BY <1>0, <2>1
<1>4. CASE \/ recvResponseUDP_Call \/ recvResponseUDP_Data
           \/ recvResponseUDP_Abort \/ recvResponseUDP_NetworkError
  <2>1. /\ ctx' = ctx
        /\ \/ pc = "read" /\ pc' \in {"received", "reading"}
           \/ pc = "reading" /\ pc' = "received"
    BY <1>4 DEF recvResponseUDP_Call, recvResponseUDP_Data, recvResponseUDP_Abort,
       recvResponseUDP_NetworkError, ctxVars
  <2> QED BY <1>0, <2>1
<1>5. CASE closeOnDone
  <2>1. ctx' = ctx /\ pc' = pc /\ closer = "waiting" /\ closer' = "exited"
    BY <1>5 DEF closeOnDone, ctxVars
  <2> QED BY <1>0, <2>1, StepMoves
<1>6. CASE Environment
  <2>1. ctx' # "live" /\ pc' = pc /\ closer' = closer
    BY <1>6 DEF Environment, Cancel, DeadlinePasses, ContextExpires, callerCancels,
       clockPassesDeadline, timerFires, Deliver, ctxVars, connVars
  <2> QED BY <1>0, <2>1, StepMoves
<1> QED
  BY <1>1, <1>2, <1>3, <1>4, <1>5, <1>6 DEF Next, Helpers, sendQueryUDP, Terminated

\* The clock does not run backwards, and a goroutine that has been told to close the
\* connection waits until it has closed it.
LEMMA GuardStep ==
  ASSUME [Next]_vars
  PROVE  /\ hasDeadline' = hasDeadline /\ (late => late') /\ (ctx # "live" => ctx' # "live")
         /\ closer = "waiting" /\ cancelled /\ pc = "done" =>
              \/ closer' = "waiting" /\ cancelled' /\ pc' = "done"
              \/ closer' = "exited" /\ conn' = "closed"
<1>1. CASE UNCHANGED vars
  BY <1>1 DEF vars, sockVars, ctxVars, connVars
<1>2. CASE Query
  BY <1>2 DEF Query, queryUDP_Enter, queryUDP_Sent, queryUDP_Received, ctxVars
<1>3. CASE sendQueryUDP
  BY <1>3 DEF sendQueryUDP, sendQueryUDP_Dial, sendQueryUDP_Pack, sendQueryUDP_Write,
     ctxVars
<1>4. CASE \/ recvResponseUDP_Call \/ recvResponseUDP_Data
           \/ recvResponseUDP_Abort \/ recvResponseUDP_NetworkError
  BY <1>4 DEF recvResponseUDP_Call, recvResponseUDP_Data, recvResponseUDP_Abort,
     recvResponseUDP_NetworkError, ctxVars
<1>5. CASE closeOnDone
  BY <1>5 DEF closeOnDone, ctxVars
<1>6. CASE Environment
  BY <1>6 DEF Environment, Cancel, DeadlinePasses, ContextExpires, callerCancels,
     clockPassesDeadline, timerFires, Deliver, ctxVars, connVars
<1> QED
  BY <1>1, <1>2, <1>3, <1>4, <1>5, <1>6 DEF Next, Helpers, sendQueryUDP, Terminated

-----------------------------------------------------------------------------
\* The refinement

\* What the helper functions return, error by error.
RetInv ==
  /\ pc = "sent" => \/ ret = Nothing
                    \/ \E e \in {"dial", "pack", "write"} : ret = Err(e)
  /\ pc = "received" =>
       \/ \E e \in {"closed", "timeout", "net", "unpack"} : ret = Err(e)
       \/ /\ \E w \in BOOLEAN : ret = Msg(arrived[1], w)
          /\ nread = 1 /\ arrived[1] \in Msgs

\* The helper functions keep to it.
LEMMA RetStep ==
  ASSUME IInv, RetInv, [Next]_vars
  PROVE  RetInv'
<1> USE DEF RetInv
<1>1. CASE sendQueryUDP_Dial \/ sendQueryUDP_Pack \/ sendQueryUDP_Write
  BY <1>1 DEF sendQueryUDP_Dial, sendQueryUDP_Pack, sendQueryUDP_Write
<1>2. CASE recvResponseUDP_Call
  BY <1>2 DEF recvResponseUDP_Call
<1>3. CASE recvResponseUDP_Data
  <2>1. nread = 0 /\ nread' = 1 /\ arrived' = arrived /\ pc' = "received"
        /\ arrived[1] \in Payloads /\ ret' \in Unpack(arrived[1])
    BY <1>3 DEF recvResponseUDP_Data, IInv, ResultInv, TypeOK, SockTypeOK
  <2>2. edns0MaxResponseSize(extra) \in Nat
    BY ExtrasAssumption DEF IInv, TypeOK, SockTypeOK, ctxTypeOK
  <2>3. \/ ret' = Err("unpack")
        \/ arrived[1] \in Msgs /\ \E w \in BOOLEAN : ret' = Msg(arrived[1], w)
    BY <2>1, <2>2, PrefixType DEF Unpack
  <2> QED
    BY <2>1, <2>3
<1>4. CASE recvResponseUDP_Abort \/ recvResponseUDP_NetworkError
  BY <1>4 DEF recvResponseUDP_Abort, recvResponseUDP_NetworkError
<1>5. CASE Deliver
  <2>1. PICK d \in Payloads : arrived' = Append(arrived, d)
    BY <1>5 DEF Deliver
  <2>2. nread = 1 => arrived'[1] = arrived[1]
    BY <2>1 DEF IInv, TypeOK, SockTypeOK
  <2> QED
    BY <1>5, <2>2 DEF Deliver
<1>6. CASE closeOnDone
  BY <1>6 DEF closeOnDone, netVars
<1>7. CASE Cancel \/ DeadlinePasses \/ ContextExpires
  BY <1>7 DEF Cancel, DeadlinePasses, ContextExpires, netVars
<1>8. CASE Query
  BY <1>8 DEF Query, queryUDP_Enter, queryUDP_Sent, queryUDP_Received, Return
<1>9. CASE UNCHANGED vars
  BY <1>9 DEF vars, sockVars, netVars
<1> QED
  BY <1>1, <1>2, <1>3, <1>4, <1>5, <1>6, <1>7, <1>8, <1>9
     DEF Next, Helpers, Environment, Terminated

\* A returned error is a failure or a justified abort of the contract.
LEMMA ErrorRefines ==
  ASSUME pc # "done", NEW e \in Errors, Return(Err(e)), UNCHANGED <<ctxVars, arrived>>,
         e \in {"ctx", "closed", "timeout"} => ctx # "live" \/ late
  PROVE  Contract!ReturnAborted \/ Contract!ReturnFailed
<1>1. pc' = "done" /\ result' = Err(e)
  BY DEF Return
<1>2. CallState(pc) # "returned" /\ CallState(pc)' = "returned"
  BY <1>1 DEF CallState
<1>3. Outcome(pc = "done", result)' = Outcome(TRUE, Err(e))
  BY <1>1
<1>4. CASE e \in {"ctx", "closed", "timeout"}
  <2>1. Outcome(TRUE, Err(e)) = Contract!Aborted
    BY <1>4, OutcomeError DEF Contract!Aborted
  <2> QED
    BY <1>2, <1>3, <1>4, <2>1 DEF Contract!ReturnAborted, ctxVars
<1>5. CASE e \notin {"ctx", "closed", "timeout"}
  <2>1. Outcome(TRUE, Err(e)) = Contract!Failed
    BY <1>5, OutcomeError DEF Contract!Failed
  <2> QED
    BY <1>2, <1>3, <2>1 DEF Contract!ReturnFailed, ctxVars
<1> QED
  BY <1>4, <1>5

\* A step inside the running query is invisible.
LEMMA QuietRefines ==
  ASSUME pc \notin {"start", "done"}, pc' \notin {"start", "done"},
         UNCHANGED <<ctxVars, arrived>>
  PROVE  UNCHANGED Contract!cvars
<1>1. CallState(pc) = "running" /\ CallState(pc)' = "running"
  BY DEF CallState
<1>2. Outcome(pc = "done", result)' = Outcome(pc = "done", result)
  BY DEF Outcome
<1> QED
  BY <1>1, <1>2 DEF Contract!cvars, ctxVars

\* The steps of queryUDP itself.
LEMMA QueryRefines ==
  ASSUME IInv, RetInv, Query
  PROVE  Contract!Next \/ UNCHANGED Contract!cvars
<1> USE DEF Contract!Next
<1>1. CASE queryUDP_Enter
  <2>1. pc = "start" /\ UNCHANGED <<ctxVars, arrived>>
    BY <1>1 DEF queryUDP_Enter, netVars
  <2>2. CASE ctx # "live" /\ Return(Err("ctx"))
    BY <2>1, <2>2, ErrorRefines, AbortErrors
  <2>3. CASE ctx = "live" /\ pc' = "dial" /\ UNCHANGED result
    <3>1. CallState(pc) = "called" /\ CallState(pc)' = "running"
      BY <2>1, <2>3 DEF CallState
    <3>2. Outcome(pc = "done", result)' = Outcome(pc = "done", result)
      BY <2>1, <2>3 DEF Outcome
    <3> QED
      BY <2>1, <2>3, <3>1, <3>2 DEF Contract!Begin, ctxVars
  <2> QED
    BY <1>1, <2>2, <2>3 DEF queryUDP_Enter
<1>2. CASE queryUDP_Sent
  <2>1. pc = "sent" /\ UNCHANGED <<ctxVars, arrived>>
    BY <1>2 DEF queryUDP_Sent, netVars
  <2>2. CASE ret.err # "nil" /\ Return(ret)
    <3>1. PICK e \in {"dial", "pack", "write"} : ret = Err(e)
      BY <2>1, <2>2 DEF RetInv, Nothing
    <3>2. e \in Errors /\ e \notin {"ctx", "closed", "timeout"}
      BY DEF Errors
    <3> QED
      BY <2>1, <2>2, <3>1, <3>2, ErrorRefines
  <2>3. CASE pc' = "read"
    BY <2>1, <2>3, QuietRefines
  <2> QED
    BY <1>2, <2>2, <2>3 DEF queryUDP_Sent
<1>3. CASE queryUDP_Received
  <2>1. pc = "received" /\ Return(ret) /\ UNCHANGED <<ctxVars, arrived>>
    BY <1>3 DEF queryUDP_Received, netVars
  <2>2. ASSUME NEW e \in {"closed", "timeout", "net", "unpack"}, ret = Err(e)
        PROVE  Contract!ReturnAborted \/ Contract!ReturnFailed
    <3>1. e \in Errors /\ e # "ctx"
      BY DEF Errors
    <3>2. e \in {"closed", "timeout"} => ctx # "live" \/ late
      BY <2>1, <2>2 DEF IInv, ResultInv, Explained, Err
    <3> QED
      BY <2>1, <2>2, <3>1, <3>2, ErrorRefines
  <2>3. ASSUME NEW w \in BOOLEAN, ret = Msg(arrived[1], w), nread = 1, arrived[1] \in Msgs
        PROVE  Contract!ReturnMessage
    <3>1. arrived # <<>>
      BY <2>3 DEF IInv, TypeOK, SockTypeOK
    <3>2. pc' = "done" /\ result' = Msg(arrived[1], w)
      BY <2>1, <2>3 DEF Return
    <3>3. CallState(pc) = "running" /\ CallState(pc)' = "returned"
      BY <2>1, <3>2 DEF CallState
    <3>4. Outcome(pc = "done", result)' = Contract!Message(arrived[1])
      BY <3>2, OutcomeMessage DEF Contract!Message
    <3> QED
      BY <2>1, <2>3, <3>1, <3>3, <3>4 DEF Contract!ReturnMessage, ctxVars
  <2> QED
    BY <2>1, <2>2, <2>3 DEF RetInv
<1> QED
  BY <1>1, <1>2, <1>3 DEF Query

\* Implements: queryUDP keeps the promise of Transport.Query, whatever arrives.
THEOREM Refinement == Spec => Implements
<1>1. Init => Contract!Init
  <2> SUFFICES ASSUME Init PROVE Contract!Init
    OBVIOUS
  <2>1. pc = "start" /\ arrived = <<>> /\ late \in BOOLEAN
    BY ContextInit DEF Init, SockInit, ctxTypeOK
  <2>2. CallState(pc) = "called"
    BY <2>1 DEF CallState
  <2>3. Outcome(pc = "done", result) = Contract!Pending
    BY <2>1 DEF Outcome, Contract!Pending
  <2> QED
    BY <2>1, <2>2, <2>3 DEF Contract!Init
<1>2. Init => RetInv
  BY DEF Init, SockInit, RetInv
<1>3. IInv /\ RetInv /\ [Next]_vars => RetInv'
  BY RetStep
<1>4. IInv /\ RetInv /\ [Next]_vars => [Contract!Next]_(Contract!cvars)
  <2> SUFFICES ASSUME IInv, RetInv, [Next]_vars
               PROVE  Contract!Next \/ UNCHANGED Contract!cvars
    OBVIOUS
  <2>1. CASE Helpers /\ ~closeOnDone
    <3>1. pc \notin {"start", "done"} /\ UNCHANGED <<ctxVars, arrived>>
          /\ pc' \in {"pack", "write", "sent", "reading", "received"}
      BY <2>1 DEF Helpers, sendQueryUDP_Dial, sendQueryUDP_Pack, sendQueryUDP_Write,
         recvResponseUDP_Call, recvResponseUDP_Data, recvResponseUDP_Abort,
         recvResponseUDP_NetworkError, netVars
    <3> QED
      BY <3>1, QuietRefines
  <2>2. CASE (closeOnDone /\ UNCHANGED result) \/ UNCHANGED vars
    <3>1. UNCHANGED <<ctxVars, pc, arrived, result>>
      BY <2>2 DEF closeOnDone, vars, sockVars, netVars
    <3>2. CallState(pc)' = CallState(pc)
      BY <3>1
    <3>3. Outcome(pc = "done", result)' = Outcome(pc = "done", result)
      BY <3>1
    <3> QED
      BY <3>1, <3>2, <3>3 DEF Contract!cvars, ctxVars
  <2>3. CASE (Cancel \/ DeadlinePasses \/ ContextExpires) /\ UNCHANGED result
    <3>1. UNCHANGED <<pc, arrived, result>> /\ (callerCancels \/ clockPassesDeadline \/ timerFires)
      BY <2>3 DEF Cancel, DeadlinePasses, ContextExpires, netVars
    <3>2. (ctx # "live" => ctx' # "live") /\ (late => late')
      BY <3>1, ContextStep DEF IInv, TypeOK, SockTypeOK
    <3>3. CallState(pc)' = CallState(pc)
      BY <3>1
    <3>4. Outcome(pc = "done", result)' = Outcome(pc = "done", result)
      BY <3>1
    <3> QED
      BY <3>1, <3>2, <3>3, <3>4 DEF Contract!Next, Contract!ContextChanges
  <2>4. CASE Deliver /\ UNCHANGED result
    <3>1. pc # "start" /\ UNCHANGED <<ctxVars, pc, result>>
      BY <2>4 DEF Deliver, IInv, ConnInv
    <3>2. \E d \in Msgs \cup {Garbage} : arrived' = Append(arrived, d)
      BY <2>4 DEF Deliver, Payloads
    <3>3. CallState(pc) # "called" /\ CallState(pc)' = CallState(pc)
      BY <3>1 DEF CallState
    <3>4. Outcome(pc = "done", result)' = Outcome(pc = "done", result)
      BY <3>1
    <3> QED
      BY <3>1, <3>2, <3>3, <3>4 DEF Contract!Next, Contract!Receive, ctxVars
  <2> QED
    BY <2>1, <2>2, <2>3, <2>4, QueryRefines DEF Next, Environment, Terminated
<1> QED
  BY <1>1, <1>2, <1>3, <1>4, Invariance, PTL DEF Spec, Implements, Contract!Spec
=============================================================================
