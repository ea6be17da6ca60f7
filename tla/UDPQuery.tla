------------------------------ MODULE UDPQuery ------------------------------
(***************************************************************************)
(* Transport.queryUDP of src/doudp.go: one query over a fresh connection,  *)
(* the first message that arrives is the answer.                            *)
(***************************************************************************)
EXTENDS UDPSocket

VARIABLE result   \* what queryUDP returned to its caller

vars == <<sockVars, result>>

\* The return statement, with the deferred cancel() if it was registered.
Return(r) ==
  /\ result' = r
  /\ pc' = "done"
  /\ IF closer # "none" THEN cancelled' = TRUE ELSE UNCHANGED cancelled

-----------------------------------------------------------------------------

\* Step 0: fail at once if the context is already done.
queryUDP_Enter ==
  /\ pc = "start"
  /\ \/ ctx # "live" /\ Return(Err("ctx"))
     \/ ctx = "live" /\ pc' = "dial" /\ UNCHANGED <<cancelled, result>>
  /\ UNCHANGED <<ctxVars, ret, conn, connDeadline, closer, netVars>>

\* Mutant: no goroutine reacts to the context.
queryUDP_Sent_NoCloser ==
  /\ pc = "sent"
  /\ \/ ret.err # "nil" /\ Return(ret)
     \/ /\ ret.err = "nil"
        /\ pc' = "read"
        /\ UNCHANGED <<cancelled, result>>
  /\ UNCHANGED <<ctxVars, ret, conn, connDeadline, closer, netVars>>

\* sendQueryUDP has returned: give up on an error, otherwise derive a context
\* and start the goroutine that closes the connection.
queryUDP_Sent ==
  /\ pc = "sent"
  /\ \/ ret.err # "nil" /\ Return(ret) /\ UNCHANGED closer
     \/ /\ ret.err = "nil"
        /\ closer' = "waiting" /\ pc' = "read"
        /\ UNCHANGED <<cancelled, result>>
  /\ UNCHANGED <<ctxVars, ret, conn, connDeadline, netVars>>

\* recvResponseUDP has returned: return its result.
queryUDP_Received ==
  /\ pc = "received"
  /\ Return(ret)
  /\ UNCHANGED <<ctxVars, ret, conn, connDeadline, closer, netVars>>

Query == queryUDP_Enter \/ queryUDP_Sent \/ queryUDP_Received

\* The steps of the goroutine that runs the query, but for waiting.
Progress ==
  \/ Query
  \/ /\ \/ sendQueryUDP \/ recvResponseUDP_Call
        \/ recvResponseUDP_Data \/ recvResponseUDP_Abort
     /\ UNCHANGED result

\* The query has returned and its goroutine is gone.
Terminated ==
  /\ pc = "done" /\ closer # "waiting"
  /\ UNCHANGED vars

Init == SockInit /\ result = Nothing

Next ==
  \/ Query
  \/ (Helpers \/ Environment) /\ UNCHANGED result
  \/ Terminated

Spec == Init /\ [][Next]_vars

-----------------------------------------------------------------------------
\* Properties

\* queryUDP keeps its state well formed.
TypeOK ==
  /\ SockTypeOK
  /\ pc \in {"start", "dial", "pack", "write", "sent", "read", "reading",
             "received", "done"}
  /\ result \in Results

\* A message that queryUDP returns is the first datagram that reached the
\* socket, and it is only ever a part of it when the datagram was larger than
\* the response size the query advertised (or 512 bytes when it advertised
\* none): "the first message received from the server".
FirstMessage ==
  (pc = "done" /\ result.err = "nil") =>
     /\ nread = 1
     /\ result.msg = arrived[1]
     /\ ~result.whole => ~Fits(result.msg)

\* queryUDP never aborts itself: the connection is closed under a pending read
\* only when the caller's context is done, and a read times out only after the
\* caller's deadline.
AbortOnlyWhenDone ==
  /\ result.err = "closed" => ctx # "live"
  /\ result.err = "timeout" => hasDeadline /\ late

\* Every connection that outlives the sending phase has an owner: once queryUDP
\* has returned, an open connection has a goroutine that will close it
\* ("the caller TAKES OWNERSHIP of the returned connection").
NoOrphanConn ==
  (pc = "done" /\ conn = "open") => closer = "waiting"

\* The same for the queries whose send succeeded: there the connection always
\* has the closing goroutine while it is open.
OwnedAfterSend ==
  (pc \in {"read", "reading", "received", "done"} /\ conn = "open"
     /\ result.err \notin {"pack", "write"}) => closer = "waiting"

Contract == INSTANCE QueryContract WITH
  ctxDone <- ctx # "live",
  call    <- CallState(pc),
  outcome <- Outcome(pc = "done", result),
  inbox   <- arrived

\* queryUDP keeps the promise of Transport.Query.
Implements == Contract!Spec
=============================================================================
