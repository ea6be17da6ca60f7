------------------------------ MODULE UDPSocket ------------------------------
(***************************************************************************)
(* The part of src/doudp.go that queryUDP and queryUDPWithDuplicates share: *)
(* sendQueryUDP, recvResponseUDP, the goroutine that closes the connection  *)
(* when the context is done, and their environment (the caller's context,   *)
(* the clock, the network).  UDPQuery and UDPDuplicates extend this module  *)
(* with the two functions that call it.                                     *)
(*                                                                         *)
(* A helper function leaves its return values in the register ret; its      *)
(* caller takes over at pc = "sent" (after sendQueryUDP) and at             *)
(* pc = "received" (after recvResponseUDP).                                 *)
(***************************************************************************)
EXTENDS QueryCall

CONSTANT MaxDatagrams   \* bound on the datagrams the network delivers

ASSUME SocketAssumption == MaxDatagrams \in Nat

VARIABLES
  pc,            \* control point of the goroutine that runs the query
  ret,           \* what the last helper function returned
  conn,          \* "none", "open" or "closed"
  connDeadline,  \* conn.SetDeadline was called
  closer,        \* the closing goroutine: "none", "waiting" or "exited"
  cancelled,     \* the deferred cancel() of the derived context has run
  arrived,       \* the datagrams that reached the socket, in order
  nread          \* how many of them conn.Read has returned

netVars  == <<arrived, nread>>
connVars == <<conn, connDeadline, closer, cancelled>>
sockVars == <<ctxVars, pc, ret, connVars, netVars>>

-----------------------------------------------------------------------------

\* Message m fits into the buffer that recvResponseUDP reads into.
Fits(m) == Size[m] <= edns0MaxResponseSize(extra)

\* Mutant: the buffer is one byte short.
Unpack_ShortBuffer(d) == UnpackPrefix(d, edns0MaxResponseSize(extra) - 1)

\* What recvResponseUDP makes of a datagram, read into a buffer of that size.
Unpack(d) == UnpackPrefix(d, edns0MaxResponseSize(extra))

\* The context derived with context.WithCancel is done.
derivedDone == ctx # "live" \/ cancelled

-----------------------------------------------------------------------------
\* Environment: the caller, the clock and the network.

Cancel == callerCancels /\ UNCHANGED <<pc, ret, connVars, netVars>>

DeadlinePasses == clockPassesDeadline /\ UNCHANGED <<pc, ret, connVars, netVars>>

ContextExpires == timerFires /\ UNCHANGED <<pc, ret, connVars, netVars>>

\* The network hands the socket any datagram.  A lost datagram is one that is
\* never delivered, a duplicate one that is delivered again.
Deliver ==
  /\ conn = "open" /\ Len(arrived) < MaxDatagrams
  /\ \E d \in Payloads : arrived' = Append(arrived, d)
  /\ UNCHANGED <<ctxVars, pc, ret, connVars, nread>>

Environment == Cancel \/ DeadlinePasses \/ ContextExpires \/ Deliver

-----------------------------------------------------------------------------
\* sendQueryUDP

\* Steps 1 and 2: dial, then use the context deadline for the connection.
sendQueryUDP_Dial ==
  /\ pc = "dial"
  /\ \/ /\ conn' = "open" /\ connDeadline' = hasDeadline
        /\ pc' = "pack" /\ UNCHANGED ret
     \/ /\ ret' = Err("dial") /\ pc' = "sent"
        /\ UNCHANGED <<conn, connDeadline>>
  /\ UNCHANGED <<ctxVars, closer, cancelled, netVars>>

\* Step 3: serialize the query.
sendQueryUDP_Pack ==
  /\ pc = "pack"
  /\ \/ pc' = "write" /\ UNCHANGED ret
     \/ pc' = "sent" /\ ret' = Err("pack")
  /\ UNCHANGED <<ctxVars, connVars, netVars>>

\* Step 4: send the query.  The write fails when the deadline has passed, and
\* may fail for reasons of the network.
sendQueryUDP_Write ==
  /\ pc = "write"
  /\ pc' = "sent"
  /\ \/ ~(connDeadline /\ late) /\ ret' = Nothing
     \/ ret' = Err("write")
  /\ UNCHANGED <<ctxVars, connVars, netVars>>

sendQueryUDP == sendQueryUDP_Dial \/ sendQueryUDP_Pack \/ sendQueryUDP_Write

-----------------------------------------------------------------------------
\* recvResponseUDP

\* conn.Read is called: it fails at once on a closed connection or after the
\* deadline, otherwise it blocks.
recvResponseUDP_Call ==
  /\ pc = "read"
  /\ \/ /\ conn = "closed"
        /\ ret' = Err("closed") /\ pc' = "received"
     \/ /\ conn = "open" /\ connDeadline /\ late
        /\ ret' = Err("timeout") /\ pc' = "received"
     \/ /\ conn = "open" /\ ~(connDeadline /\ late)
        /\ pc' = "reading" /\ UNCHANGED ret
  /\ UNCHANGED <<ctxVars, connVars, netVars>>

\* A blocked conn.Read returns a datagram, which is then parsed.  The datagram
\* may win against a close or a deadline that happens at the same time.
recvResponseUDP_Data ==
  /\ pc = "reading" /\ nread < Len(arrived)
  /\ ret' \in Unpack(arrived[nread + 1])
  /\ nread' = nread + 1
  /\ pc' = "received"
  /\ UNCHANGED <<ctxVars, connVars, arrived>>

\* A blocked conn.Read fails: the connection was closed, or its deadline passed.
recvResponseUDP_Abort ==
  /\ pc = "reading"
  /\ \/ conn = "closed" /\ ret' = Err("closed")
     \/ connDeadline /\ late /\ ret' = Err("timeout")
  /\ pc' = "received"
  /\ UNCHANGED <<ctxVars, connVars, netVars>>

\* A blocked conn.Read fails for a reason of the network (port unreachable).
recvResponseUDP_NetworkError ==
  /\ pc = "reading"
  /\ ret' = Err("net")
  /\ pc' = "received"
  /\ UNCHANGED <<ctxVars, connVars, netVars>>

-----------------------------------------------------------------------------

\* The goroutine with the deferred conn.Close(), waiting for <-ctx.Done().
closeOnDone ==
  /\ closer = "waiting" /\ derivedDone
  /\ conn' = "closed"
  /\ closer' = "exited"
  /\ UNCHANGED <<ctxVars, pc, ret, connDeadline, cancelled, netVars>>

\* The steps of the shared functions.
Helpers ==
  \/ sendQueryUDP_Dial \/ sendQueryUDP_Pack \/ sendQueryUDP_Write
  \/ recvResponseUDP_Call \/ recvResponseUDP_Data
  \/ recvResponseUDP_Abort \/ recvResponseUDP_NetworkError
  \/ closeOnDone

-----------------------------------------------------------------------------

SockInit ==
  /\ ctxInit
  /\ pc = "start"
  /\ ret = Nothing
  /\ conn = "none"
  /\ connDeadline = FALSE
  /\ closer = "none"
  /\ cancelled = FALSE
  /\ arrived = <<>>
  /\ nread = 0

SockTypeOK ==
  /\ ctxTypeOK
  /\ ret \in Results
  /\ conn \in {"none", "open", "closed"}
  /\ connDeadline \in BOOLEAN
  /\ closer \in {"none", "waiting", "exited"}
  /\ cancelled \in BOOLEAN
  /\ arrived \in Seq(Payloads)
  /\ nread \in 0..Len(arrived)

\* Fairness of the runtime: the goroutines and the timers make progress.  The
\* caller need not cancel and the network need not deliver.
SockFairness ==
  /\ WF_sockVars(DeadlinePasses) /\ WF_sockVars(ContextExpires)
  /\ WF_sockVars(sendQueryUDP)
  /\ WF_sockVars(recvResponseUDP_Call) /\ WF_sockVars(recvResponseUDP_Data)
  /\ WF_sockVars(recvResponseUDP_Abort)
  /\ WF_sockVars(closeOnDone)
=============================================================================
