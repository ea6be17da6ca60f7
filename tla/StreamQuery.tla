----------------------------- MODULE StreamQuery -----------------------------
(***************************************************************************)
(* DNS over TCP and over TLS: queryTCP and queryStream of src/dotcp.go, and   *)
(* queryTLS of src/dotls.go, which differs only in how it dials.             *)
(*                                                                         *)
(* The server's side of the stream is chosen at the start and arrives in     *)
(* pieces of any length: two length bytes, the bytes of a message, and       *)
(* whatever follows.  The length bytes need not fit the message, and the     *)
(* stream may end anywhere.                                                 *)
(***************************************************************************)
EXTENDS ServerSide, MsgFrame

VARIABLES
  proto,         \* addr.Protocol: "tcp" or "dot"
  qsize,         \* len(rawQuery)
  stream,        \* what the server sends on this connection
  pc,            \* control point of the goroutine that runs the query
  conn,          \* "none", "open" or "closed"
  connDeadline,  \* conn.SetDeadline was called
  closer,        \* the closing goroutine: "none", "waiting" or "exited"
  cancelled,     \* the deferred cancel() of the derived context has run
  written,       \* the header of the frame that conn.Write has sent
  nread,         \* how many bytes of the stream conn.Read has returned
  length,        \* the length queryStream has read from the header, or -1
  result         \* what the query returned to its caller

argVars  == <<ctxVars, proto, qsize, stream>>
connVars == <<conn, connDeadline, closer, cancelled>>
readVars == <<nread, length>>
vars == <<argVars, pc, connVars, written, readVars, result>>

\* The bytes of the stream, and those of its first frame.
streamLen == 2 + Size[stream.body] + stream.rest
declared == frameLength(stream.header)

\* Mutant: the deferred cancel() is missing.
Return_NoCancel(r) == result' = r /\ pc' = "done" /\ UNCHANGED cancelled

\* The return statement, with the deferred cancel() if it was registered.
Return(r) ==
  /\ result' = r /\ pc' = "done"
  /\ IF closer # "none" THEN cancelled' = TRUE ELSE UNCHANGED cancelled

Goto(label) == pc' = label /\ UNCHANGED <<cancelled, result>>

-----------------------------------------------------------------------------
\* queryTCP and queryTLS

\* Mutant: the check of the context is missing.
query_Enter_NoCheck ==
  /\ pc = "start"
  /\ Goto("dial")
  /\ UNCHANGED <<argVars, conn, connDeadline, closer, written, readVars>>

\* Step 0: fail at once if the context is already done.
query_Enter ==
  /\ pc = "start"
  /\ \/ ctx # "live" /\ Return(Err("ctx"))
     \/ ctx = "live" /\ Goto("dial")
  /\ UNCHANGED <<argVars, conn, connDeadline, closer, written, readVars>>

\* dialContext returns a connection or an error.
dialContext ==
  /\ pc = "dial"
  /\ \/ conn' = "open" /\ Goto("setup")
     \/ Return(Err("dial")) /\ UNCHANGED conn
  /\ UNCHANGED <<argVars, connDeadline, closer, written, readVars>>

\* dialTLSContext does the same, handshake included; it also fails for an address
\* without a port.
dialTLSContext == dialContext

queryTCP == proto = "tcp" /\ (query_Enter \/ dialContext)

queryTLS == proto = "dot" /\ (query_Enter \/ dialTLSContext)

-----------------------------------------------------------------------------
\* queryStream

\* Mutant: the goroutine that closes the connection is not started.
queryStream_Setup_NoCloser ==
  /\ pc = "setup"
  /\ connDeadline' = hasDeadline
  /\ Goto("pack")
  /\ UNCHANGED <<argVars, conn, closer, written, readVars>>

\* Steps 1 and 2: start the closing goroutine, set the deadline.  Nothing
\* happens on the connection in between.
queryStream_Setup ==
  /\ pc = "setup"
  /\ closer' = "waiting"
  /\ connDeadline' = hasDeadline
  /\ Goto("pack")
  /\ UNCHANGED <<argVars, conn, written, readVars>>

\* Steps 3 and 4: serialize the query and wrap it into a frame.
queryStream_Pack ==
  /\ pc = "pack"
  /\ \/ Return(Err("pack"))
     \/ newRawMsgFrame(qsize) = <<>> /\ Return(Err("toolarge"))
     \/ newRawMsgFrame(qsize) # <<>> /\ Goto("write")
  /\ UNCHANGED <<argVars, conn, connDeadline, closer, written, readVars>>

\* How an operation on the connection is aborted: the connection is closed, or
\* its deadline has passed.
Aborts(r) ==
  \/ conn = "closed" /\ r = Err("closed")
  \/ connDeadline /\ late /\ r = Err("timeout")

Usable == conn = "open" /\ ~(connDeadline /\ late)

\* Step 5: send the frame.
queryStream_Write ==
  /\ pc = "write"
  /\ \/ /\ Usable
        /\ written' = newRawMsgFrame(qsize)
        /\ Goto("read")
     \/ \E r \in {Err("closed"), Err("timeout")} :
          Aborts(r) /\ Return(r) /\ UNCHANGED written
     \/ Return(Err("write")) /\ UNCHANGED written
  /\ UNCHANGED <<argVars, conn, connDeadline, closer, readVars>>

\* Mutant: one read is taken for the whole header or the whole body.
need_OneRead == IF length = -1 THEN 1 ELSE 3

\* The number of bytes that complete the pending io.ReadFull.
need == IF length = -1 THEN 2 ELSE 2 + length

\* io.ReadFull: conn.Read is called until there are enough bytes.  A call fails
\* at once if the connection is not usable, otherwise it blocks.
ReadFull_Call ==
  /\ pc = "read" /\ nread < need
  /\ \/ Usable /\ Goto("reading")
     \/ \E r \in {Err("closed"), Err("timeout")} : Aborts(r) /\ Return(r)
  /\ UNCHANGED <<argVars, conn, connDeadline, closer, written, readVars>>

\* A blocked conn.Read returns the next piece of the stream.  It may win against
\* a close or a deadline that happens at the same time.
ReadFull_Data ==
  /\ pc = "reading"
  /\ \E n \in PieceEnds : nread < n /\ n <= streamLen /\ nread' = n
  /\ Goto("read")
  /\ UNCHANGED <<argVars, conn, connDeadline, closer, written, length>>

\* A blocked conn.Read fails: closed, deadline, end of the stream, or reset.
ReadFull_Fail ==
  /\ pc = "reading"
  /\ \/ \E r \in {Err("closed"), Err("timeout")} : Aborts(r) /\ Return(r)
     \/ Return(Err("eof"))
     \/ Return(Err("net"))
  /\ UNCHANGED <<argVars, conn, connDeadline, closer, written, readVars>>

\* Step 6: the header is complete.
queryStream_Header ==
  /\ pc = "read" /\ length = -1 /\ nread >= need
  /\ length' = frameLength(stream.header)
  /\ UNCHANGED <<argVars, pc, connVars, written, nread, result>>

\* Step 7: the body is complete and is parsed.
queryStream_Unpack ==
  /\ pc = "read" /\ length # -1 /\ nread >= need
  /\ \E r \in UnpackPrefix(stream.body, length) : Return(r)
  /\ UNCHANGED <<argVars, conn, connDeadline, closer, written, readVars>>

\* Mutant: the goroutine does not wait for the context.
closeOnDone_NoWait ==
  /\ closer = "waiting"
  /\ conn' = "closed" /\ closer' = "exited"
  /\ UNCHANGED <<argVars, pc, connDeadline, cancelled, written, readVars, result>>

\* The goroutine with the deferred conn.Close(), waiting for <-ctx.Done().
closeOnDone ==
  /\ closer = "waiting" /\ (ctx # "live" \/ cancelled)
  /\ conn' = "closed" /\ closer' = "exited"
  /\ UNCHANGED <<argVars, pc, connDeadline, cancelled, written, readVars, result>>

-----------------------------------------------------------------------------

Context ==
  /\ callerCancels \/ clockPassesDeadline \/ timerFires
  /\ UNCHANGED <<proto, qsize, stream, pc, connVars, written, readVars, result>>

\* The steps of the query that do not wait for the server.
Query ==
  \/ queryTCP \/ queryTLS
  \/ queryStream_Setup \/ queryStream_Pack \/ queryStream_Write
  \/ ReadFull_Call \/ queryStream_Header \/ queryStream_Unpack

\* The same and the reads that are aborted: what the goroutine does by itself.
Progress ==
  \/ Query
  \/ (Aborts(Err("closed")) \/ Aborts(Err("timeout"))) /\ ReadFull_Fail

\* The query has returned and its goroutine is gone.
Terminated == pc = "done" /\ closer # "waiting" /\ UNCHANGED vars

streamInit ==
  /\ ctxInit
  /\ qsize \in QuerySizes /\ stream \in Streams
  /\ pc = "start"
  /\ conn = "none" /\ connDeadline = FALSE
  /\ closer = "none" /\ cancelled = FALSE
  /\ written = <<>>
  /\ nread = 0 /\ length = -1
  /\ result = Nothing

Init == proto \in {"tcp", "dot"} /\ streamInit

Next ==
  \/ Query \/ ReadFull_Data \/ ReadFull_Fail
  \/ closeOnDone \/ Context \/ Terminated

Spec == Init /\ [][Next]_vars

-----------------------------------------------------------------------------
\* Properties

\* The query over a stream keeps its state well formed; in particular the length
\* it computes from the header is one of an uint16.
TypeOK ==
  /\ ctxTypeOK
  /\ proto \in {"tcp", "dot"}
  /\ qsize \in QuerySizes /\ stream \in Streams
  /\ pc \in {"start", "dial", "setup", "pack", "write", "read", "reading", "done"}
  /\ conn \in {"none", "open", "closed"}
  /\ connDeadline \in BOOLEAN
  /\ closer \in {"none", "waiting", "exited"}
  /\ cancelled \in BOOLEAN
  /\ written \in {<<>>} \cup ((0..255) \X (0..255))
  /\ nread \in 0..streamLen
  /\ length \in -1..MaxUint16
  /\ result \in Results

\* Whatever pieces the stream arrives in, a message that queryStream returns is
\* the one in the first frame, read to the end of that frame, and only a part of
\* it if the length bytes of the server were too small for it.
FirstFrame ==
  (pc = "done" /\ result.err = "nil") =>
     /\ nread >= 2 + declared /\ length = declared
     /\ result.msg = stream.body
     /\ ~result.whole => declared < Size[stream.body]

\* The server that reads the length bytes of the query the way serveConn does
\* finds the length of the query, and only a query that two bytes cannot count is
\* refused (newRawMsgFrame).
QueryFramed ==
  /\ written # <<>> => frameLength(written) = qsize
  /\ result.err = "toolarge" => qsize > MaxUint16 /\ written = <<>>

\* The closing goroutine runs during the write and both reads, and yet the query
\* never aborts itself: it reports a closed connection only if the caller's context
\* is done, and a timeout only after the caller's deadline.
AbortOnlyWhenDone ==
  /\ result.err = "closed" => ctx # "live"
  /\ result.err = "timeout" => hasDeadline /\ late

\* "This method TAKES OWNERSHIP of the provided connection and is responsible for
\* closing it when done": on every path, errors of Pack, of the framing and of
\* Write included, an open connection has a goroutine that will close it.
ConnOwned == (pc = "done" /\ conn = "open") => closer = "waiting"

Contract == INSTANCE QueryContract WITH
  ctxDone <- ctx # "live",
  call    <- CallState(pc),
  outcome <- Outcome(pc = "done", result),
  inbox   <- IF nread >= 2 + declared THEN <<stream.body>> ELSE <<>>

\* queryTCP and queryTLS keep the promise of Transport.Query.
Implements == Contract!Spec
=============================================================================
