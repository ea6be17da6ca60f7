---------------------------- MODULE UDPDuplicates ----------------------------
(***************************************************************************)
(* Transport.QueryWithDuplicates of src/transport.go, which only works over  *)
(* UDP, and queryUDPWithDuplicates of src/doudp.go: a goroutine reads         *)
(* responses in a loop and emits them, and finally an error, on a buffered   *)
(* channel that it closes.  The reader of the channel is the environment; it *)
(* may stop reading at any time.                                            *)
(***************************************************************************)
EXTENDS UDPSocket

CONSTANT Cap   \* capacity of the channel: make(chan *MessageOrError, 4)

ASSUME CapAssumption == Cap \in Nat \ {0}

VARIABLES
  out,         \* the buffer of the channel
  closed,      \* close(out) was called
  got,         \* history: what the reader received
  dropped,     \* history: what emitMessageOrError dropped
  reader       \* the reader of the channel: "ranging", "stopped" or "finished"

chanVars == <<out, closed, got, dropped, reader>>
dupVars == <<sockVars, chanVars>>

\* Everything that was ever put on the channel, in order.
emitted == got \o out

-----------------------------------------------------------------------------

\* Mutant: a full channel drops the message instead of blocking.
emitMessageOrError_Default(r) ==
  \/ /\ Len(out) < Cap
     /\ out' = Append(out, r)
     /\ UNCHANGED dropped
  \/ /\ Len(out) = Cap
     /\ dropped' = Append(dropped, r)
     /\ UNCHANGED out

\* Mutant: a plain send, which does not look at the context.
emitMessageOrError_NoContext(r) ==
  /\ Len(out) < Cap
  /\ out' = Append(out, r)
  /\ UNCHANGED dropped

\* emitMessageOrError: the select takes a ready case, either one if both are.
emitMessageOrError(r) ==
  \/ /\ Len(out) < Cap
     /\ out' = Append(out, r)
     /\ UNCHANGED dropped
  \/ /\ ctx # "live"
     /\ dropped' = Append(dropped, r)
     /\ UNCHANGED out

\* Mutant: the return after close(out) is missing.
duplicates_Enter_NoReturn ==
  /\ pc = "start"
  /\ pc' = "dial"
  /\ IF ctx # "live"
     THEN out' = Append(out, Err("ctx")) /\ closed' = TRUE
     ELSE UNCHANGED <<out, closed>>
  /\ UNCHANGED <<ctxVars, ret, connVars, netVars, got, dropped, reader>>

\* The caller's goroutine: fail at once if the context is already done.
duplicates_Enter ==
  /\ pc = "start"
  /\ \/ /\ ctx # "live"
        /\ out' = Append(out, Err("ctx")) /\ closed' = TRUE
        /\ pc' = "done"
     \/ /\ ctx = "live"
        /\ pc' = "dial" /\ UNCHANGED <<out, closed>>
  /\ UNCHANGED <<ctxVars, ret, connVars, netVars, got, dropped, reader>>

\* QueryWithDuplicates itself, for a protocol other than UDP: a channel with one
\* error that is closed already.
QueryWithDuplicates_Refuse ==
  /\ pc = "start"
  /\ out' = Append(out, Err("duplicates")) /\ closed' = TRUE
  /\ pc' = "done"
  /\ UNCHANGED <<ctxVars, ret, connVars, netVars, got, dropped, reader>>

\* sendQueryUDP has returned: emit its error and leave, or derive a context and
\* start the goroutine that closes the connection.
duplicates_Sent ==
  /\ pc = "sent"
  /\ \/ /\ ret.err # "nil"
        /\ emitMessageOrError(ret)
        /\ pc' = "close" /\ UNCHANGED closer
     \/ /\ ret.err = "nil"
        /\ closer' = "waiting" /\ pc' = "read"
        /\ UNCHANGED <<out, dropped>>
  /\ UNCHANGED <<ctxVars, ret, conn, connDeadline, cancelled, netVars,
                 closed, got, reader>>

\* Mutant: the loop goes on after an error.
duplicates_Received_NoReturn ==
  /\ pc = "received"
  /\ emitMessageOrError(ret)
  /\ pc' = IF ret.err \in {"nil", "unpack"} THEN "read" ELSE "cancel"
  /\ UNCHANGED <<ctxVars, ret, connVars, netVars, closed, got, reader>>

\* Mutant: the error that ends the loop is not emitted.
duplicates_Received_NoError ==
  /\ pc = "received"
  /\ IF ret.err = "nil"
     THEN emitMessageOrError(ret) /\ pc' = "read"
     ELSE pc' = "cancel" /\ UNCHANGED <<out, dropped>>
  /\ UNCHANGED <<ctxVars, ret, connVars, netVars, closed, got, reader>>

\* The body of the loop after recvResponseUDP has returned: emit what it
\* returned, and leave the loop after an error.
duplicates_Received ==
  /\ pc = "received"
  /\ emitMessageOrError(ret)
  /\ pc' = IF ret.err = "nil" THEN "read" ELSE "cancel"
  /\ UNCHANGED <<ctxVars, ret, connVars, netVars, closed, got, reader>>

\* Mutant: the deferred cancel() is missing.
duplicates_Cancel_Missing ==
  /\ pc = "cancel"
  /\ pc' = "close"
  /\ UNCHANGED <<ctxVars, ret, connVars, netVars, chanVars>>

\* The deferred calls of the goroutine, last registered first.
duplicates_Cancel ==
  /\ pc = "cancel"
  /\ cancelled' = TRUE
  /\ pc' = "close"
  /\ UNCHANGED <<ctxVars, ret, conn, connDeadline, closer, netVars, chanVars>>

duplicates_Close ==
  /\ pc = "close"
  /\ closed' = TRUE
  /\ pc' = "done"
  /\ UNCHANGED <<ctxVars, ret, connVars, netVars, out, got, dropped, reader>>

Duplicates ==
  \/ QueryWithDuplicates_Refuse \/ duplicates_Enter \/ duplicates_Sent
  \/ duplicates_Received \/ duplicates_Cancel \/ duplicates_Close

-----------------------------------------------------------------------------
\* The reader of the channel

\* for r := range out
ReaderReceives ==
  /\ reader = "ranging" /\ out # <<>>
  /\ got' = Append(got, Head(out))
  /\ out' = Tail(out)
  /\ UNCHANGED <<sockVars, closed, dropped, reader>>

ReaderFinishes ==
  /\ reader = "ranging" /\ out = <<>> /\ closed
  /\ reader' = "finished"
  /\ UNCHANGED <<sockVars, out, closed, got, dropped>>

\* The reader breaks out of its loop.
ReaderStops ==
  /\ reader = "ranging"
  /\ reader' = "stopped"
  /\ UNCHANGED <<sockVars, out, closed, got, dropped>>

Reader == ReaderReceives \/ ReaderFinishes \/ ReaderStops

-----------------------------------------------------------------------------

\* Every goroutine is gone and the reader has left.
DupTerminated ==
  /\ pc = "done" /\ closer # "waiting" /\ reader # "ranging"
  /\ UNCHANGED dupVars

DupInit ==
  /\ SockInit
  /\ out = <<>>
  /\ closed = FALSE
  /\ got = <<>>
  /\ dropped = <<>>
  /\ reader = "ranging"

DupNext ==
  \/ Duplicates
  \/ (Helpers \/ Environment) /\ UNCHANGED chanVars
  \/ Reader
  \/ DupTerminated

DupSpec == DupInit /\ [][DupNext]_dupVars

DupFairSpec ==
  /\ DupSpec /\ SockFairness
  /\ WF_dupVars(Duplicates)
  /\ WF_dupVars(ReaderReceives \/ ReaderFinishes)

-----------------------------------------------------------------------------
\* Properties

\* queryUDPWithDuplicates keeps its state well formed, and its channel within
\* its capacity.
DupTypeOK ==
  /\ SockTypeOK
  /\ pc \in {"start", "dial", "pack", "write", "sent", "read", "reading",
             "received", "cancel", "close", "done"}
  /\ out \in Seq(Results) /\ Len(out) <= Cap
  /\ closed \in BOOLEAN
  /\ got \in Seq(Results)
  /\ dropped \in Seq(Results)
  /\ reader \in {"ranging", "stopped", "finished"}

\* An error on the channel is the last item ever put on it: no message and no
\* second error follows it.
ErrorIsLast ==
  \A i \in 1..Len(emitted) : emitted[i].err # "nil" => i = Len(emitted)

\* The responses still in the hands of the loop.
inHand == IF pc = "received" THEN <<ret>> ELSE <<>>

\* As long as the context is live nothing is lost between the socket and the
\* channel: the items emitted so far are, in the order of arrival and one for
\* one, the datagrams read so far; a slow reader delays them only.
NoLossWhileLive ==
  (ctx = "live" /\ closer # "none") =>
     LET all == emitted \o inHand
     IN  /\ dropped = <<>>
         /\ Len(all) >= nread /\ Len(all) <= nread + 1
         /\ \A i \in 1..nread :
              /\ all[i].err = "nil" => all[i].msg = arrived[i]
              /\ all[i].err # "nil" => all[i].err = "unpack" /\ i = nread

\* The channel is closed without an error at its end only when the context was
\* done: a reader that never sees an error knows that it cancelled, and a
\* reader with a live context always learns why the responses ended.
SilentCloseOnlyWhenDone ==
  closed => \/ ctx # "live"
            \/ /\ emitted # <<>>
               /\ emitted[Len(emitted)].err # "nil"

\* A closed channel is never sent to (which would panic).
NoSendAfterClose == [][closed => emitted' = emitted]_dupVars

\* "Loop collecting responses and emitting them until the context is done":
\* after a successful send the loop ends only when the context is done.
LoopsUntilContextDone ==
  (pc = "cancel") => (ctx # "live" \/ late)

\* Nobody is stuck: the timers run, the query can be sent, a read of a closed
\* connection returns, the goroutine that guards the connection can close it, and
\* once the context is done nothing holds up the goroutine of the loop, a full
\* channel that nobody reads included.
NeverStuck ==
  /\ (hasDeadline /\ ~late) => ENABLED <<DeadlinePasses>>_sockVars
  /\ (late /\ ctx = "live") => ENABLED <<ContextExpires>>_sockVars
  /\ pc \in {"dial", "pack", "write"} => ENABLED <<sendQueryUDP>>_sockVars
  /\ pc = "read" => ENABLED <<recvResponseUDP_Call>>_sockVars
  /\ (pc = "reading" /\ conn = "closed") => ENABLED <<recvResponseUDP_Abort>>_sockVars
  /\ (closer = "waiting" /\ derivedDone) => ENABLED <<closeOnDone>>_sockVars
  /\ (ctx # "live" /\ pc \in {"start", "sent", "received", "cancel", "close"}) =>
       ENABLED <<Duplicates>>_dupVars

\* Once the context is done the channel is closed, even if nobody reads it and
\* its buffer is full.
DoneContextCloses ==
  (ctx # "live" \/ hasDeadline) ~> closed

\* After the channel is closed the goroutine that guards the connection exits
\* and the connection is closed, also when the caller never cancels.
ConnReleased ==
  (closed /\ closer # "none") ~> (closer = "exited" /\ conn = "closed")
=============================================================================
