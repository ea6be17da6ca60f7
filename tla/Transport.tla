------------------------------ MODULE Transport ------------------------------
(***************************************************************************)
(* Transport.Query of src/transport.go: it hands the query to the function    *)
(* for the protocol of the server address.  The module composes UDPQuery,    *)
(* StreamQuery and HTTPSQuery, which share the caller, the control point and *)
(* the result, and shows that they keep one contract.  It instantiates their  *)
(* modules with theorems, which TransportProofs carries over.                *)
(***************************************************************************)
EXTENDS ServerSide

CONSTANTS
  MaxDatagrams,  \* see UDPSocket
  Protocols      \* the protocols a server address may name

ASSUME TransportAssumption == MaxDatagrams \in Nat

VARIABLES
  proto, pc, result,
  conn, connDeadline, closer, cancelled, nread,   \* of UDP, TCP and TLS
  ret, arrived,                                   \* of UDP
  qsize, stream, written, length,                 \* of TCP and TLS
  reply, httpBody, nbody                          \* of HTTPS

connVars   == <<conn, connDeadline, closer, cancelled, nread>>
udpVars    == <<ret, arrived>>
streamVars == <<qsize, stream, written, length>>
httpsVars  == <<reply, httpBody, nbody>>
vars == <<ctxVars, proto, pc, result, connVars, udpVars, streamVars, httpsVars>>

UDP    == INSTANCE UDPQueryProofs
Stream == INSTANCE StreamQueryProofs
HTTPS  == INSTANCE HTTPSQueryProofs

-----------------------------------------------------------------------------
\* Each case of the switch runs one of the functions; A is a step of it.

overUDP(A) == proto = "udp" /\ A /\ UNCHANGED <<proto, streamVars, httpsVars>>

overStream(A) == proto \in {"tcp", "dot"} /\ A /\ UNCHANGED <<udpVars, httpsVars>>

overHTTPS(A) ==
  proto = "doh" /\ A /\ UNCHANGED <<proto, connVars, udpVars, streamVars>>

\* The default case: ErrNoSuchTransportProtocol.
Query_Default ==
  /\ pc = "start" /\ proto \notin {"udp", "tcp", "dot", "doh"}
  /\ result' = Err("protocol") /\ pc' = "done"
  /\ UNCHANGED <<ctxVars, proto, connVars, udpVars, streamVars, httpsVars>>

Query ==
  \/ overUDP(UDP!Next) \/ overStream(Stream!Next) \/ overHTTPS(HTTPS!Next)
  \/ Query_Default

\* After the default case only the caller's context moves.
Idle ==
  /\ proto \notin {"udp", "tcp", "dot", "doh"}
  /\ \/ callerCancels \/ clockPassesDeadline \/ timerFires
     \/ pc = "done" /\ UNCHANGED ctxVars
  /\ UNCHANGED <<proto, pc, result, connVars, udpVars, streamVars, httpsVars>>

AnyOf(S) == CHOOSE x \in S : TRUE

\* What a server of another protocol would send, and arguments that the function
\* for the protocol does not look at, do not matter: one value stands for all.
Init ==
  /\ proto \in Protocols
  /\ UDP!Init /\ Stream!streamInit /\ HTTPS!Init
  /\ IF proto \in {"tcp", "dot"}
     THEN extra = AnyOf(Extras)
     ELSE qsize = AnyOf(QuerySizes) /\ stream = AnyOf(Streams)
  /\ proto # "doh" => reply = AnyOf(Replies)

Next == Query \/ Idle

Spec == Init /\ [][Next]_vars

\* What the goroutine of the query does by itself.
Progress ==
  \/ overUDP(UDP!Progress) \/ overStream(Stream!Progress) \/ overHTTPS(HTTPS!Progress)
  \/ Query_Default

\* The goroutine that closes the connection.
closeOnDone ==
  overUDP(UDP!closeOnDone /\ UNCHANGED result) \/ overStream(Stream!closeOnDone)

\* The goroutines of the query and the timers make progress, and what blocks returns
\* when it is aborted: a read because its connection is closed or has passed its
\* deadline, the HTTP client because of the context.  A server need not answer.
FairSpec ==
  /\ Spec
  /\ WF_vars(Progress) /\ WF_vars(closeOnDone)
  /\ WF_vars(Next /\ clockPassesDeadline) /\ WF_vars(Next /\ timerFires)

-----------------------------------------------------------------------------
\* Properties

\* Over UDP: a message that is returned is the first datagram, and only a part of it
\* if it is larger than the response size the query advertised.
FirstMessage == proto = "udp" => UDP!FirstMessage

\* Over TCP and TLS: however the stream is cut up, a message that is returned is the
\* one in the first frame, and only a part of it if its length bytes were too small.
FirstFrame == proto \in {"tcp", "dot"} => Stream!FirstFrame

\* Over TCP and TLS: a server reads the length of the query from its length bytes,
\* and only a query that two bytes cannot count is refused.
QueryFramed == proto \in {"tcp", "dot"} => Stream!QueryFramed

\* An open connection has a goroutine that will close it: over UDP after a successful
\* send, and over TCP and TLS on every path, errors of Pack, of the framing and of
\* Write included.
ConnOwned ==
  /\ proto = "udp" => UDP!OwnedAfterSend
  /\ proto \in {"tcp", "dot"} => Stream!ConnOwned

\* The goroutine that closes the connection runs beside the reads, and yet no query
\* aborts itself: a closed connection is reported only for a done context, and a
\* timeout only after the deadline of the caller.
AbortOnlyWhenDone ==
  /\ proto = "udp" => UDP!AbortOnlyWhenDone
  /\ proto \in {"tcp", "dot"} => Stream!AbortOnlyWhenDone

\* Over HTTPS: a message comes from a reply with the right headers, and is a part of
\* the body only if the body is larger than advertised or its length was not announced.
WholeOrLimited == proto = "doh" => HTTPS!WholeOrLimited

\* Over HTTPS: no byte is read behind bad headers, nor more than was advertised.
ReadsBounded == proto = "doh" => HTTPS!ReadsBounded

\* Over HTTPS: "making sure we close the body", on every path.
BodyClosed == proto = "doh" => HTTPS!BodyClosed

\* What the call has received, whatever it was sent over.
inbox ==
  CASE proto = "udp" -> arrived
    [] proto \in {"tcp", "dot"} ->
         IF nread >= 2 + Stream!declared THEN <<stream.body>> ELSE <<>>
    [] proto = "doh" -> IF httpBody = "none" THEN <<>> ELSE <<reply.body>>
    [] OTHER -> <<>>

Contract == INSTANCE QueryContract WITH
  ctxDone <- ctx # "live",
  call    <- CallState(pc),
  outcome <- Outcome(pc = "done", result)

\* Transport.Query keeps its promise for every protocol, known or not: a caller
\* such as exchange need not know which function ran.
Implements == Contract!Spec

\* Nobody is stuck: the timers run, the goroutine that guards the connection can
\* close it, and once the context is done only a read of a connection that is about
\* to be closed holds up the query.
NeverStuck ==
  /\ (hasDeadline /\ ~late) => ENABLED <<Next /\ clockPassesDeadline>>_vars
  /\ (late /\ ctx = "live") => ENABLED <<Next /\ timerFires>>_vars
  /\ (closer = "waiting" /\ (ctx # "live" \/ cancelled)) => ENABLED <<closeOnDone>>_vars
  /\ (ctx # "live" /\ pc # "done" /\ ~(pc = "reading" /\ closer = "waiting")) =>
       ENABLED <<Progress>>_vars

\* "If the context is cancelled or times out, the query will be aborted."
DoneContextReturns == (ctx # "live" \/ hasDeadline) ~> (pc = "done")

\* A call that has returned, except from a failed send over UDP, eventually holds
\* no connection, no goroutine and no response body.
ResourcesReleased ==
  (pc = "done" /\ ~(proto = "udp" /\ result.err \in {"pack", "write"}))
    ~> (conn # "open" /\ closer # "waiting" /\ httpBody # "open")
=============================================================================
