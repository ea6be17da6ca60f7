-------------------------- MODULE TransportProofs --------------------------
(***************************************************************************)
(* Theorems about Transport: what holds for queryUDP, for queryTCP and        *)
(* queryTLS, and for queryHTTPS holds for Transport.Query when the server     *)
(* address names their protocol.  Every case of the switch is shown to be    *)
(* a behaviour of its function, whose theorems then apply.                   *)
(***************************************************************************)
EXTENDS Transport, TLAPS

overTCPorTLS == proto \in {"tcp", "dot"}
overOther == proto \notin {"udp", "tcp", "dot", "doh"}

\* The assumptions on the constants hold for the three functions.
LEMMA FunctionAssumptions ==
  /\ UDP!CallAssumption /\ UDP!ExtrasAssumption /\ UDP!SocketAssumption
  /\ Stream!CallAssumption /\ Stream!ExtrasAssumption
  /\ Stream!StreamAssumption /\ Stream!ReplyAssumption
  /\ HTTPS!CallAssumption /\ HTTPS!ExtrasAssumption
  /\ HTTPS!StreamAssumption /\ HTTPS!ReplyAssumption
<1>1. Payloads = UDP!Payloads /\ Payloads = Stream!Payloads /\ Payloads = HTTPS!Payloads
  BY DEF Payloads, UDP!Payloads, Stream!Payloads, HTTPS!Payloads
<1>2. \A rrs : /\ edns0MaxResponseSize(rrs) = UDP!edns0MaxResponseSize(rrs)
               /\ edns0MaxResponseSize(rrs) = Stream!edns0MaxResponseSize(rrs)
               /\ edns0MaxResponseSize(rrs) = HTTPS!edns0MaxResponseSize(rrs)
  BY DEF edns0MaxResponseSize, UDP!edns0MaxResponseSize,
         Stream!edns0MaxResponseSize, HTTPS!edns0MaxResponseSize
<1>3. UDP!CallAssumption /\ Stream!CallAssumption /\ HTTPS!CallAssumption
  BY <1>1, CallAssumption
<1>4. UDP!ExtrasAssumption /\ Stream!ExtrasAssumption /\ HTTPS!ExtrasAssumption
  BY <1>2, ExtrasAssumption
<1>5. UDP!SocketAssumption
  BY TransportAssumption
<1>6. Stream!StreamAssumption /\ HTTPS!StreamAssumption
  BY <1>1, StreamAssumption
<1>7. Stream!ReplyAssumption /\ HTTPS!ReplyAssumption
  BY <1>1, ReplyAssumption
<1> QED BY <1>3, <1>4, <1>5, <1>6, <1>7

-----------------------------------------------------------------------------
\* Every case of the switch is a behaviour of its function

\* The protocol of the server address does not change.
LEMMA ProtocolStep == [Next]_vars => proto' = proto
<1>1. Stream!Next => proto' = proto
  BY DEF Stream!Next, Stream!Query, Stream!queryTCP, Stream!queryTLS, Stream!query_Enter,
       Stream!dialContext, Stream!dialTLSContext, Stream!queryStream_Setup,
       Stream!queryStream_Pack, Stream!queryStream_Write, Stream!ReadFull_Call,
       Stream!ReadFull_Data, Stream!ReadFull_Fail, Stream!queryStream_Header,
       Stream!queryStream_Unpack, Stream!closeOnDone, Stream!Context,
       Stream!Terminated, Stream!argVars, Stream!vars
<1> QED BY <1>1 DEF Next, Query, Idle, Query_Default, overUDP, overStream, overHTTPS, vars

\* Over UDP every step is a step of queryUDP.
LEMMA UDPStep ==
  ASSUME proto = "udp", [Next]_vars
  PROVE  proto' = "udp" /\ [UDP!Next]_(UDP!vars)
<1>1. CASE UNCHANGED vars
  BY <1>1 DEF vars, connVars, udpVars, ctxVars, UDP!vars, UDP!sockVars, UDP!netVars,
              UDP!connVars, UDP!ctxVars
<1>2. CASE Next
  BY <1>2 DEF Next, Query, Idle, Query_Default, overUDP, overStream, overHTTPS
<1> QED BY <1>1, <1>2

\* Over TCP and TLS every step is a step of queryTCP, queryTLS or queryStream.
LEMMA StreamStep ==
  ASSUME overTCPorTLS, [Next]_vars
  PROVE  overTCPorTLS' /\ [Stream!Next]_(Stream!vars)
<1>1. CASE UNCHANGED vars
  BY <1>1 DEF overTCPorTLS, vars, connVars, streamVars, ctxVars, Stream!vars,
              Stream!argVars, Stream!connVars, Stream!readVars, Stream!ctxVars
<1>2. CASE Next
  BY <1>2, ProtocolStep
     DEF overTCPorTLS, Next, Query, Idle, Query_Default, overUDP, overStream, overHTTPS
<1> QED BY <1>1, <1>2

\* Over HTTPS every step is a step of queryHTTPS.
LEMMA HTTPSStep ==
  ASSUME proto = "doh", [Next]_vars
  PROVE  proto' = "doh" /\ [HTTPS!Next]_(HTTPS!vars)
<1>1. CASE UNCHANGED vars
  BY <1>1 DEF vars, httpsVars, ctxVars, HTTPS!vars, HTTPS!ctxVars
<1>2. CASE Next
  BY <1>2 DEF Next, Query, Idle, Query_Default, overUDP, overStream, overHTTPS
<1> QED BY <1>1, <1>2

\* Over UDP the behaviour is one of queryUDP.
LEMMA UDPBehaviour == Spec /\ proto = "udp" => UDP!Spec /\ [](proto = "udp")
<1>1. Init => UDP!Init
  BY DEF Init
<1>2. proto = "udp" /\ [Next]_vars => (proto = "udp")' /\ [UDP!Next]_(UDP!vars)
  BY UDPStep
<1> QED BY <1>1, <1>2, PTL DEF Spec, UDP!Spec

\* Over TCP and TLS it is one of queryTCP or queryTLS.
LEMMA StreamBehaviour == Spec /\ overTCPorTLS => Stream!Spec /\ []overTCPorTLS
<1>1. Init /\ overTCPorTLS => Stream!Init
  BY DEF Init, overTCPorTLS, Stream!Init
<1>2. overTCPorTLS /\ [Next]_vars => overTCPorTLS' /\ [Stream!Next]_(Stream!vars)
  BY StreamStep
<1> QED BY <1>1, <1>2, PTL DEF Spec, Stream!Spec

\* Over HTTPS it is one of queryHTTPS.
LEMMA HTTPSBehaviour == Spec /\ proto = "doh" => HTTPS!Spec /\ [](proto = "doh")
<1>1. Init => HTTPS!Init
  BY DEF Init
<1>2. proto = "doh" /\ [Next]_vars => (proto = "doh")' /\ [HTTPS!Next]_(HTTPS!vars)
  BY HTTPSStep
<1> QED BY <1>1, <1>2, PTL DEF Spec, HTTPS!Spec

\* A protocol that is not used at the start is never used.
LEMMA OtherProtocols ==
  /\ Spec /\ ~(proto = "udp") => [](~(proto = "udp"))
  /\ Spec /\ ~overTCPorTLS => []~overTCPorTLS
  /\ Spec /\ ~(proto = "doh") => [](~(proto = "doh"))
<1>1. ~(proto = "udp") /\ [Next]_vars => (~(proto = "udp"))'
  BY ProtocolStep
<1>2. ~overTCPorTLS /\ [Next]_vars => ~overTCPorTLS'
  BY ProtocolStep DEF overTCPorTLS
<1>3. ~(proto = "doh") /\ [Next]_vars => (~(proto = "doh"))'
  BY ProtocolStep
<1> QED BY <1>1, <1>2, <1>3, PTL DEF Spec

-----------------------------------------------------------------------------
\* The invariants of the functions

\* FirstMessage: over UDP Transport.Query returns the first message that arrives.
THEOREM QueryReturnsFirstMessage == Spec => []FirstMessage
<1>1. Spec /\ proto = "udp" => []UDP!FirstMessage
  BY UDPBehaviour, FunctionAssumptions, UDP!ReturnsFirstMessage, PTL
<1>2. /\ UDP!FirstMessage => FirstMessage
      /\ ~(proto = "udp") => FirstMessage
  BY DEF FirstMessage
<1> QED BY <1>1, <1>2, OtherProtocols, PTL

\* FirstFrame: over TCP and TLS Transport.Query returns the message of the first
\* frame, however the stream is cut up.
THEOREM QueryReturnsFirstFrame == Spec => []FirstFrame
<1>1. Spec /\ overTCPorTLS => []Stream!FirstFrame
  BY StreamBehaviour, FunctionAssumptions, Stream!ReturnsFirstFrame, PTL
<1>2. /\ Stream!FirstFrame => FirstFrame
      /\ ~overTCPorTLS => FirstFrame
  BY DEF FirstFrame, overTCPorTLS
<1> QED BY <1>1, <1>2, OtherProtocols, PTL

\* QueryFramed: over TCP and TLS the server reads back the length of the query, and
\* only a query that two bytes cannot count is refused.
THEOREM QueryIsFramed == Spec => []QueryFramed
<1>1. Spec /\ overTCPorTLS => []Stream!QueryFramed
  BY StreamBehaviour, FunctionAssumptions, Stream!QueriesFramed, PTL
<1>2. /\ Stream!QueryFramed => QueryFramed
      /\ ~overTCPorTLS => QueryFramed
  BY DEF QueryFramed, overTCPorTLS
<1> QED BY <1>1, <1>2, OtherProtocols, PTL

\* ConnOwned: a connection that is open has a goroutine that will close it, over UDP
\* after a successful send, over TCP and TLS whenever the call returns.
THEOREM QueryOwnsConnection == Spec => []ConnOwned
<1>1. Spec /\ proto = "udp" => [](UDP!OwnedAfterSend /\ proto = "udp")
  BY UDPBehaviour, FunctionAssumptions, UDP!ConnOwned, PTL
<1>2. Spec /\ overTCPorTLS => [](Stream!ConnOwned /\ overTCPorTLS)
  BY StreamBehaviour, FunctionAssumptions, Stream!ConnectionOwned, PTL
<1>3. /\ UDP!OwnedAfterSend /\ proto = "udp" => ConnOwned
      /\ Stream!ConnOwned /\ overTCPorTLS => ConnOwned
      /\ ~(proto = "udp") /\ ~overTCPorTLS => ConnOwned
  BY DEF ConnOwned, overTCPorTLS
<1> QED BY <1>1, <1>2, <1>3, OtherProtocols, PTL

\* AbortOnlyWhenDone: over UDP, TCP and TLS no query aborts itself.
THEOREM QueryNeverAbortsItself == Spec => []AbortOnlyWhenDone
<1>1. Spec /\ proto = "udp" => [](UDP!AbortOnlyWhenDone /\ proto = "udp")
  BY UDPBehaviour, FunctionAssumptions, UDP!NeverAbortsItself, PTL
<1>2. Spec /\ overTCPorTLS => [](Stream!AbortOnlyWhenDone /\ overTCPorTLS)
  BY StreamBehaviour, FunctionAssumptions, Stream!AbortsJustified, PTL
<1>3. /\ UDP!AbortOnlyWhenDone /\ proto = "udp" => AbortOnlyWhenDone
      /\ Stream!AbortOnlyWhenDone /\ overTCPorTLS => AbortOnlyWhenDone
      /\ ~(proto = "udp") /\ ~overTCPorTLS => AbortOnlyWhenDone
  BY DEF AbortOnlyWhenDone, overTCPorTLS
<1> QED BY <1>1, <1>2, <1>3, OtherProtocols, PTL

\* WholeOrLimited: over HTTPS a message that is returned is the whole body, unless
\* the body is larger than advertised or its length was not announced.
THEOREM QueryReturnsWholeBody == Spec => []WholeOrLimited
<1>1. Spec /\ proto = "doh" => []HTTPS!WholeOrLimited
  BY HTTPSBehaviour, FunctionAssumptions, HTTPS!WholeUnlessLimited, PTL
<1>2. /\ HTTPS!WholeOrLimited => WholeOrLimited
      /\ ~(proto = "doh") => WholeOrLimited
  BY DEF WholeOrLimited
<1> QED BY <1>1, <1>2, OtherProtocols, PTL

\* ReadsBounded: over HTTPS never more is read than the query advertised, and
\* nothing behind bad headers.
THEOREM QueryBoundsReads == Spec => []ReadsBounded
<1>1. Spec /\ proto = "doh" => []HTTPS!ReadsBounded
  BY HTTPSBehaviour, FunctionAssumptions, HTTPS!BoundedReads, PTL
<1>2. /\ HTTPS!ReadsBounded => ReadsBounded
      /\ ~(proto = "doh") => ReadsBounded
  BY DEF ReadsBounded
<1> QED BY <1>1, <1>2, OtherProtocols, PTL

\* BodyClosed: over HTTPS the body is closed on every path.
THEOREM QueryClosesBody == Spec => []BodyClosed
<1>1. Spec /\ proto = "doh" => []HTTPS!BodyClosed
  BY HTTPSBehaviour, FunctionAssumptions, HTTPS!BodyAlwaysClosed, PTL
<1>2. /\ HTTPS!BodyClosed => BodyClosed
      /\ ~(proto = "doh") => BodyClosed
  BY DEF BodyClosed
<1> QED BY <1>1, <1>2, OtherProtocols, PTL

-----------------------------------------------------------------------------
\* The contract

\* Over UDP a step within the contract of queryUDP is one within that of
\* Transport.Query.
LEMMA UDPContract ==
  ASSUME proto = "udp"
  PROVE  /\ UDP!Contract!Init => Contract!Init
         /\ proto' = "udp" /\ [UDP!Contract!Next]_(UDP!Contract!cvars)
              => [Contract!Next]_(Contract!cvars)
<1>1. UDP!CallState(pc) = CallState(pc) /\ UDP!CallState(pc') = CallState(pc')
  BY DEF CallState, UDP!CallState
<1>2. /\ UDP!Outcome(pc = "done", result) = Outcome(pc = "done", result)
      /\ UDP!Outcome(pc' = "done", result') = Outcome(pc' = "done", result')
  BY DEF Outcome, UDP!Outcome
<1>3. inbox = arrived /\ (proto' = "udp" => inbox' = arrived')
  BY DEF inbox
<1>4. UDP!Contract!Init => Contract!Init
  BY <1>1, <1>2, <1>3 DEF Contract!Init, UDP!Contract!Init, Contract!Pending,
     UDP!Contract!Pending
<1>5. ASSUME proto' = "udp", [UDP!Contract!Next]_(UDP!Contract!cvars)
      PROVE  [Contract!Next]_(Contract!cvars)
  BY <1>1, <1>2, <1>3, <1>5
     DEF Contract!Next, Contract!cvars, Contract!ContextChanges, Contract!Receive,
     Contract!Begin, Contract!ReturnAborted, Contract!ReturnFailed,
     Contract!ReturnMessage, Contract!Aborted, Contract!Failed, Contract!Message,
     UDP!Contract!Next, UDP!Contract!cvars, UDP!Contract!ContextChanges,
     UDP!Contract!Receive, UDP!Contract!Begin, UDP!Contract!ReturnAborted,
     UDP!Contract!ReturnFailed, UDP!Contract!ReturnMessage, UDP!Contract!Aborted,
     UDP!Contract!Failed, UDP!Contract!Message
<1> QED BY <1>4, <1>5

\* The same over TCP and TLS.
LEMMA StreamContract ==
  ASSUME overTCPorTLS
  PROVE  /\ Stream!Contract!Init => Contract!Init
         /\ overTCPorTLS' /\ [Stream!Contract!Next]_(Stream!Contract!cvars)
              => [Contract!Next]_(Contract!cvars)
<1>1. Stream!CallState(pc) = CallState(pc) /\ Stream!CallState(pc') = CallState(pc')
  BY DEF CallState, Stream!CallState
<1>2. /\ Stream!Outcome(pc = "done", result) = Outcome(pc = "done", result)
      /\ Stream!Outcome(pc' = "done", result') = Outcome(pc' = "done", result')
  BY DEF Outcome, Stream!Outcome
<1> DEFINE received == IF nread >= 2 + Stream!declared THEN <<stream.body>> ELSE <<>>
<1>3. inbox = received /\ (overTCPorTLS' => inbox' = received')
  BY DEF inbox, overTCPorTLS
<1>4. Stream!Contract!Init => Contract!Init
  BY <1>1, <1>2, <1>3 DEF Contract!Init, Stream!Contract!Init, Contract!Pending,
     Stream!Contract!Pending
<1>5. ASSUME overTCPorTLS', [Stream!Contract!Next]_(Stream!Contract!cvars)
      PROVE  [Contract!Next]_(Contract!cvars)
  BY <1>1, <1>2, <1>3, <1>5
     DEF Contract!Next, Contract!cvars, Contract!ContextChanges, Contract!Receive,
     Contract!Begin, Contract!ReturnAborted, Contract!ReturnFailed,
     Contract!ReturnMessage, Contract!Aborted, Contract!Failed, Contract!Message,
     Stream!Contract!Next, Stream!Contract!cvars, Stream!Contract!ContextChanges,
     Stream!Contract!Receive, Stream!Contract!Begin, Stream!Contract!ReturnAborted,
     Stream!Contract!ReturnFailed, Stream!Contract!ReturnMessage, Stream!Contract!Aborted,
     Stream!Contract!Failed, Stream!Contract!Message
<1> QED BY <1>4, <1>5

\* The same over HTTPS.
LEMMA HTTPSContract ==
  ASSUME proto = "doh"
  PROVE  /\ HTTPS!Contract!Init => Contract!Init
         /\ proto' = "doh" /\ [HTTPS!Contract!Next]_(HTTPS!Contract!cvars)
              => [Contract!Next]_(Contract!cvars)
<1>1. HTTPS!CallState(pc) = CallState(pc) /\ HTTPS!CallState(pc') = CallState(pc')
  BY DEF CallState, HTTPS!CallState
<1>2. /\ HTTPS!Outcome(pc = "done", result) = Outcome(pc = "done", result)
      /\ HTTPS!Outcome(pc' = "done", result') = Outcome(pc' = "done", result')
  BY DEF Outcome, HTTPS!Outcome
<1> DEFINE received == IF httpBody = "none" THEN <<>> ELSE <<reply.body>>
<1>3. inbox = received /\ (proto' = "doh" => inbox' = received')
  BY DEF inbox
<1>4. HTTPS!Contract!Init => Contract!Init
  BY <1>1, <1>2, <1>3 DEF Contract!Init, HTTPS!Contract!Init, Contract!Pending,
     HTTPS!Contract!Pending
<1>5. ASSUME proto' = "doh", [HTTPS!Contract!Next]_(HTTPS!Contract!cvars)
      PROVE  [Contract!Next]_(Contract!cvars)
  BY <1>1, <1>2, <1>3, <1>5
     DEF Contract!Next, Contract!cvars, Contract!ContextChanges, Contract!Receive,
     Contract!Begin, Contract!ReturnAborted, Contract!ReturnFailed,
     Contract!ReturnMessage, Contract!Aborted, Contract!Failed, Contract!Message,
     HTTPS!Contract!Next, HTTPS!Contract!cvars, HTTPS!Contract!ContextChanges,
     HTTPS!Contract!Receive, HTTPS!Contract!Begin, HTTPS!Contract!ReturnAborted,
     HTTPS!Contract!ReturnFailed, HTTPS!Contract!ReturnMessage, HTTPS!Contract!Aborted,
     HTTPS!Contract!Failed, HTTPS!Contract!Message
<1> QED BY <1>4, <1>5

\* For any other protocol the call fails, and later only the context changes.
LEMMA OtherContract ==
  ASSUME overOther
  PROVE  /\ Init => Contract!Init
         /\ [Next]_vars => overOther' /\ [Contract!Next]_(Contract!cvars)
<1>1. inbox = <<>> /\ (overOther' => inbox' = <<>>)
  BY DEF inbox, overOther
<1>2. Init => Contract!Init
  <2> SUFFICES ASSUME Init PROVE Contract!Init
    OBVIOUS
  <2>1. UDP!Init
    BY DEF Init
  <2>2. late \in BOOLEAN /\ pc = "start"
    BY <2>1, Zenon DEF UDP!Init, UDP!SockInit, UDP!ctxInit
  <2>3. CallState(pc) = "called" /\ Outcome(pc = "done", result) = Contract!Pending
    BY <2>2 DEF CallState, Outcome, Contract!Pending
  <2> QED BY <1>1, <2>2, <2>3 DEF Contract!Init
<1>3. ASSUME [Next]_vars PROVE overOther' /\ [Contract!Next]_(Contract!cvars)
  <2>1. overOther' /\ inbox' = inbox
    BY <1>1, <1>3, ProtocolStep DEF overOther
  <2>2. CASE UNCHANGED vars
    BY <2>1, <2>2 DEF vars, ctxVars, Contract!cvars, CallState, Outcome
  <2>3. CASE Query_Default
    <3>1. /\ pc = "start" /\ pc' = "done" /\ result' = Err("protocol")
          /\ ctx' = ctx /\ late' = late
      BY <2>3 DEF Query_Default, ctxVars
    <3>2. CallState(pc) = "called" /\ CallState(pc)' = "returned"
      BY <3>1 DEF CallState
    <3>3. Outcome(pc = "done", result)' = Contract!Failed
      BY <3>1 DEF Outcome, Err, Contract!Failed
    <3> QED BY <2>1, <3>1, <3>2, <3>3 DEF Contract!Next, Contract!ReturnFailed
  <2>4. CASE Idle
    <3>1. /\ ctx # "live" => ctx' # "live"
          /\ late => late'
          /\ pc' = pc /\ result' = result
      BY <2>4 DEF Idle, callerCancels, clockPassesDeadline, timerFires, ctxVars
    <3>2. CallState(pc)' = CallState(pc)
          /\ Outcome(pc = "done", result)' = Outcome(pc = "done", result)
      BY <3>1 DEF CallState, Outcome
    <3> QED BY <2>1, <3>1, <3>2 DEF Contract!Next, Contract!ContextChanges
  <2> QED BY <1>3, <2>1, <2>2, <2>3, <2>4
          DEF overOther, Next, Query, overUDP, overStream, overHTTPS
<1> QED BY <1>2, <1>3

\* Implements: Transport.Query keeps its promise for every protocol, known or not.
THEOREM QueryKeepsContract == Spec => Implements
<1>1. Spec /\ proto = "udp" => Implements
  <2>1. /\ proto = "udp" /\ UDP!Contract!Init => Contract!Init
        /\ /\ proto = "udp" /\ (proto = "udp")'
           /\ [UDP!Contract!Next]_(UDP!Contract!cvars)
           => [Contract!Next]_(Contract!cvars)
    BY UDPContract
  <2> QED BY <2>1, UDPBehaviour, FunctionAssumptions, UDP!Refinement, PTL
          DEF Implements, Contract!Spec, UDP!Implements, UDP!Contract!Spec
<1>2. Spec /\ overTCPorTLS => Implements
  <2>1. /\ overTCPorTLS /\ Stream!Contract!Init => Contract!Init
        /\ /\ overTCPorTLS /\ overTCPorTLS'
           /\ [Stream!Contract!Next]_(Stream!Contract!cvars)
           => [Contract!Next]_(Contract!cvars)
    BY StreamContract
  <2> QED BY <2>1, StreamBehaviour, FunctionAssumptions, Stream!Refinement, PTL
          DEF Implements, Contract!Spec, Stream!Implements, Stream!Contract!Spec
<1>3. Spec /\ proto = "doh" => Implements
  <2>1. /\ proto = "doh" /\ HTTPS!Contract!Init => Contract!Init
        /\ /\ proto = "doh" /\ (proto = "doh")'
           /\ [HTTPS!Contract!Next]_(HTTPS!Contract!cvars)
           => [Contract!Next]_(Contract!cvars)
    BY HTTPSContract
  <2> QED BY <2>1, HTTPSBehaviour, FunctionAssumptions, HTTPS!Refinement, PTL
          DEF Implements, Contract!Spec, HTTPS!Implements, HTTPS!Contract!Spec
<1>4. Spec /\ overOther => Implements
  <2>1. /\ overOther /\ Init => Contract!Init
        /\ overOther /\ [Next]_vars => overOther' /\ [Contract!Next]_(Contract!cvars)
    BY OtherContract
  <2> QED BY <2>1, PTL DEF Spec, Implements, Contract!Spec
<1>5. proto = "udp" \/ overTCPorTLS \/ proto = "doh" \/ overOther
  BY DEF overTCPorTLS, overOther
<1> QED BY <1>1, <1>2, <1>3, <1>4, <1>5, PTL

-----------------------------------------------------------------------------
\* Liveness.  NeverStuck says which fair action is possible, and the measures of the
\* functions that each of them leads nearer to the return.

\* A function that did not run left no connection and no body behind.
UnusedInv ==
  /\ ~(proto = "udp") /\ ~overTCPorTLS => conn = "none" /\ closer = "none"
  /\ proto # "doh" => httpBody = "none"
  /\ overOther => pc \in {"start", "done"}

\* The invariant of the function that runs.
FunctionInv ==
  /\ proto = "udp" => UDP!IInv
  /\ overTCPorTLS => Stream!IInv
  /\ proto = "doh" => HTTPS!IInv

LiveInv == UnusedInv /\ FunctionInv

\* Every step is one of the function for the protocol.
LEMMA FunctionSteps ==
  ASSUME [Next]_vars
  PROVE  /\ proto' = proto
         /\ proto = "udp" => [UDP!Next]_(UDP!vars)
         /\ overTCPorTLS => [Stream!Next]_(Stream!vars)
         /\ proto = "doh" => [HTTPS!Next]_(HTTPS!vars)
         /\ overOther => Query_Default \/ Idle \/ UNCHANGED vars
BY ProtocolStep, UDPStep, StreamStep, HTTPSStep
DEF overOther, Next, Query, overUDP, overStream, overHTTPS

\* UnusedInv is an invariant.
LEMMA UnusedInvariance == Spec => []UnusedInv
<1>1. Init => UnusedInv
  <2> SUFFICES ASSUME Init PROVE UnusedInv
    OBVIOUS
  <2>1. UDP!SockInit /\ HTTPS!Init
    BY DEF Init, UDP!Init
  <2> QED BY <2>1 DEF UDP!SockInit, HTTPS!Init, UnusedInv
<1>2. UnusedInv /\ [Next]_vars => UnusedInv'
  <2> SUFFICES ASSUME UnusedInv, [Next]_vars PROVE UnusedInv'
    OBVIOUS
  <2>1. proto' = proto
    BY FunctionSteps
  <2>2. ~(proto = "udp") /\ ~overTCPorTLS => conn' = conn /\ closer' = closer
    BY DEF overTCPorTLS, Next, Query, overUDP, overStream, overHTTPS, Query_Default, Idle,
       vars, connVars
  <2>3. proto # "doh" => httpBody' = httpBody
    BY DEF Next, Query, overUDP, overStream, overHTTPS, Query_Default, Idle, vars, httpsVars
  <2>4. overOther => pc' \in {pc, "done"}
    BY FunctionSteps DEF Query_Default, Idle, vars
  <2> QED BY <2>1, <2>2, <2>3, <2>4 DEF UnusedInv, overTCPorTLS, overOther
<1> QED BY <1>1, <1>2, PTL DEF Spec

\* FunctionInv is an invariant, by the invariance theorems of the functions.
LEMMA FunctionInvariance == Spec => []FunctionInv
<1>1. Spec /\ proto = "udp" => [](UDP!IInv /\ proto = "udp")
  BY UDPBehaviour, FunctionAssumptions, UDP!Invariance, PTL
<1>2. Spec /\ overTCPorTLS => [](Stream!IInv /\ overTCPorTLS)
  BY StreamBehaviour, FunctionAssumptions, Stream!Invariance, PTL
<1>3. Spec /\ proto = "doh" => [](HTTPS!IInv /\ proto = "doh")
  BY HTTPSBehaviour, FunctionAssumptions, HTTPS!Invariance, PTL
<1>4. /\ UDP!IInv /\ proto = "udp" => FunctionInv
      /\ Stream!IInv /\ overTCPorTLS => FunctionInv
      /\ HTTPS!IInv /\ proto = "doh" => FunctionInv
      /\ ~(proto = "udp") /\ ~overTCPorTLS /\ ~(proto = "doh") => FunctionInv
  BY DEF FunctionInv, overTCPorTLS
<1> QED BY <1>1, <1>2, <1>3, <1>4, OtherProtocols, PTL

\* How far the query is from returning once the context is done.
Remaining ==
  CASE proto = "udp" -> UDP!Remaining
    [] overTCPorTLS  -> Stream!Remaining
    [] proto = "doh" -> HTTPS!Remaining
    [] OTHER -> IF pc = "start" THEN 10 ELSE 0

\* What the measure says of the state: it is zero when the call has returned, and
\* four where a read may have to wait for the connection to be closed.
LEMMA RemainingRange ==
  ASSUME LiveInv
  PROVE  /\ Remaining \in 0..10
         /\ Remaining = 0 <=> pc = "done"
         /\ Remaining = 4 => closer = "waiting"
         /\ pc = "reading" /\ closer = "waiting" => Remaining = 4
<1>1. CASE proto = "udp"
  BY <1>1 DEF LiveInv, FunctionInv, Remaining, UDP!Remaining, UDP!IInv, UDP!TypeOK,
     overTCPorTLS
<1>2. CASE overTCPorTLS
  BY <1>2 DEF LiveInv, FunctionInv, Remaining, Stream!Remaining, Stream!IInv,
     Stream!TypeOK, overTCPorTLS
<1>3. CASE proto = "doh"
  BY <1>3 DEF LiveInv, FunctionInv, Remaining, HTTPS!Remaining, HTTPS!IInv, HTTPS!TypeOK,
     overTCPorTLS
<1>4. CASE overOther
  BY <1>4 DEF LiveInv, UnusedInv, Remaining, overTCPorTLS, overOther
<1> QED BY <1>1, <1>2, <1>3, <1>4 DEF overTCPorTLS, overOther

\* Once the context is done no step leads away from the return of Transport.Query,
\* every step of its goroutine leads nearer to it unless it waits for the connection
\* to be closed, and closing the connection leads nearer to it.
LEMMA RemainingStep ==
  ASSUME LiveInv, [Next]_vars, ctx # "live"
  PROVE  /\ ctx' # "live" /\ Remaining \in 0..10 /\ Remaining' \in 0..10
         /\ Remaining' <= Remaining
         /\ Progress => Remaining' < Remaining \/ Remaining = 4
         /\ Remaining = 4 /\ closeOnDone => Remaining' < Remaining
<1>0. proto' = proto
  BY FunctionSteps
<1>1. CASE proto = "udp"
  <2>1. UDP!IInv /\ [UDP!Next]_(UDP!vars)
    BY <1>1, FunctionSteps DEF LiveInv, FunctionInv
  <2>2. Remaining = UDP!Remaining /\ Remaining' = UDP!Remaining'
    BY <1>0, <1>1 DEF Remaining, overTCPorTLS
  <2>3. (Progress => UDP!Progress) /\ (closeOnDone => UDP!closeOnDone)
    BY <1>1 DEF Progress, closeOnDone, overUDP, overStream, overHTTPS, Query_Default
  <2> QED BY <2>1, <2>2, <2>3, FunctionAssumptions, UDP!RemainingStep
<1>2. CASE overTCPorTLS
  <2>1. Stream!IInv /\ [Stream!Next]_(Stream!vars)
    BY <1>2, FunctionSteps DEF LiveInv, FunctionInv
  <2>2. Remaining = Stream!Remaining /\ Remaining' = Stream!Remaining'
    BY <1>0, <1>2 DEF Remaining, overTCPorTLS
  <2>3. (Progress => Stream!Progress) /\ (closeOnDone => Stream!closeOnDone)
    BY <1>2 DEF Progress, closeOnDone, overUDP, overStream, overHTTPS, Query_Default,
       overTCPorTLS
  <2> QED BY <2>1, <2>2, <2>3, FunctionAssumptions, Stream!RemainingStep
<1>3. CASE proto = "doh"
  <2>1. HTTPS!IInv /\ [HTTPS!Next]_(HTTPS!vars)
    BY <1>3, FunctionSteps DEF LiveInv, FunctionInv
  <2>2. Remaining = HTTPS!Remaining /\ Remaining' = HTTPS!Remaining'
    BY <1>0, <1>3 DEF Remaining, overTCPorTLS
  <2>3. Progress => HTTPS!Progress
    BY <1>3 DEF Progress, overUDP, overStream, overHTTPS, Query_Default
  <2> QED BY <2>1, <2>2, <2>3, FunctionAssumptions, HTTPS!RemainingStep
<1>4. CASE overOther
  <2>1. /\ Remaining = IF pc = "start" THEN 10 ELSE 0
        /\ Remaining' = IF pc' = "start" THEN 10 ELSE 0
    BY <1>0, <1>4 DEF Remaining, overTCPorTLS, overOther
  <2>2. pc \in {"start", "done"} /\ pc' \in {pc, "done"} /\ ctx' # "live"
    BY <1>4, FunctionSteps DEF LiveInv, UnusedInv, Query_Default, Idle, callerCancels,
       clockPassesDeadline, timerFires, vars, ctxVars
  <2>3. Progress => pc = "start" /\ pc' = "done"
    BY <1>4 DEF overOther, Progress, overUDP, overStream, overHTTPS, Query_Default
  <2> QED BY <2>1, <2>2, <2>3
<1> QED BY <1>1, <1>2, <1>3, <1>4 DEF overTCPorTLS, overOther

\* The clock does not run backwards, and a goroutine that has been told to close the
\* connection waits until it has closed it.
LEMMA GuardStep ==
  ASSUME UnusedInv, [Next]_vars
  PROVE  /\ hasDeadline' = hasDeadline /\ (late => late') /\ (ctx # "live" => ctx' # "live")
         /\ closer = "waiting" /\ cancelled /\ pc = "done" =>
              \/ closer' = "waiting" /\ cancelled' /\ pc' = "done"
              \/ closer' = "exited" /\ conn' = "closed"
<1>1. CASE proto = "udp"
  BY <1>1, FunctionSteps, FunctionAssumptions, UDP!GuardStep
<1>2. CASE overTCPorTLS
  BY <1>2, FunctionSteps, FunctionAssumptions, Stream!GuardStep
<1>3. CASE proto = "doh"
  BY <1>3, FunctionSteps, FunctionAssumptions, HTTPS!ClockStep DEF UnusedInv, overTCPorTLS
<1>4. CASE overOther
  <2>1. closer # "waiting"
    BY <1>4 DEF UnusedInv, overTCPorTLS, overOther
  <2>2. Query_Default \/ Idle \/ UNCHANGED vars
    BY <1>4, FunctionSteps
  <2>3. \/ UNCHANGED ctxVars
        \/ callerCancels \/ clockPassesDeadline \/ timerFires
    BY <2>2 DEF Query_Default, Idle, vars
  <2>4. /\ hasDeadline' = hasDeadline
        /\ (late => late') /\ (ctx # "live" => ctx' # "live")
    BY <2>3 DEF callerCancels, clockPassesDeadline, timerFires, ctxVars
  <2> QED BY <2>1, <2>4
<1> QED BY <1>1, <1>2, <1>3, <1>4 DEF overTCPorTLS, overOther

Below(k) == ctx # "live" /\ Remaining < k

\* The goroutine of the query goes on, except where it may have to wait for the
\* connection to be closed.
LEMMA ProgressGoesOn ==
  FairSpec /\ []NeverStuck =>
       /\ (Below(2) ~> Below(1)) /\ (Below(3) ~> Below(2)) /\ (Below(4) ~> Below(3))
       /\ (Below(6) ~> Below(5)) /\ (Below(7) ~> Below(6)) /\ (Below(8) ~> Below(7))
       /\ (Below(9) ~> Below(8)) /\ (Below(10) ~> Below(9)) /\ (Below(11) ~> Below(10))
<1> DEFINE At(k) == ctx # "live" /\ Remaining = k
           Rung(k, j) ==
             /\ LiveInv /\ Below(j) => At(k) \/ Below(k)
             /\ LiveInv /\ At(k) /\ [Next]_vars => At(k)' \/ Below(k)'
             /\ LiveInv /\ At(k) /\ [Next]_vars /\ <<Progress>>_vars => Below(k)'
             /\ LiveInv /\ NeverStuck /\ At(k) => ENABLED <<Progress>>_vars
<1>1. ASSUME NEW k \in {1, 2, 3, 5, 6, 7, 8, 9, 10} PROVE Rung(k, k + 1)
  <2>1. LiveInv /\ Below(k + 1) => At(k) \/ Below(k)
    <3> SUFFICES ASSUME LiveInv, ctx # "live" PROVE Remaining \in 0..10
      BY DEF Below
    <3> QED BY RemainingRange
  <2>2. LiveInv /\ At(k) /\ [Next]_vars => At(k)' \/ Below(k)'
    BY RemainingStep DEF Below
  <2>3. LiveInv /\ At(k) /\ [Next]_vars /\ <<Progress>>_vars => Below(k)'
    <3> SUFFICES ASSUME LiveInv, At(k), [Next]_vars, Progress PROVE Below(k)'
      BY Zenon
    <3> QED BY RemainingStep DEF Below
  <2>4. LiveInv /\ NeverStuck /\ At(k) => ENABLED <<Progress>>_vars
    <3> SUFFICES ASSUME LiveInv, NeverStuck, At(k) PROVE ENABLED <<Progress>>_vars
      OBVIOUS
    <3>1. pc # "done" /\ ~(pc = "reading" /\ closer = "waiting")
      BY RemainingRange
    <3> QED BY <3>1, Zenon DEF NeverStuck
  <2> HIDE DEF At
  <2> QED BY <2>1, <2>2, <2>3, <2>4, Zenon
<1> HIDE DEF At, Rung
<1>2. /\ Rung(1, 2) /\ Rung(2, 3) /\ Rung(3, 4) /\ Rung(5, 6) /\ Rung(6, 7)
      /\ Rung(7, 8) /\ Rung(8, 9) /\ Rung(9, 10) /\ Rung(10, 11)
  BY <1>1
<1> QED
  BY <1>2, UnusedInvariance, FunctionInvariance, PTL DEF Rung, FairSpec, Spec, LiveInv

\* The goroutine that guards the connection closes it under the read.
LEMMA closeOnDoneGoesOn == FairSpec /\ []NeverStuck => (Below(5) ~> Below(4))
<1> DEFINE P == ctx # "live" /\ Remaining = 4
<1>1. LiveInv /\ Below(5) => P \/ Below(4)
  <2> SUFFICES ASSUME LiveInv, ctx # "live" PROVE Remaining \in 0..10
    BY DEF Below
  <2> QED BY RemainingRange
<1>2. LiveInv /\ P /\ [Next]_vars => P' \/ Below(4)'
  BY RemainingStep DEF Below
<1>3. LiveInv /\ P /\ [Next]_vars /\ <<closeOnDone>>_vars => Below(4)'
  <2> SUFFICES ASSUME LiveInv, P, [Next]_vars, closeOnDone PROVE Below(4)'
    BY Zenon
  <2> QED BY RemainingStep DEF Below
<1>4. LiveInv /\ NeverStuck /\ P => ENABLED <<closeOnDone>>_vars
  <2> SUFFICES ASSUME LiveInv, NeverStuck, P PROVE ENABLED <<closeOnDone>>_vars
    OBVIOUS
  <2>1. closer = "waiting"
    BY RemainingRange
  <2> QED BY <2>1, Zenon DEF NeverStuck
<1> QED
  BY <1>1, <1>2, <1>3, <1>4, UnusedInvariance, FunctionInvariance, PTL
  DEF FairSpec, Spec, LiveInv

\* A context with a deadline expires.
LEMMA DeadlineExpires == FairSpec /\ []NeverStuck => (hasDeadline ~> ctx # "live")
<1> DEFINE P == hasDeadline /\ ~late
           Q == late /\ ctx = "live"
           D == ctx # "live"
<1>1. /\ UnusedInv /\ P /\ [Next]_vars => P' \/ late'
      /\ UnusedInv /\ Q /\ [Next]_vars => Q' \/ D'
  BY GuardStep
<1>2. /\ <<Next /\ clockPassesDeadline>>_vars => late'
      /\ <<Next /\ timerFires>>_vars => D'
  BY DEF clockPassesDeadline, timerFires
<1>3. /\ NeverStuck /\ P => ENABLED <<Next /\ clockPassesDeadline>>_vars
      /\ NeverStuck /\ Q => ENABLED <<Next /\ timerFires>>_vars
  BY Zenon DEF NeverStuck
<1>4. /\ hasDeadline => P \/ late
      /\ late => Q \/ D
  OBVIOUS
<1> QED BY <1>1, <1>2, <1>3, <1>4, UnusedInvariance, PTL DEF FairSpec, Spec

\* DoneContextReturns for every protocol and whatever the server sends: once the
\* context is done, or will be because of its deadline, Transport.Query returns.
THEOREM QueryReturns == FairSpec /\ []NeverStuck => DoneContextReturns
<1>1. LiveInv /\ ctx # "live" => Below(11)
  BY RemainingRange DEF Below
<1>2. LiveInv /\ Below(1) => pc = "done"
  BY RemainingRange DEF Below
<1> QED
  BY <1>1, <1>2, ProgressGoesOn, closeOnDoneGoesOn, DeadlineExpires, UnusedInvariance,
     FunctionInvariance, PTL
  DEF FairSpec, LiveInv, DoneContextReturns

\* ResourcesReleased for every protocol and whatever the server sends: after the call
\* has returned, the connection, its goroutine and the response body are released.
THEOREM QueryReleases == FairSpec /\ []NeverStuck => ResourcesReleased
<1> DEFINE P == closer = "waiting" /\ cancelled /\ pc = "done" /\ httpBody = "none"
           Q == conn # "open" /\ closer # "waiting" /\ httpBody # "open"
           R == pc = "done" /\ ~(proto = "udp" /\ result.err \in {"pack", "write"})
<1>1. LiveInv /\ P /\ [Next]_vars => P' \/ Q'
  <2> SUFFICES ASSUME LiveInv, P, [Next]_vars PROVE P' \/ Q'
    BY Zenon
  <2>1. proto # "doh"
    BY DEF LiveInv, UnusedInv, overTCPorTLS
  <2>2. httpBody' = "none"
    BY <2>1 DEF Next, Query, overUDP, overStream, overHTTPS, Query_Default, Idle, vars,
       httpsVars
  <2> QED BY <2>2, GuardStep DEF LiveInv
<1>2. LiveInv /\ P /\ [Next]_vars /\ <<closeOnDone>>_vars => Q'
  <2> SUFFICES ASSUME LiveInv, P, closeOnDone PROVE Q'
    BY Zenon
  <2> QED BY DEF closeOnDone, overUDP, overStream, UDP!closeOnDone, Stream!closeOnDone,
                 httpsVars
<1>3. NeverStuck /\ P => ENABLED <<closeOnDone>>_vars
  BY Zenon DEF NeverStuck
<1>4. LiveInv /\ ConnOwned /\ BodyClosed /\ R => P \/ Q
  <2> SUFFICES ASSUME LiveInv, ConnOwned, BodyClosed, R PROVE P \/ Q
    BY Zenon
  <2>1. CASE proto = "udp"
    BY <2>1 DEF LiveInv, UnusedInv, FunctionInv, ConnOwned, UDP!IInv, UDP!ConnInv,
       UDP!OwnedAfterSend
  <2>2. CASE overTCPorTLS
    BY <2>2 DEF LiveInv, UnusedInv, FunctionInv, ConnOwned, Stream!IInv, Stream!ConnInv,
       Stream!ConnOwned, overTCPorTLS
  <2>3. CASE proto = "doh"
    BY <2>3 DEF LiveInv, UnusedInv, BodyClosed, HTTPS!BodyClosed, overTCPorTLS
  <2>4. CASE overOther
    BY <2>4 DEF LiveInv, UnusedInv, overTCPorTLS, overOther
  <2> QED BY <2>1, <2>2, <2>3, <2>4 DEF overTCPorTLS, overOther
<1> QED
  BY <1>1, <1>2, <1>3, <1>4, QueryOwnsConnection, QueryClosesBody, UnusedInvariance,
     FunctionInvariance, PTL
  DEF FairSpec, Spec, LiveInv, ResourcesReleased
=============================================================================
