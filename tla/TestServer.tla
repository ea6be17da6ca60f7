----------------------------- MODULE TestServer -----------------------------
(***************************************************************************)
(* The test server of src/dnscoretest: StartUDP, StartTCP, StartTLS and       *)
(* StartHTTPS, the goroutine each of them starts, the serving of queries with *)
(* the handler of NewExampleComHandler, and Close.  A panic in any of these   *)
(* goroutines ends the process, except in one that net/http runs.            *)
(***************************************************************************)
EXTENDS Integers, Sequences, FiniteSets

CONSTANTS
  Calls,     \* the calls of a Start method
  Clients,   \* the clients, with one connection or datagram each
  None,      \* no listener yet
  Waits      \* the caller waits for the ready channel before it goes on

ASSUME CallerAssumption == Waits \in BOOLEAN /\ None \notin Calls

Kinds == {"udp", "tcp", "dot", "doh"}

VARIABLES
  kind,       \* which Start method a call calls
  addr,       \* s.Addr, s.RootCAs and s.URL: the call whose listener they name
  ioclosers,  \* s.ioclosers: the calls whose listeners they are
  started,    \* s.started
  gor,        \* the goroutine of a call
  readClosers, \* the value of s.ioclosers that its append has read
  ready,      \* the ready channel of a call is closed
  listener,   \* the listener of a call: "none", "open" or "closed"
  closing,    \* the progress of Close: "no", "closing" or "closed"
  toClose,    \* what is left of the range over s.ioclosers
  peer,       \* the server a client is connected to
  client,     \* "off", "waiting", "answered", "failed" or "gone"
  sent,       \* what the client has sent: "nothing", "part", "query", "garbage"
  serving,    \* the clients whose query is being read or handled
  served,     \* the clients that were accepted
  panic       \* why the process has crashed, or "no"

startVars  == <<kind, addr, ioclosers, started, gor, readClosers, ready>>
closeVars  == <<closing, toClose>>
clientVars == <<peer, client, sent>>
serveVars  == <<serving, served>>
testVars == <<startVars, listener, closeVars, clientVars, serveVars, panic>>

\* The caller does not go on before the servers it has started are ready.
callerMayGoOn == Waits => \A s \in Calls : gor[s] # "none" => ready[s]

-----------------------------------------------------------------------------
\* Starting

\* The assertion of every Start method, then go func().
Start(s) ==
  /\ gor[s] = "none" /\ closing = "no" /\ callerMayGoOn
  /\ IF started THEN panic' = "started" /\ UNCHANGED gor
     ELSE gor' = [gor EXCEPT ![s] = "listen"] /\ UNCHANGED panic
  /\ UNCHANGED <<kind, addr, ioclosers, started, readClosers, ready, listener,
                 closeVars, clientVars, serveVars>>

\* listenPacket, listen or listenTLS; "This method panics in case of failure."
Listen(s) ==
  /\ gor[s] = "listen"
  /\ \/ /\ listener' = [listener EXCEPT ![s] = "open"]
        /\ gor' = [gor EXCEPT ![s] = "append"] /\ UNCHANGED panic
     \/ panic' = "listen" /\ UNCHANGED <<listener, gor>>
  /\ UNCHANGED <<kind, addr, ioclosers, started, readClosers, ready,
                 closeVars, clientVars, serveVars>>

\* Mutant: the caller is told before the listener is registered.
Append_Load_Early(s) ==
  /\ gor[s] = "append"
  /\ addr' = s /\ readClosers' = [readClosers EXCEPT ![s] = ioclosers]
  /\ ready' = [ready EXCEPT ![s] = TRUE]
  /\ gor' = [gor EXCEPT ![s] = "store"]
  /\ UNCHANGED <<kind, ioclosers, started, listener, closeVars, clientVars,
                 serveVars, panic>>

\* The address is published, and append reads s.ioclosers ...
Append_Load(s) ==
  /\ gor[s] = "append"
  /\ addr' = s /\ readClosers' = [readClosers EXCEPT ![s] = ioclosers]
  /\ gor' = [gor EXCEPT ![s] = "store"]
  /\ UNCHANGED <<kind, ioclosers, started, ready, listener, closeVars, clientVars,
                 serveVars, panic>>

\* ... and its result is stored.
Append_Store(s) ==
  /\ gor[s] = "store"
  /\ ioclosers' = Append(readClosers[s], s)
  /\ gor' = [gor EXCEPT ![s] = "announce"]
  /\ UNCHANGED <<kind, addr, started, readClosers, ready, listener, closeVars, clientVars,
                 serveVars, panic>>

\* started is set and the ready channel is closed.
Announce(s) ==
  /\ gor[s] = "announce"
  /\ started' = TRUE /\ ready' = [ready EXCEPT ![s] = TRUE]
  /\ gor' = [gor EXCEPT ![s] = "loop"]
  /\ UNCHANGED <<kind, addr, ioclosers, readClosers, listener, closeVars, clientVars,
                 serveVars, panic>>

-----------------------------------------------------------------------------
\* Close

Close_Call ==
  /\ closing = "no" /\ callerMayGoOn /\ \E s \in Calls : gor[s] # "none"
  /\ closing' = "closing" /\ toClose' = ioclosers
  /\ UNCHANGED <<startVars, listener, clientVars, serveVars, panic>>

\* One round of the loop, or the return after the last one.
Close_Loop ==
  /\ closing = "closing"
  /\ IF toClose = <<>> THEN closing' = "closed" /\ UNCHANGED <<toClose, listener>>
     ELSE /\ listener' = [listener EXCEPT ![Head(toClose)] = "closed"]
          /\ toClose' = Tail(toClose) /\ UNCHANGED closing
  /\ UNCHANGED <<startVars, clientVars, serveVars, panic>>

-----------------------------------------------------------------------------
\* The clients

\* A client connects to the address it finds in the server.
Dial(c) ==
  /\ client[c] = "off" /\ addr # None /\ ready[addr] /\ listener[addr] = "open"
  /\ peer' = [peer EXCEPT ![c] = addr]
  /\ client' = [client EXCEPT ![c] = "waiting"]
  /\ UNCHANGED <<startVars, listener, closeVars, sent, serveVars, panic>>

\* A client sends its query, over a stream possibly in two parts.
Send(c) ==
  /\ client[c] = "waiting" /\ sent[c] \in {"nothing", "part"}
  /\ \/ sent' = [sent EXCEPT ![c] = "query"]
     \/ sent' = [sent EXCEPT ![c] = "garbage"]
     \/ /\ kind[peer[c]] # "udp" /\ sent[c] = "nothing"
        /\ sent' = [sent EXCEPT ![c] = "part"]
  /\ UNCHANGED <<startVars, listener, closeVars, peer, client, serveVars, panic>>

\* A client whose context is done closes its connection without an answer.
Leave(c) ==
  /\ client[c] = "waiting"
  /\ client' = [client EXCEPT ![c] = "gone"]
  /\ UNCHANGED <<startVars, listener, closeVars, peer, sent, serveVars, panic>>

-----------------------------------------------------------------------------
\* The goroutine of a server

complete(c) == sent[c] \in {"query", "garbage"}

\* The loop of s is busy with a client.
busy(s) == \E c \in serving : peer[c] = s

\* Mutant: there is no loop, only the first client is served.
mayAccept_Once(s, c) == served = {}

\* Whether the loop can take up a client: a datagram has to be there, and a stream
\* is served before the next one is accepted.  net/http serves all at once.
mayAccept(s, c) ==
  CASE kind[s] = "udp" -> complete(c) /\ ~busy(s)
    [] kind[s] \in {"tcp", "dot"} -> ~busy(s)
    [] kind[s] = "doh" -> TRUE

\* Accept or ReadFrom returns; a client that is gone may still be accepted.
Accept(s, c) ==
  /\ gor[s] = "loop" /\ listener[s] = "open"
  /\ peer[c] = s /\ c \notin served /\ mayAccept(s, c)
  /\ serving' = serving \cup {c} /\ served' = served \cup {c}
  /\ UNCHANGED <<startVars, listener, closeVars, clientVars, panic>>

\* Mutant: the loop ignores the error.
LoopEnds_Ignored(s) == gor[s] = "loop" /\ listener[s] = "closed" /\ UNCHANGED testVars

\* Accept or ReadFrom fails because the listener is closed: the loop ends.
LoopEnds(s) ==
  /\ gor[s] = "loop" /\ listener[s] = "closed"
  /\ kind[s] # "doh" => ~busy(s)
  /\ gor' = [gor EXCEPT ![s] = "exited"]
  /\ UNCHANGED <<kind, addr, ioclosers, started, readClosers, ready, listener, closeVars,
                 clientVars, serveVars, panic>>

\* A panic while serving c; net/http recovers it and drops the connection.
Crash(c, why) ==
  /\ serving' = serving \ {c}
  /\ IF kind[peer[c]] = "doh"
     THEN /\ client' = [client EXCEPT ![c] = IF @ = "waiting" THEN "failed" ELSE @]
          /\ UNCHANGED panic
     ELSE panic' = why /\ UNCHANGED client

\* io.ReadFull or io.ReadAll finds the end of the stream within the query.
serveConn_Fails(c) ==
  /\ c \in serving /\ ~complete(c) /\ client[c] = "gone"
  /\ Crash(c, "read")
  /\ UNCHANGED <<startVars, listener, closeVars, peer, sent, served>>

\* The handler cannot parse the query.
Handle_Garbage(c) ==
  /\ c \in serving /\ sent[c] = "garbage"
  /\ Crash(c, "query")
  /\ UNCHANGED <<startVars, listener, closeVars, peer, sent, served>>

\* The handler writes its response, and the connection is closed.
Handle_Query(c) ==
  /\ c \in serving /\ sent[c] = "query"
  /\ kind[peer[c]] = "udp" => listener[peer[c]] # "closed"
  /\ serving' = serving \ {c}
  /\ client' = [client EXCEPT ![c] = IF @ = "waiting" THEN "answered" ELSE @]
  /\ UNCHANGED <<startVars, listener, closeVars, peer, sent, served, panic>>

\* Mutant: the connection is closed before the handler runs.
streamWriteFails_ClosedFirst(c) == TRUE

\* Writing to a stream fails if the client has closed it; Close does not matter.
streamWriteFails(c) == client[c] = "gone"

\* WriteTo fails if Close has closed the socket; the client does not matter.
udpWriteFails(c) == listener[peer[c]] = "closed"

Handle_WriteFails(c) ==
  /\ c \in serving /\ sent[c] = "query"
  /\ IF kind[peer[c]] = "udp" THEN udpWriteFails(c) ELSE streamWriteFails(c)
  /\ Crash(c, "write")
  /\ UNCHANGED <<startVars, listener, closeVars, peer, sent, served>>

Serve(c) ==
  \/ \E s \in Calls : Accept(s, c)
  \/ serveConn_Fails(c) \/ Handle_Garbage(c) \/ Handle_Query(c) \/ Handle_WriteFails(c)

\* The four Start methods differ in how they listen and in how they serve.
steps(s) == Listen(s) \/ Append_Load(s) \/ Append_Store(s) \/ Announce(s) \/ LoopEnds(s)

StartUDP(s) == kind[s] = "udp" /\ steps(s)
StartTCP(s) == kind[s] = "tcp" /\ steps(s)
StartTLS(s) == kind[s] = "dot" /\ steps(s)
StartHTTPS(s) == kind[s] = "doh" /\ steps(s)

Goroutine(s) == StartUDP(s) \/ StartTCP(s) \/ StartTLS(s) \/ StartHTTPS(s)

-----------------------------------------------------------------------------

\* The process has crashed, or everything is over.
TestTerminated ==
  /\ \/ panic # "no"
     \/ closing = "closed" /\ serving = {} /\ \A s \in Calls : gor[s] \in {"none", "exited"}
  /\ UNCHANGED testVars

TestInit ==
  /\ kind \in [Calls -> Kinds]
  /\ addr = None /\ ioclosers = <<>> /\ started = FALSE
  /\ gor = [s \in Calls |-> "none"] /\ readClosers = [s \in Calls |-> <<>>]
  /\ ready = [s \in Calls |-> FALSE] /\ listener = [s \in Calls |-> "none"]
  /\ closing = "no" /\ toClose = <<>>
  /\ peer = [c \in Clients |-> None] /\ client = [c \in Clients |-> "off"]
  /\ sent = [c \in Clients |-> "nothing"]
  /\ serving = {} /\ served = {}
  /\ panic = "no"

TestNext ==
  \/ /\ panic = "no"
     /\ \/ \E s \in Calls : Start(s) \/ Goroutine(s)
        \/ Close_Call \/ Close_Loop
        \/ \E c \in Clients : Dial(c) \/ Send(c) \/ Leave(c) \/ Serve(c)
  \/ TestTerminated

TestSpec == TestInit /\ [][TestNext]_testVars

\* The goroutines make progress, and a client that has connected sends its query
\* or leaves, as queryStream does.
TestFairSpec ==
  /\ TestSpec
  /\ \A s \in Calls : WF_testVars(panic = "no" /\ Goroutine(s))
  /\ \A c \in Clients : WF_testVars(panic = "no" /\ Serve(c)) /\ WF_testVars(panic = "no" /\ Send(c))
  /\ WF_testVars(panic = "no" /\ Close_Loop)

-----------------------------------------------------------------------------
\* Properties

\* A caller that waits for ready before it calls Close leaves no listener behind,
\* although ioclosers is written by one goroutine and read by another.
CloseIsComplete == closing = "closed" => \A s \in Calls : listener[s] # "open"

\* The panics of serveConn and of the handler never hit a test whose clients send a
\* query and wait for the answer, as long as the server is not being closed.
GoodClientsDoNotCrash ==
  /\ closing = "no"
  /\ \A c \in Clients : client[c] # "gone" /\ sent[c] # "garbage"
  => panic \notin {"read", "query", "write"}

\* A client that has sent its query is answered or dropped, even behind another
\* connection, unless the process crashes or the server is closed.
QueryIsAnswered ==
  \A c \in Clients : (client[c] = "waiting" /\ sent[c] = "query")
                       ~> (client[c] # "waiting" \/ panic # "no" \/ closing # "no")

\* After Close the goroutines of the server end.
LoopsEnd ==
  (closing = "closed")
    ~> (panic # "no" \/ \A s \in Calls : gor[s] \in {"none", "exited"})
=============================================================================
