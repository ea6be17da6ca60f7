------------------------------ MODULE Resolver ------------------------------
(***************************************************************************)
(* Resolver.LookupHost of src/resolver.go with the lookup and exchange of    *)
(* src/lookup.go: two goroutines resolve A and AAAA while other goroutines   *)
(* reconfigure the resolver and the caller may cancel.                       *)
(*                                                                         *)
(* The methods of ResolverConfig are single steps here, which is what module *)
(* ResolverConfig shows.  The transport is the environment: a query returns  *)
(* any message of Replies or an error, and it returns once its context is    *)
(* done, which is what module UDPQuery shows.                               *)
(***************************************************************************)
EXTENDS DnsMessage, Integers

CONSTANTS
  Hosts,           \* arguments of LookupHost
  IPLiterals,      \* the hosts net.ParseIP accepts
  Onions,          \* the hosts whose last label is "onion"
  Puny,            \* Puny[h]: the fully qualified IDNA name, or Invalid
  Invalid,         \* the result of a failed IDNA conversion
  Ids,             \* the query IDs dns.Id may return
  Replies,         \* the messages a server may answer with
  NoReply,         \* the absence of a message
  ConfigServers,   \* the servers AddServer may add: records with a timeout
  DefaultServers,  \* the servers of an empty configuration
  AttemptsArgs,    \* the arguments of SetAttempts
  MaxServers       \* bound on the number of configured servers

Workers == {"A", "AAAA"}

ASSUME ResolverAssumption ==
  /\ IPLiterals \subseteq Hosts /\ Onions \subseteq Hosts
  /\ AttemptsArgs \subseteq Int
  /\ NoReply \notin Replies
  /\ \A m \in Replies : m.answer \in Seq(ToSet(m.answer))
  /\ DefaultServers \in Seq(ConfigServers) /\ DefaultServers # <<>>
  /\ MaxServers \in Nat

VARIABLES
  ctx,       \* the caller's context: "live" or "done"
  host,      \* the argument of LookupHost
  attempts,  \* ResolverConfig.attempts
  list,      \* ResolverConfig.list
  main,      \* control point of LookupHost
  answer,    \* what LookupHost returned
  pc,        \* per lookup: control point
  n,         \* per lookup: the local attempts
  servers,   \* per lookup: the local servers
  idx,       \* per lookup: the loop counter
  timedOut,  \* per lookup: the timeout of the current exchange has expired
  res,       \* per lookup: lastErr, and finally the result
  trace      \* history, per lookup: the queries and what came back

config == <<attempts, list>>
vars == <<ctx, host, attempts, list, main, answer, pc, n, servers, idx, timedOut,
          res, trace>>

\* The context that exchange passes to the transport is done.
exchangeDone(w) == ctx = "done" \/ timedOut[w]

\* servers[uint32(idx) % uint32(len(servers))]
serverAt(list_, i) == list_[(i % Len(list_)) + 1]

\* Mutant: the servers are read from the configuration at each attempt.
current_Reread(w) == serverAt(IF list = <<>> THEN DefaultServers ELSE list, idx[w])

current(w) == serverAt(servers[w], idx[w])

newQuery(w, id) ==
  [id |-> id, question |-> <<[name |-> Puny[host], type |-> w, class |-> "IN"]>>]

Goto(w, label) == pc' = [pc EXCEPT ![w] = label]

-----------------------------------------------------------------------------
\* LookupA and LookupAAAA

\* "Behave like getaddrinfo when the host is an IP address."
Lookup_Start(w) ==
  /\ pc[w] = "start"
  /\ \/ /\ host \in IPLiterals
        /\ res' = [res EXCEPT ![w] = OK(<<host>>)]
        /\ Goto(w, "send")
     \/ /\ host \notin IPLiterals
        /\ res' = [res EXCEPT ![w] = Fail("ErrNoData")]
        /\ Goto(w, "attempts")
  /\ UNCHANGED <<ctx, host, config, main, answer, n, servers, idx, timedOut, trace>>

\* config.Attempts() and config.servers() are two separate calls.
lookup_Attempts(w) ==
  /\ pc[w] = "attempts"
  /\ n' = [n EXCEPT ![w] = attempts]
  /\ Goto(w, "servers")
  /\ UNCHANGED <<ctx, host, config, main, answer, servers, idx, timedOut, res, trace>>

lookup_Servers(w) ==
  /\ pc[w] = "servers"
  /\ servers' = [servers EXCEPT ![w] = IF list = <<>> THEN DefaultServers ELSE list]
  /\ Goto(w, "loop")
  /\ UNCHANGED <<ctx, host, config, main, answer, n, idx, timedOut, res, trace>>

\* Mutant: NXDOMAIN does not stop the loop.
attemptFailed_NeverStops(w, e) ==
  /\ res' = [res EXCEPT ![w] = Fail(e)]
  /\ idx' = [idx EXCEPT ![w] = @ + 1]
  /\ Goto(w, "loop")

\* The attempt at idx failed with e: stop on NXDOMAIN, otherwise go on.
attemptFailed(w, e) ==
  /\ res' = [res EXCEPT ![w] = Fail(e)]
  /\ idx' = [idx EXCEPT ![w] = @ + 1]
  /\ Goto(w, IF e = "ErrNoName" THEN "send" ELSE "loop")

\* Mutant: the goroutine leaves without sending the error.
lookup_Exhausted_NoSend(w) ==
  /\ pc[w] = "loop" /\ idx[w] >= n[w]
  /\ Goto(w, "exited")
  /\ UNCHANGED <<ctx, host, config, main, answer, n, servers, idx, timedOut, res, trace>>

\* The condition of the loop; after the last attempt return lastErr.
lookup_Exhausted(w) ==
  /\ pc[w] = "loop" /\ idx[w] >= n[w]
  /\ Goto(w, "send")
  /\ UNCHANGED <<ctx, host, config, main, answer, n, servers, idx, timedOut, res, trace>>

\* exchange up to the transport: domains that are not resolved, the timeout,
\* and the encoding of the query.
exchange_Refuse(w) ==
  /\ pc[w] = "loop" /\ idx[w] < n[w]
  /\ \/ host \in Onions /\ attemptFailed(w, "ErrNoData")
     \/ host \notin Onions /\ Puny[host] = Invalid /\ attemptFailed(w, "ErrIDNA")
  /\ UNCHANGED <<ctx, host, config, main, answer, n, servers, timedOut, trace>>

exchange_Query(w) ==
  /\ pc[w] = "loop" /\ idx[w] < n[w]
  /\ host \notin Onions /\ Puny[host] # Invalid
  /\ \E id \in Ids :
       trace' = [trace EXCEPT ![w] = Append(@,
         [server |-> current(w), live |-> ctx = "live",
          query |-> newQuery(w, IF current(w).protocol = "doh" THEN 0 ELSE id),
          reply |-> NoReply])]
  /\ timedOut' = [timedOut EXCEPT ![w] = FALSE]
  /\ Goto(w, "query")
  /\ UNCHANGED <<ctx, host, config, main, answer, n, servers, idx, res>>

\* Transport.Query fails.  It does so at once when the context is already done.
exchange_TransportError(w) ==
  /\ pc[w] = "query"
  /\ attemptFailed(w, IF exchangeDone(w) THEN "ErrContext" ELSE "ErrNetwork")
  /\ UNCHANGED <<ctx, host, config, main, answer, n, servers, timedOut, trace>>

\* Transport.Query returns a message, which exchange validates and interprets;
\* LookupA and LookupAAAA decode the records of a success.  A message may win
\* against a context that is done at the same time.
exchange_Reply(w) ==
  /\ pc[w] = "query" /\ trace[w][Len(trace[w])].live
  /\ \E m \in Replies :
       LET out == Interpret(trace[w][Len(trace[w])].query, m)
       IN  /\ trace' = [trace EXCEPT ![w][Len(trace[w])].reply = m]
           /\ \/ out.err # Nil /\ attemptFailed(w, out.err)
              \/ /\ out.err = Nil
                 /\ res' = [res EXCEPT ![w] = decodeLookup(w, out.val)]
                 /\ Goto(w, "send") /\ UNCHANGED idx
  /\ UNCHANGED <<ctx, host, config, main, answer, n, servers, timedOut>>

-----------------------------------------------------------------------------
\* LookupHost

\* Start both goroutines.
LookupHost_Spawn ==
  /\ main = "spawn"
  /\ main' = "recvA"
  /\ pc' = [w \in Workers |-> "start"]
  /\ UNCHANGED <<ctx, host, config, answer, n, servers, idx, timedOut, res, trace>>

\* Mutant: an A failure is returned without waiting for the AAAA lookup.
LookupHost_RecvA_Early ==
  /\ main = "recvA" /\ pc["A"] = "send"
  /\ main' = IF res["A"].err = Nil THEN "recvAAAA" ELSE "merge"
  /\ Goto("A", "exited")
  /\ UNCHANGED <<ctx, host, config, answer, n, servers, idx, timedOut, res, trace>>

\* ares, aaaares := <-ach, <-aaaach: both channels are unbuffered, so that the
\* goroutine that sends leaves together with the receive.
LookupHost_RecvA ==
  /\ main = "recvA" /\ pc["A"] = "send"
  /\ main' = "recvAAAA" /\ Goto("A", "exited")
  /\ UNCHANGED <<ctx, host, config, answer, n, servers, idx, timedOut, res, trace>>

LookupHost_RecvAAAA ==
  /\ main = "recvAAAA" /\ pc["AAAA"] = "send"
  /\ main' = "merge" /\ Goto("AAAA", "exited")
  /\ UNCHANGED <<ctx, host, config, answer, n, servers, idx, timedOut, res, trace>>

\* Mutant: a failed A lookup hides the addresses of the AAAA lookup.
merge_FirstError(a, aaaa) ==
  IF a.err # Nil THEN Fail(a.err)
  ELSE OK(resolverDedupAndSort(a.val \o aaaa.val))

\* Mutant: without addresses the result is always ErrNoData.
merge_NoData(a, aaaa) ==
  LET addrs == a.val \o aaaa.val
  IN  IF addrs # <<>> THEN OK(resolverDedupAndSort(addrs)) ELSE Fail("ErrNoData")

\* The result of LookupHost: the merged addresses, or the error that matters.
merge(a, aaaa) ==
  LET addrs == a.val \o aaaa.val
  IN  IF addrs # <<>> THEN OK(resolverDedupAndSort(addrs))
      ELSE IF a.err \notin {Nil, "ErrNoData"} THEN Fail(a.err)
      ELSE IF aaaa.err \notin {Nil, "ErrNoData"} THEN Fail(aaaa.err)
      ELSE Fail("ErrNoData")

LookupHost_Merge ==
  /\ main = "merge"
  /\ answer' = merge(res["A"], res["AAAA"])
  /\ main' = "done"
  /\ UNCHANGED <<ctx, host, config, pc, n, servers, idx, timedOut, res, trace>>

-----------------------------------------------------------------------------
\* Environment

Cancel ==
  /\ ctx = "live"
  /\ ctx' = "done"
  /\ UNCHANGED <<host, config, main, answer, pc, n, servers, idx, timedOut, res, trace>>

\* Mutant: the timeout is applied to the servers that have none.
ExchangeTimeout_Inverted(w) ==
  /\ pc[w] = "query" /\ current(w).timeout <= 0 /\ ~timedOut[w]
  /\ timedOut' = [timedOut EXCEPT ![w] = TRUE]
  /\ UNCHANGED <<ctx, host, config, main, answer, pc, n, servers, idx, res, trace>>

\* The timeout that exchange gave its context expires.
ExchangeTimeout(w) ==
  /\ pc[w] = "query" /\ current(w).timeout > 0 /\ ~timedOut[w]
  /\ timedOut' = [timedOut EXCEPT ![w] = TRUE]
  /\ UNCHANGED <<ctx, host, config, main, answer, pc, n, servers, idx, res, trace>>

SetAttempts ==
  /\ attempts' \in AttemptsArgs /\ main # "done"
  /\ UNCHANGED <<ctx, host, list, main, answer, pc, n, servers, idx, timedOut, res, trace>>

AddServer ==
  /\ Len(list) < MaxServers /\ main # "done"
  /\ \E s \in ConfigServers : list' = Append(list, s)
  /\ UNCHANGED <<ctx, host, attempts, main, answer, pc, n, servers, idx, timedOut,
                 res, trace>>

-----------------------------------------------------------------------------

Init ==
  /\ ctx = "live"
  /\ host \in Hosts
  /\ attempts = 2
  /\ list = <<>>
  /\ main = "spawn"
  /\ answer = OK(<<>>)
  /\ pc = [w \in Workers |-> "none"]
  /\ n = [w \in Workers |-> 0]
  /\ servers = [w \in Workers |-> <<>>]
  /\ idx = [w \in Workers |-> 0]
  /\ timedOut = [w \in Workers |-> FALSE]
  /\ res = [w \in Workers |-> OK(<<>>)]
  /\ trace = [w \in Workers |-> <<>>]

Lookup(w) ==
  \/ Lookup_Start(w) \/ lookup_Attempts(w) \/ lookup_Servers(w)
  \/ lookup_Exhausted(w) \/ exchange_Refuse(w) \/ exchange_Query(w)

Exchange(w) == exchange_TransportError(w) \/ exchange_Reply(w)

LookupHost ==
  LookupHost_Spawn \/ LookupHost_RecvA \/ LookupHost_RecvAAAA \/ LookupHost_Merge

Terminated == main = "done" /\ UNCHANGED vars

Next ==
  \/ LookupHost
  \/ \E w \in Workers : Lookup(w) \/ Exchange(w) \/ ExchangeTimeout(w)
  \/ Cancel \/ SetAttempts \/ AddServer
  \/ Terminated

Spec == Init /\ [][Next]_vars

\* Goroutines are scheduled, timers fire, and the transport returns once the
\* context of the query is done.  Servers need not answer.
FairSpec ==
  /\ Spec
  /\ WF_vars(LookupHost)
  /\ \A w \in Workers :
       /\ WF_vars(Lookup(w))
       /\ WF_vars(ExchangeTimeout(w))
       /\ WF_vars(exchangeDone(w) /\ exchange_TransportError(w))

-----------------------------------------------------------------------------
\* Properties

\* What the last query of w was answered with, as exchange understood it.
outcome(w, i) == Interpret(trace[w][i].query, trace[w][i].reply)

answered(w, i) == trace[w][i].reply # NoReply

\* A lookup makes at most as many queries as it was configured to when it
\* started, and it walks the servers configured when it started in turn, over
\* and over: servers and attempts that are configured while it runs, by
\* AddServer or SetAttempts, do not disturb it.
RoundRobin ==
  \A w \in Workers :
    /\ Len(trace[w]) <= (IF n[w] < 0 THEN 0 ELSE n[w])
    /\ \A i \in 1..Len(trace[w]) :
         trace[w][i].server = serverAt(servers[w], i - 1)
    /\ servers[w] \in {<<>>, DefaultServers} \/ IsPrefix(servers[w], list)

\* Only the last query of a lookup can have an answer that settles the lookup,
\* that is a success or NXDOMAIN: lookup neither queries on after such an
\* answer nor gives up before one while attempts are left.
LastQuerySettles ==
  \A w \in Workers :
    /\ \A i \in 1..(Len(trace[w]) - 1) :
         answered(w, i) => outcome(w, i).err \notin {Nil, "ErrNoName"}
    /\ (pc[w] \in {"send", "exited"} /\ trace[w] # <<>> /\ Len(trace[w]) < n[w]) =>
         /\ answered(w, Len(trace[w]))
         /\ outcome(w, Len(trace[w])).err \in {Nil, "ErrNoName"}

\* The addresses w found, given all it received: those of the last answer, if
\* that is valid for the query of w.
found(w) ==
  IF trace[w] = <<>> \/ ~answered(w, Len(trace[w])) THEN {}
  ELSE LET out == outcome(w, Len(trace[w]))
       IN  {Text[rr.data] : rr \in {r \in ToSet(out.val) : r.type = w}}

\* The addresses LookupHost returns are, without duplicates and IPv4 first,
\* exactly the addresses in the valid answers that its two lookups received: an
\* answer to another question or with another ID contributes nothing, and one
\* failed lookup does not hide the addresses of the other one.
AddressesFromValidAnswers ==
  (main = "done" /\ host \notin IPLiterals) =>
    LET found_ == found("A") \cup found("AAAA")
    IN  /\ ToSet(answer.val) = found_
        /\ (answer.err = Nil) <=> (found_ # {})
        /\ IsInjective(answer.val)
        /\ \A i, j \in 1..Len(answer.val) :
             (i < j /\ answer.val[i] \in V6) => answer.val[j] \in V6

\* LookupHost reports that a name does not exist only if a server said so, in a
\* valid response to one of the two questions, and it reports a lack of data
\* only if that is how both lookups ended: it never hides a network error, a
\* misbehaving server or a cancelled context behind ErrNoData.
HonestError ==
  main = "done" =>
    /\ answer.err = "ErrNoName" =>
         \E w \in Workers :
           /\ trace[w] # <<>> /\ answered(w, Len(trace[w]))
           /\ trace[w][Len(trace[w])].reply.rcode = "NXDOMAIN"
           /\ ValidateResponse(trace[w][Len(trace[w])].query,
                               trace[w][Len(trace[w])].reply) = Nil
    /\ answer.err = "ErrNoData" => \A w \in Workers : res[w].err = "ErrNoData"

\* When LookupHost returns, both goroutines it started have terminated.
NoGoroutineLeft ==
  main = "done" => \A w \in Workers : pc[w] = "exited"

\* A cancelled LookupHost returns.
CancelledReturns == (ctx = "done") ~> (main = "done")

\* If every server has a timeout, LookupHost returns even if no server ever
\* answers and nobody cancels.
TimeoutsReturn ==
  [](\A s \in ToSet(list) : s.timeout > 0) => <>(main = "done")
=============================================================================
