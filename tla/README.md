# dnscore in TLA+

A TLA+ model of `dnscore`, a Go library that sends DNS queries over UDP, TCP,
TLS and HTTPS and resolves names with them. The modules are translated from
the code in `src/`; `PROJECT.json` maps every definition to the lines it stands
for. TLC checks the modules on small instances, TLAPS proves the safety properties
and part of the liveness for every value of the constants.

    tlc -config MCTransport.cfg MCTransport    # model-check one run
    tlapm UDPQueryProofs.tla                   # check the proofs of one module

## The system

| Part | Source | State | Operations |
|---|---|---|---|
| UDP transport | `doudp.go` | context, connection, closing goroutine, channel | `queryUDP`, `queryUDPWithDuplicates`, `sendQueryUDP`, `recvResponseUDP`, `emitMessageOrError` |
| Stream transports | `dotcp.go`, `dotls.go` | context, stream, closing goroutine | `queryTCP`, `queryTLS`, `queryStream`, `newRawMsgFrame` |
| HTTPS transport | `dohttps.go` | request, response body | `queryHTTPS` |
| Dispatch | `transport.go` | none (the fields of `Transport` do not change) | `Query`, `QueryWithDuplicates` |
| Queries | `query.go` | the message under construction | `NewQueryWithServerAddr`, `QueryOptionEDNS0`, `QueryOptionID` |
| Responses | `response.go`, `answer.go` | none (pure) | `ValidateResponse`, `RCodeToError`, `ValidAnswers`, `DecodeLookupA`, `DecodeLookupAAAA` |
| Configuration | `resolverconfig.go` | `attempts`, `list`, `mu` | `SetAttempts`, `Attempts`, `AddServer`, `servers` |
| Resolver | `resolver.go`, `lookup.go` | two goroutines, their channels and loops | `LookupHost`, `LookupA`, `LookupAAAA`, `lookup`, `exchange` |
| Addresses, logging | `serveraddr.go`, `slog.go` | none | constructors, output |
| Test server | `dnscoretest/` | listeners, `started`, `ioclosers` | `StartUDP`, `StartTCP`, `StartTLS`, `StartHTTPS`, `Close` |
| Tools | `internal/cmd/` | none | flag parsing around one call |

`LookupHost` runs `LookupA` and `LookupAAAA` in two goroutines. Each one walks
the configured servers with `lookup`, which calls `exchange` for each attempt;
`exchange` builds a query, hands it to a transport, and validates and interprets
the response. Any number of goroutines may share the configuration, the
resolver and the transport.

What makes it hard: a cancellation, a deadline on the connection and a timer of
the context race with the response; a goroutine closes the connection under
a pending read; the reader of a bounded channel may go away; the network loses,
duplicates, reorders and truncates datagrams, cuts streams into pieces and ends
them anywhere; lengths wrap around at 16 bits; the configuration changes while a
lookup runs; one of two concurrent lookups fails; a step fails after an earlier
one has acquired a resource. `PROJECT.json` lists these hazards line by line
with the properties that guard them.

## Modules

### QueryCall and QueryContract (`transport.go`)

`QueryCall` holds what every transport has in common: the caller's context and
its clock, the results, `edns0MaxResponseSize`, and what `dns.Msg.Unpack` may
make of the first bytes of a message. `ctx` and `late` are separate: the deadline
of a connection passes on the clock (`late`) before the timer cancels the
context, and a read may time out in between.

`QueryContract` is what `Transport.Query` promises, whatever the protocol: a call
whose context is done does not start; it returns once; a message it returns is
the first thing that was received; it reports an abort only if the context is
done or its deadline has passed. Every transport refines it (`Implements`):
`call` is the control point, `outcome` the kind of the result, and `inbox` what
the transport has received, which is the datagrams that arrived, the first frame
of the stream once it is complete, or the body of the reply. The liveness part is
`DoneContextReturns` of `Transport`.

### UDPSocket, UDPQuery, UDPDuplicates (`doudp.go`)

`UDPSocket` is the part that both UDP functions share: one action for each step
of `sendQueryUDP` and `recvResponseUDP`, the closing goroutine, and the
environment, which is the caller's context, the clock and the network. A helper
leaves its return values in `ret`, and its caller takes over at the control
points `sent` and `received`. `UDPQuery` adds `queryUDP`, and `UDPDuplicates`
adds `QueryWithDuplicates`, which refuses the other protocols, and
`queryUDPWithDuplicates` with its channel and the reader of the channel.

* A blocked read that can return a datagram and can fail does either.
* A datagram is a message or garbage. `Unpack` keeps what matters of its size: a
  datagram that fits the buffer parses completely, one that does not is cut off
  and either fails to parse or parses to a part of the message.
* `emitMessageOrError` is a Go `select`: with both cases ready either is taken.
* Logging and the time function are left out.

### StreamQuery, MsgFrame (`dotcp.go`, `dotls.go`)

`queryTCP` and `queryTLS` differ in how they dial; `queryStream` does the rest.
What the server sends is chosen at the start: two length bytes, a message, and
bytes that follow. It arrives in pieces that end anywhere, so that the two
`io.ReadFull` take any number of reads, and it may end anywhere. The length bytes
need not fit the message. The buffered reader is left out: it changes how often
`conn.Read` is called, not which bytes the two `io.ReadFull` get. `MsgFrame` has the
framing, with bytes as `% 256`. `ServerSide` declares what servers may send, for
this module and the next.

### HTTPSQuery (`dohttps.go`)

`queryHTTPS` with an external HTTP client, which yields the headers of a reply and
then pieces of its body. The limit on the body counts as its end and raises no
error, so that a larger message fails to parse or is returned in part, although the
comment at `dohttps.go:135` speaks of "the whole raw response body";
`WholeOrLimited` states what does hold. A body whose length was announced cannot end early
without an error, one that lasts until the connection closes can. The optional
functions of `Transport` (`HTTPClientDo`, `ReadAllContext` and so on) are taken to
behave like the ones they replace.

### Transport (`transport.go`)

The composition: `Query` selects the function by protocol, and the three transport
modules, instantiated, share the caller, the control point and the result. The
default case is an action of its own. In the initial states, what a server of
another protocol would send has one fixed value, since the call cannot see it.
The properties of the transport modules are checked through this composition. The
instances are of the proof modules, so that the proofs of `Transport` can cite their
theorems. `Progress` is what the goroutine of the query does by itself, `closeOnDone`
the goroutine that closes its connection: the two that fairness is about.

### QueryBuilder (`query.go`)

One call of `NewQueryWithServerAddr` or `NewQuery`: encoding the name, creating
the message, the loop over the options. Of the message it keeps the ID, the OPT
records, and the number that `dns.Msg.Len` returns, which the padding depends on;
`remainder` is in the arithmetic of `uint16`. An option is one of the two in
`query.go` or one that fails. (In this module, `TestServer` and `UDPDuplicates` the
usual names have a prefix, `BuilderSpec`, `TestSpec`, `DupSpec`, because a proof
module extends them together with another one.)

### ResolverConfig, ConfigSpec (`resolverconfig.go`)

Every access to the fields of the struct and every half-step of the
`sync.RWMutex` is an action, for any set of goroutines. The mutex is the one of
the Go library as the code uses it: a waiting writer stops new readers, and
`Unlock` lets in the readers that waited. A server is the record that
`newResolverConfigServer` computes from an address and its options; `SetAttempts`
and `AddServer` store, `Attempts` and `servers` read, and `servers` fills in the
default servers after it has released the lock.

`ConfigSpec` is the promise: each call takes effect at one instant between its
invocation and its return. `ResolverConfig!Linearizable` states the refinement.
A store takes effect at the write and a read at the read; `servers` is decided
when the list is copied, so the mapping anticipates the default servers.

### DnsMessage, DnsInputs (`response.go`, `answer.go`, `resolverDedupAndSort`)

The pure functions as operators on records with the fields they look at. Names
are compared through `Lower`, and addresses are printed through `Text`, which
maps an IPv4-mapped IPv6 address to the text of the IPv4 address, as
`net.IP.String` does. A loop that appends some elements of its input to a list is
`appended`, with the positions of these elements. The module also has the definitions
that the functions are judged by (`InOrderChain`, `AtEndOfChain`,
`wanted`, `Picks`, `DedupedAndSorted`). `DnsInputs` states them of a response and of a
list of addresses that grow by one element at a time, so that the run and the theorems
speak of the same properties; it models no code of its own.

### Resolver (`resolver.go`, `lookup.go`)

`LookupHost` and its two lookups, with the operators of `DnsMessage`. It relies
on the other modules: the methods of the configuration are single steps, which
`ResolverConfig` justifies, and a transport returns once its context is done and
yields a message that was received or an error, which `Transport` justifies for
every protocol. A query returns any message of `Replies` or an
error. `trace` is a history of the queries of each lookup and the messages that
came back, against which the results are judged.

A lookup that starts an exchange with a context that is already done gets an
error without any traffic, since the transports check the context first.

### TestServer (`dnscoretest/`)

The four `Start` methods, the goroutine each of them starts, the serving of
queries, and `Close`. The append to `ioclosers` is a load and a store, because no
lock protects it. UDP and streams serve one query after the other, HTTPS serves
them concurrently. `runtimex.Try` panics, which ends the process, except in a
goroutine of `net/http`. Clients send a query, a part of one or garbage, or leave.
`Waits` says whether the test waits for the ready channel, as the tests of the
repository do and as the run assumes. Without waiting the assertion of the `Start`
methods protects nothing: the goroutine sets `started`, so that two calls in a row
both pass (`dnscoretest/doudp.go:15` and `21`) and race on `ioclosers`.

## Runs

| Run | Module | Shows |
|---|---|---|
| `udp_duplicates` | `MCUDPDuplicates` | nothing is lost while the context is live (`NoLossWhileLive`), the channel ends with one error or a done context (`ErrorIsLast`, `SilentCloseOnlyWhenDone`), is never sent to after it was closed (`NoSendAfterClose`), and is closed even with a full buffer and no reader (`DoneContextCloses`, `ConnReleased`); no goroutine waits for something that cannot happen any more (`NeverStuck`) |
| `transport` | `MCTransport` | over UDP a message returned is the first datagram (`FirstMessage`); over TCP and TLS the message is that of the first frame however the stream is cut (`FirstFrame`), queries are framed up to the last length that fits (`QueryFramed`); the connection has an owner, over UDP after a successful send, over TCP and TLS on every path (`ConnOwned`); no closing goroutine aborts a live query (`AbortOnlyWhenDone`); over HTTPS a message is incomplete only past the advertised size or without an announced length (`WholeOrLimited`), reads are bounded (`ReadsBounded`) and the body is closed (`BodyClosed`). For every protocol, known or not, `Transport.Query` keeps the contract (`Implements`), returns when its context is done or has a deadline (`DoneContextReturns`), and leaves nothing behind (`ResourcesReleased`, but for the first finding); once the context is done only a read of a connection that is about to be closed holds it up (`NeverStuck`) |
| `query_builder` | `MCQueryBuilder` | padding fills the last block and is never negative (`PaddedToBlock`), the ID is the expected one (`IDRule`), all options are applied or there is no query (`AllOrNothing`) |
| `test_server` | `MCTestServer` | for a test that waits for ready: nothing listens after `Close` (`CloseIsComplete`), good clients do not crash it (`GoodClientsDoNotCrash`), every query is answered (`QueryIsAnswered`), the loops end (`LoopsEnd`) |
| `resolver_config` | `MCResolverConfig` | no data race, no lost server, never an empty list of servers, every call returns, and the refinement of `ConfigSpec` |
| `dns_message` | `MCDnsMessage` | `ValidAnswers` returns the records at the end of the alias chain, and `resolverDedupAndSort` is a stable partition without duplicates, against reference definitions |
| `resolver` | `MCResolver` | the result of `LookupHost` is what its lookups validly received (`AddressesFromValidAnswers`), its errors are honest (`HonestError`), it walks the servers in turn (`RoundRobin`), stops when settled and not before (`LastQuerySettles`) and leaves no goroutine |
| `resolver_live` | `MCResolver` | `LookupHost` returns when cancelled, and without cancellation if all servers have a timeout |
| `udp_conn_leak` | `MCUDPQuery` | violated: see the first finding |
| `udp_loop_ends` | `MCUDPDuplicates` | violated: see the second finding |
| `rcode_zero`, `empty_answers` | `MCDnsMessage` | violated: see the third and fourth finding |

### Bounds

* Every protocol and an unknown one. `MaxDatagrams`: 2 for `queryUDP`, which reads
  one; 3 for the duplicates, whose channel has `Cap = 2` here, so that it fills
  up. The code uses a capacity of 4, and the theorems hold for every capacity.
* Messages of 512 and 513 bytes, and queries without an OPT record, with a zero
  size, with 1232, and with two OPT records: the boundary of the default size.
* Streams with the same messages, whose lengths need both length bytes, with a
  garbage body, with an empty frame, with frames one byte too short and too long,
  with bytes behind the frame, and with a frame of 65535 bytes; `PieceEnds` cuts
  them within and after the header and each body. Queries of 40, 65535 and 65536
  bytes.
* Bodies of HTTPS replies with the same messages, so that one exceeds the default
  size by a byte; good headers, a bad status, a bad content type, and a body
  without a length.
* Names around the lengths at which the padding jumps, the root and the longest
  names; all sequences of up to three options.
* Two calls of a `Start` method, of any kinds, and two clients: one waits behind the
  other.
* Three goroutines and two servers in the configuration: a writer, a reader and
  a third one that waits behind either.
* One added server and attempts in {-1, 1, 2}: lookups with no query, with one,
  and with two that use the same or different servers. The replies contain a
  usable answer with an alias, NXDOMAIN, SERVFAIL, both address families, and
  messages that answer the other question or have the wrong ID.
* Answers of up to 4 records from 14, and lists of up to 5 addresses from 4.

`dns_message` enumerates inputs that only grow, so that its last states have no
successor, and it does not check for deadlock. All other passing runs do.

### Fairness

The Go scheduler runs every goroutine that can run, and timers fire: weak fairness
on the steps of the code and on `DeadlinePasses`, `ContextExpires` and
`ExchangeTimeout`. Strong fairness on `Lock_Announce` is the starvation freedom of
`sync.Mutex` between writers. Weak fairness on `sendQueryUDP` means that a dial,
which gets the context, and a write, which has the deadline, return; the same
holds for the dial and the write of `StreamQuery`, and the HTTP client reacts to
the context of its request. In `TestServer` a client that has connected sends its
query or leaves. The network need not deliver anything, servers need not answer,
callers need not cancel, and readers may leave; so liveness is claimed only for a
context that is done or has a deadline.

## Findings

1. `sendQueryUDP` does not close the connection it has dialled when packing or
   writing the query fails, and its callers drop it. The comment at
   `doudp.go:49` passes ownership to the caller "on success" only.
   `OwnedAfterSend`, which is the UDP part of `ConnOwned` in `Transport`, states what
   does hold.
2. The loop of `queryUDPWithDuplicates` ends at the first receive or parse
   error; the comment at `doudp.go:199` says it goes on "until the context is
   done". One datagram that does not parse ends the collection.
3. `RCodeToError` returns `ErrNoData` for a lame referral; the comment at
   `response.go:116` says that a zero RCODE yields nil.
4. `ValidAnswers` returns `ErrNoData` when no record is valid; the comment at
   `response.go:149` promises an empty list.

## Proofs

All theorems are for arbitrary constants, under the assumptions named in the
modules (`CallAssumption`, `ExtrasAssumption`, `SocketAssumption`, `CapAssumption`,
`StreamAssumption`, `ReplyAssumption`, `TransportAssumption`, `BuilderAssumption`,
`ConfigAssumption`, `ResolverAssumption`, `CallerAssumption`). They only say that sets
of arguments have the right type, that the counters of the models are numbers, and
that there are default servers. Every safety property of a passing run is proved,
except the two `NeverStuck`.

* `QueryCallProofs`: lemmas about what the transports share.
* `UDPQueryProofs`: `TypeCorrect`, `ReturnsFirstMessage`, `NeverAbortsItself`,
  `ConnOwned`, `Refinement`, and lemmas about the socket that `UDPDuplicates` also
  uses. `ConnInv` follows the connection and the closing
  goroutine along the control points; in particular the goroutine has exited only
  if the context is done, because the derived context is cancelled only by the
  return. `ResultInv` says that each result is explained by what was read, by the
  context or by the deadline, and `ExplainedStable` that it stays explained.
  `Refinement` also needs `RetInv`, the exact values that the helpers return.
* `UDPDuplicatesProofs`: `DupTypeCorrect`, `ErrorEndsChannel`, `NoSilentClose`,
  `NoLoss`, `ClosedIsFinal`. `ErrorInv` says that no error is on the channel
  before the loop is left, and that one is there afterwards unless the context is
  done. `FlowInv` counts: what was emitted, with the item in hand, follows the
  datagrams one for one. `ChannelIsClosed` and `ConnIsReleased` are about liveness (see
  below).
* `StreamQueryProofs`: `TypeCorrect`, `ReturnsFirstFrame`, `QueriesFramed`,
  `AbortsJustified`, `ConnectionOwned`, `Refinement`. `FramingRoundTrip` proves
  the framing for every length; `ConnInv`, `ReadInv` and `ResultInv` tie the
  connection, the bytes read and the result to the control point. `FirstFrame` is
  not inductive by itself: the length must be known to be the declared one from the
  moment it is read, and the connection to be closed only by a done context, as long
  as the query runs. A step of the code maps to a step of the contract, or to a
  stutter: the piece that completes the first frame is `Receive`, a return is one
  of the three returns.
* `HTTPSQueryProofs`: `TypeCorrect`, `WholeUnlessLimited`, `BoundedReads`,
  `BodyAlwaysClosed`, `Refinement`, along the same lines; the reply is received
  with its headers.
* `TransportProofs`: the invariants and the refinement of the `transport` run, for
  `Transport.Query`, and its liveness, `QueryReturns` and `QueryReleases` (see below). `Transport` instantiates the proof modules of the three
  functions. `ProtocolStep` shows that the protocol never changes;
  `UDPBehaviour`, `StreamBehaviour` and `HTTPSBehaviour` that a behaviour of `Query`
  with a given protocol is one of the function that the switch selects, so that its
  theorems apply. `QueryKeepsContract` joins the four cases: the inbox of the
  contract depends on the protocol, and a protocol that is not known fails
  without a message.
* `ResolverProofs`: first the functions of `DnsMessage`, for inputs of any length.
  `LoopRuns` is induction over the rounds of a loop, from the least-number
  principle of the library (`WFMin`); `AppendedPicks` says that the result of a loop
  that appends some elements of its input has exactly these, in order. From it follow
  `DedupAndSort` and `ValidAnswersAtEndOfChain` (which needs that the last of the
  aliases in order names the only name on the chain that is not an alias itself).
  `DedupAndSortCorrectAlways` and `AnswersAtEndOfChainAlways` state the properties of
  the `dns_message` run, for any set of records and texts and any bound.
  Then `ResolverInvariant`, and from it `LookupRoundRobin`,
  `LookupLastQuerySettles`, `LookupHostAddresses`, `LookupHostHonestError` and
  `LookupHostLeavesNoGoroutine`. The invariant has, for each lookup, `RoundsOf` (the
  counter of the loop is the number of queries sent, and the copy of the servers is
  a prefix of the list, to which `AddServer` may have added), `SettlesOf` (no answer
  but the last one settles a lookup) and `ResultOf` (the result is an error until the
  lookup is settled, and then what the last answer yields), and `Rendezvous`, which
  ties the control point of `LookupHost` to those of its goroutines. None of the
  properties is inductive alone: `AddressesFromValidAnswers` needs all four.
* `ComponentProofs`: the components without a caller in the other modules.
  * `ResolverConfig`: `TypeCorrect`, `DataRaceFreedom`, `SomeServer`,
    `NoLostServer`, `Linearizability`. The inductive invariant `IInv` adds to the
    types: `LockInv`, which ties the fields of the mutex to the control points;
    `CallInv`, which ties a control point to the method it belongs to; and
    `LoadedInv`, that the list `AddServer` has read is still the list. The last one
    is what mutual exclusion buys, and what makes append an atomic step.
  * `QueryBuilder`: `BuilderTypeCorrect`, `QueriesPadded`, `IDDecided`,
    `QueryAllOrNothing`. `PaddingCompletesBlock` shows that `remainder` is between 0
    and 127 and completes a block for a message of any length: 65536 is a multiple of
    128, so the wrapping does no harm. The invariants speak of the last option of a
    kind that was applied, which an option of another kind leaves alone, and
    `ExtraInv` counts the EDNS(0) options applied: one OPT record for each.
  * `TestServer`: `CloseLeavesNothingOpen`, under the hypothesis `Waits`, and
    `GoodClientsSafe`, without it. `CloserInv` has a conjunct `StartedOnce`: at most one
    call ever gets past the assertion of the `Start` methods, since the caller that
    waits finds `started` set; hence nobody writes `ioclosers` when `Close` reads it.
    `ServeInv` says that only `Close` closes a listener.

### Liveness

`QueryReturns`, `QueryReleases`, `ChannelIsClosed` and `ConnIsReleased` prove the
liveness properties of the `transport` and `udp_duplicates` runs from the fair
specification and from `[]NeverStuck`. `NeverStuck` says in which states which fair
action is possible. It is a state predicate built from `ENABLED`, which the prover
cannot reason about, so that it stays an invariant that the two runs check; the
theorems reduce liveness to it, for every value of the constants.

The argument is a measure that decreases to zero, `Remaining` for a query and
`Distance` for the loop that collects duplicates. A deadline makes the context done
(`DeadlineExpires`). From then on no step increases the measure (`RemainingStep`,
`DistanceStep`), and in every state with a positive measure some fair action decreases
it. That is not the same action everywhere: while a read is blocked, or the loop goes
round, only the goroutine that closes the connection leads nearer to the end. Hence
the order of the ranks: first that goroutine exits (rank 4, or 7), then a read of the
closed connection returns. `RemainingStep` is proved for each transport and joined in
`TransportProofs`; `ConnInv` and `CloserInv` supply that a connection without a waiting
goroutine is closed when it is read. The connection is released because a call that has
returned has cancelled the derived context, on which the goroutine waits.

### Only model-checked

* `NeverStuck` of `UDPDuplicates` and of `Transport`, because of `ENABLED`.
* `EveryCallReturns`, `CancelledReturns`, `TimeoutsReturn`, `QueryIsAnswered` and
  `LoopsEnd`: their measures are unbounded (the number of attempts, of goroutines, of
  clients), and the prover has neither temporal induction nor quantified fairness.

## Not modelled

* `serveraddr.go`: a constructor and the names of the protocols. The protocol is a
  value in `Transport`, `QueryBuilder` and `StreamQuery`.
* `slog.go`, and the calls that log in all other files: output that nothing reads.
* `internal/cmd/`: flag parsing and output around one call of the library.
* The libraries: `net`, `net/http`, `crypto/tls`, `context`, `sync` and `miekg/dns` are
  external and appear as the steps and results the code can observe. What they put
  on the wire is not modelled beyond lengths and framing.
* The encoding of names (`idna`, `dns.Fqdn`) is kept as validity and length only.
