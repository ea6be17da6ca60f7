--------------------------- MODULE ResolverConfig ---------------------------
(***************************************************************************)
(* ResolverConfig of src/resolverconfig.go, shared by concurrent goroutines. *)
(* Each access to the fields and each step of the sync.RWMutex is a step of  *)
(* its own, so that a missing or a wrong lock would show.                    *)
(***************************************************************************)
EXTENDS Integers, Sequences, FiniteSets

CONSTANTS
  Goroutines,
  NoGoroutine,
  Addresses,       \* server addresses: records with a protocol
  OptionLists,     \* sequences of AddServerOption
  AttemptsArgs,    \* the arguments of SetAttempts
  DefaultAddrs,    \* the addresses of the default servers, in order
  MaxServers       \* bound on the length of the list

DefaultAttempts == 2
DefaultQueryTimeout == 5   \* seconds

ASSUME ConfigAssumption ==
  /\ NoGoroutine \notin Goroutines
  /\ AttemptsArgs \subseteq Int
  /\ DefaultAddrs \in Seq(Addresses) /\ DefaultAddrs # <<>>
  /\ \A i \in 1..Len(DefaultAddrs) : DefaultAddrs[i].protocol = "udp"
  /\ <<>> \in OptionLists
  /\ MaxServers \in Nat

VARIABLES
  attempts, list,  \* the fields of the struct
  mu,              \* the sync.RWMutex
  pc,              \* per goroutine: control point
  op,              \* per goroutine: the method it calls, with its argument
  loaded,          \* per goroutine: c.list as AddServer read it
  n,               \* per goroutine: the value Attempts read and returns
  copy             \* per goroutine: the local list of servers

fields == <<attempts, list>>
locals == <<op, loaded, n, copy>>
vars == <<attempts, list, mu, pc, op, loaded, n, copy>>

-----------------------------------------------------------------------------

\* The EDNS(0) option newResolverConfigServer selects for a protocol.
defaultQueryOptions(protocol) ==
  CASE protocol \in {"doh", "dot"} -> <<[size |-> 4096, do |-> TRUE, pad |-> TRUE]>>
    [] protocol = "tcp" -> <<[size |-> 4096, do |-> FALSE, pad |-> FALSE]>>
    [] protocol = "udp" -> <<[size |-> 1232, do |-> FALSE, pad |-> FALSE]>>
    [] OTHER -> <<>>

\* The value the last option of a kind sets, or the default without one.
lastOption(options, kind, default) ==
  LET of == SelectSeq(options, LAMBDA o : o.kind = kind)
  IN  IF of = <<>> THEN default ELSE of[Len(of)].value

\* The options are applied in order, so that the last one of a kind wins.
newResolverConfigServer(address, options) ==
  [address      |-> address,
   queryOptions |-> lastOption(options, "queryOptions",
                               defaultQueryOptions(address.protocol)),
   timeout      |-> lastOption(options, "timeout", DefaultQueryTimeout)]

Servers == {newResolverConfigServer(a, o) : a \in Addresses, o \in OptionLists}

\* The servers servers() makes up when the list is empty.  The query options
\* that it passes are the ones a UDP server has by default.
DefaultServers ==
  [i \in 1..Len(DefaultAddrs) |-> newResolverConfigServer(DefaultAddrs[i], <<>>)]

Ops ==
  [kind : {"SetAttempts"}, arg : AttemptsArgs]
    \cup [kind : {"AddServer"}, arg : Servers]
    \cup {[kind |-> "Attempts"], [kind |-> "servers"]}

NoOp == [kind |-> "none"]

Goto(g, label) == pc' = [pc EXCEPT ![g] = label]

-----------------------------------------------------------------------------
\* The sync.RWMutex: mu.w is the writer that holds or waits for the lock,
\* mu.readers hold the read lock, mu.blocked wait behind the writer.

\* Lock, first half: win against other writers and stop new readers.
Lock_Announce(g) ==
  /\ pc[g] = "lock" /\ mu.w = NoGoroutine
  /\ mu' = [mu EXCEPT !.w = g]
  /\ Goto(g, "drain")
  /\ UNCHANGED <<fields, locals>>

\* Lock, second half: the readers that were active have left.
Lock_Acquire(g) ==
  /\ pc[g] = "drain" /\ mu.readers = {}
  /\ Goto(g, "locked")
  /\ UNCHANGED <<fields, mu, locals>>

\* Unlock lets in the readers that waited behind the writer.
Unlock(g) ==
  /\ pc[g] = "stored"
  /\ mu' = [w |-> NoGoroutine, readers |-> mu.readers \cup mu.blocked, blocked |-> {}]
  /\ pc' = [h \in Goroutines |->
              IF h = g THEN "return" ELSE IF h \in mu.blocked THEN "rlocked" ELSE pc[h]]
  /\ UNCHANGED <<fields, locals>>

RLock(g) ==
  /\ pc[g] = "rlock"
  /\ \/ /\ mu.w = NoGoroutine
        /\ mu' = [mu EXCEPT !.readers = @ \cup {g}]
        /\ Goto(g, "rlocked")
     \/ /\ mu.w # NoGoroutine
        /\ mu' = [mu EXCEPT !.blocked = @ \cup {g}]
        /\ Goto(g, "rblocked")
  /\ UNCHANGED <<fields, locals>>

RUnlock(g) ==
  /\ pc[g] = "read"
  /\ mu' = [mu EXCEPT !.readers = @ \ {g}]
  /\ Goto(g, "runlocked")
  /\ UNCHANGED <<fields, locals>>

-----------------------------------------------------------------------------
\* The methods

\* Mutant: AddServer does not lock.
Call_NoLock(g) ==
  /\ pc[g] = "idle"
  /\ \E o \in Ops :
       /\ op' = [op EXCEPT ![g] = o]
       /\ o.kind = "AddServer" => Len(list) < MaxServers
       /\ Goto(g, CASE o.kind = "AddServer" -> "locked"
                    [] o.kind = "SetAttempts" -> "lock" [] OTHER -> "rlock")
  /\ UNCHANGED <<fields, mu, loaded, n, copy>>

\* Mutant: Attempts does not lock.
Call_NoRLock(g) ==
  /\ pc[g] = "idle"
  /\ \E o \in Ops :
       /\ op' = [op EXCEPT ![g] = o]
       /\ o.kind = "AddServer" => Len(list) < MaxServers
       /\ Goto(g, CASE o.kind \in {"AddServer", "SetAttempts"} -> "lock"
                    [] o.kind = "Attempts" -> "rlocked" [] OTHER -> "rlock")
  /\ UNCHANGED <<fields, mu, loaded, n, copy>>

\* A goroutine calls a method; every method first locks the mutex.
Call(g) ==
  /\ pc[g] = "idle"
  /\ \E o \in Ops :
       /\ op' = [op EXCEPT ![g] = o]
       /\ o.kind = "AddServer" =>
            Len(list) + Cardinality({h \in Goroutines :
               pc[h] # "idle" /\ op[h].kind = "AddServer"}) < MaxServers
       /\ Goto(g, IF o.kind \in {"SetAttempts", "AddServer"} THEN "lock" ELSE "rlock")
  /\ UNCHANGED <<fields, mu, loaded, n, copy>>

SetAttempts_Store(g) ==
  /\ pc[g] = "locked" /\ op[g].kind = "SetAttempts"
  /\ attempts' = op[g].arg
  /\ Goto(g, "stored")
  /\ UNCHANGED <<list, mu, locals>>

\* c.list = append(c.list, ...): the list is read, then written.
AddServer_Load(g) ==
  /\ pc[g] = "locked" /\ op[g].kind = "AddServer"
  /\ loaded' = [loaded EXCEPT ![g] = list]
  /\ Goto(g, "loaded")
  /\ UNCHANGED <<fields, mu, op, n, copy>>

AddServer_Store(g) ==
  /\ pc[g] = "loaded"
  /\ list' = Append(loaded[g], op[g].arg)
  /\ Goto(g, "stored")
  /\ UNCHANGED <<attempts, mu, locals>>

\* Mutant: the deferred RUnlock is missing.
Attempts_Read_NoRUnlock(g) ==
  /\ pc[g] = "rlocked" /\ op[g].kind = "Attempts"
  /\ n' = [n EXCEPT ![g] = attempts]
  /\ Goto(g, "runlocked")
  /\ UNCHANGED <<fields, mu, op, loaded, copy>>

Attempts_Read(g) ==
  /\ pc[g] = "rlocked" /\ op[g].kind = "Attempts"
  /\ n' = [n EXCEPT ![g] = attempts]
  /\ Goto(g, "read")
  /\ UNCHANGED <<fields, mu, op, loaded, copy>>

servers_Copy(g) ==
  /\ pc[g] = "rlocked" /\ op[g].kind = "servers"
  /\ copy' = [copy EXCEPT ![g] = list]
  /\ Goto(g, "read")
  /\ UNCHANGED <<fields, mu, op, loaded, n>>

\* Mutant: no default servers.
servers_Defaults_None(g) ==
  /\ pc[g] = "runlocked"
  /\ Goto(g, "return")
  /\ UNCHANGED <<fields, mu, op, loaded, n, copy>>

\* Mutant: whether to use the defaults is decided by the shared list, without
\* the lock, and not by the copy.
servers_Defaults_Reread(g) ==
  /\ pc[g] = "runlocked"
  /\ copy' = IF op[g].kind = "servers" /\ list = <<>>
             THEN [copy EXCEPT ![g] = DefaultServers] ELSE copy
  /\ Goto(g, "return")
  /\ UNCHANGED <<fields, mu, op, loaded, n>>

\* servers fills in the default servers after it has released the lock.
servers_Defaults(g) ==
  /\ pc[g] = "runlocked"
  /\ copy' = IF op[g].kind = "servers" /\ copy[g] = <<>>
             THEN [copy EXCEPT ![g] = DefaultServers] ELSE copy
  /\ Goto(g, "return")
  /\ UNCHANGED <<fields, mu, op, loaded, n>>

\* The method returns, and its local variables are gone.
Return(g) ==
  /\ pc[g] = "return"
  /\ op' = [op EXCEPT ![g] = NoOp]
  /\ loaded' = [loaded EXCEPT ![g] = <<>>]
  /\ n' = [n EXCEPT ![g] = 0]
  /\ copy' = [copy EXCEPT ![g] = <<>>]
  /\ Goto(g, "idle")
  /\ UNCHANGED <<fields, mu>>

-----------------------------------------------------------------------------

\* NewConfig
Init ==
  /\ attempts = DefaultAttempts
  /\ list = <<>>
  /\ mu = [w |-> NoGoroutine, readers |-> {}, blocked |-> {}]
  /\ pc = [g \in Goroutines |-> "idle"]
  /\ op = [g \in Goroutines |-> NoOp]
  /\ loaded = [g \in Goroutines |-> <<>>]
  /\ n = [g \in Goroutines |-> 0]
  /\ copy = [g \in Goroutines |-> <<>>]

Method(g) ==
  \/ SetAttempts_Store(g) \/ AddServer_Load(g) \/ AddServer_Store(g)
  \/ Attempts_Read(g) \/ servers_Copy(g) \/ servers_Defaults(g)
  \/ Return(g)

Mutex(g) ==
  \/ Lock_Announce(g) \/ Lock_Acquire(g) \/ Unlock(g) \/ RLock(g) \/ RUnlock(g)

Next == \E g \in Goroutines : Call(g) \/ Method(g) \/ Mutex(g)

Spec == Init /\ [][Next]_vars

\* Goroutines are scheduled, and the mutex lets no writer starve.  Nobody is
\* forced to call a method.
FairSpec ==
  /\ Spec
  /\ \A g \in Goroutines :
       /\ WF_vars(Method(g) \/ Mutex(g))
       /\ SF_vars(Lock_Announce(g))

-----------------------------------------------------------------------------
\* Properties

Writing == {"locked", "loaded", "stored"}
Reading == {"rlocked", "read"}
Labels == {"idle", "lock", "drain", "rlock", "rblocked", "runlocked", "return"}
             \cup Writing \cup Reading

\* The configuration and the local variables of its methods keep their types.
TypeOK ==
  /\ attempts \in Int
  /\ list \in Seq(Servers)
  /\ mu \in [w : Goroutines \cup {NoGoroutine},
             readers : SUBSET Goroutines, blocked : SUBSET Goroutines]
  /\ pc \in [Goroutines -> Labels]
  /\ op \in [Goroutines -> Ops \cup {NoOp}]
  /\ loaded \in [Goroutines -> Seq(Servers)]
  /\ n \in [Goroutines -> Int]
  /\ copy \in [Goroutines -> Seq(Servers)]

\* No goroutine is between Lock and Unlock while another one is between Lock and
\* Unlock or between RLock and RUnlock: the accesses of SetAttempts, AddServer,
\* Attempts and servers to the fields of the struct never race.
NoDataRace ==
  \A g, h \in Goroutines :
    (g # h /\ pc[g] \in Writing) => pc[h] \notin Writing \cup Reading

\* AddServer only ever appends to the list of servers: a server that was added
\* is never lost to a concurrent AddServer, and never moved.
OnlyAppends ==
  [][list' = list \/ \E s \in Servers : list' = Append(list, s)]_vars

\* servers never returns an empty list, however it interleaves with AddServer:
\* lookup can always pick a server.
ServersNotEmpty ==
  \A g \in Goroutines :
    (pc[g] = "return" /\ op[g].kind = "servers") => copy[g] # <<>>

\* Every call of a method returns, also while others keep calling methods.
EveryCallReturns ==
  \A g \in Goroutines : (pc[g] # "idle") ~> (pc[g] = "idle")

-----------------------------------------------------------------------------
\* Refinement mapping: a method takes effect at the store of SetAttempts and
\* AddServer, and at the read of Attempts and servers.

Phase(label) ==
  CASE label = "idle" -> "idle"
    [] label \in {"stored", "read", "runlocked", "return"} -> "answered"
    [] OTHER -> "called"

\* What the servers() call of g returns: decided when the list is copied, even
\* though the default servers are filled in later.
Answer(g) ==
  IF pc[g] \in {"read", "runlocked"} /\ op[g].kind = "servers" /\ copy[g] = <<>>
  THEN DefaultServers ELSE copy[g]

Abstract == INSTANCE ConfigSpec WITH
  phase <- [g \in Goroutines |-> Phase(pc[g])],
  gotAttempts <- n,
  gotServers <- [g \in Goroutines |-> Answer(g)]

\* The refinement: what goroutines observe of the configuration is what they
\* would observe of one whose methods are atomic.
Linearizable == Abstract!Spec
=============================================================================
