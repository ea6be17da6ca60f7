-------------------------- MODULE ComponentProofs --------------------------
(***************************************************************************)
(* Theorems about the components that stand for themselves:                  *)
(*   - ResolverConfig, for any number of goroutines, servers and arguments:  *)
(*     no data race, no lost server, and the refinement of ConfigSpec (every *)
(*     method is atomic);                                                   *)
(*   - QueryBuilder: the padding and the ID of a query, and what a failing    *)
(*     option leaves behind, for all names and all lists of options;         *)
(*   - TestServer: what Close leaves open and what may crash, for any number *)
(*     of servers and clients.                                              *)
(***************************************************************************)
EXTENDS ResolverConfig, QueryBuilder, TestServer, FiniteSetTheorems, TLAPS

-----------------------------------------------------------------------------
\* ResolverConfig

\* The mutex agrees with the control points of the goroutines, and a writer
\* that has read the list still sees the list it read.
LockInv ==
  /\ \A g \in Goroutines :
       /\ (mu.w = g) <=> (pc[g] \in {"drain"} \cup Writing)
       /\ (g \in mu.readers) <=> (pc[g] \in Reading)
       /\ (g \in mu.blocked) <=> (pc[g] = "rblocked")
       /\ pc[g] \in Writing => mu.readers = {}
  /\ mu.w = NoGoroutine => mu.blocked = {}

\* The call a goroutine executes fits its control point, and a goroutine that
\* is not in a method has no local variables.
CallInv ==
  \A g \in Goroutines :
    /\ pc[g] \in {"lock", "drain", "locked", "stored"} =>
         op[g].kind \in {"SetAttempts", "AddServer"}
    /\ pc[g] = "loaded" => op[g].kind = "AddServer"
    /\ pc[g] \in {"rlock", "rblocked", "rlocked", "read", "runlocked"} =>
         op[g].kind \in {"Attempts", "servers"}
    /\ pc[g] = "idle" <=> op[g] = NoOp
    /\ pc[g] = "idle" => n[g] = 0
    /\ pc[g] \notin {"read", "runlocked", "return"} => copy[g] = <<>>

LoadedInv == \A g \in Goroutines : pc[g] = "loaded" => loaded[g] = list

\* The inductive invariant behind the theorems of this module.
IInv == TypeOK /\ LockInv /\ CallInv /\ LoadedInv /\ ServersNotEmpty

-----------------------------------------------------------------------------

\* The argument of a call has the type its method needs.
LEMMA OpsType ==
  ASSUME NEW o \in Ops
  PROVE  /\ o.kind \in {"SetAttempts", "AddServer", "Attempts", "servers"}
         /\ o.kind = "SetAttempts" => o.arg \in Int
         /\ o.kind = "AddServer" => o.arg \in Servers
         /\ o # NoOp
<1>0. AttemptsArgs \subseteq Int
  BY ConfigAssumption
<1>1. CASE o \in [kind : {"SetAttempts"}, arg : AttemptsArgs]
  <2>1. o.kind = "SetAttempts" /\ o.arg \in AttemptsArgs
    BY <1>1
  <2>2. o # NoOp
    BY <2>1 DEF NoOp
  <2> QED
    BY <1>0, <2>1, <2>2
<1>2. CASE o \in [kind : {"AddServer"}, arg : Servers]
  BY <1>2 DEF NoOp
<1>3. CASE o \in {[kind |-> "Attempts"], [kind |-> "servers"]}
  BY <1>3 DEF NoOp
<1> QED
  BY <1>1, <1>2, <1>3 DEF Ops

\* The default servers are servers, and there is at least one.
LEMMA DefaultServersType ==
  DefaultServers \in Seq(Servers) /\ DefaultServers # <<>>
<1>1. DefaultServers \in Seq(Servers)
  BY ConfigAssumption DEF DefaultServers, Servers
<1>2. Len(DefaultServers) = Len(DefaultAddrs)
  BY ConfigAssumption DEF DefaultServers
<1>3. Len(DefaultAddrs) # 0
  BY ConfigAssumption
<1> QED
  BY <1>1, <1>2, <1>3

-----------------------------------------------------------------------------

\* A fresh configuration satisfies the invariant.
LEMMA InitInv == Init => IInv
BY ConfigAssumption
DEF Init, IInv, TypeOK, LockInv, CallInv, LoadedInv, ServersNotEmpty,
    DefaultAttempts, Labels, Writing, Reading, NoOp

MutexType == [w : Goroutines \cup {NoGoroutine},
              readers : SUBSET Goroutines, blocked : SUBSET Goroutines]

\* What RLock does to the mutex, field by field.
LEMMA RLockEffect ==
  ASSUME NEW g \in Goroutines, mu \in MutexType, pc \in [Goroutines -> Labels], RLock(g)
  PROVE  /\ mu' \in MutexType
         /\ mu'.w = mu.w
         /\ mu.w = NoGoroutine =>
              /\ mu'.readers = mu.readers \cup {g} /\ mu'.blocked = mu.blocked
              /\ pc' = [pc EXCEPT ![g] = "rlocked"]
         /\ mu.w # NoGoroutine =>
              /\ mu'.readers = mu.readers /\ mu'.blocked = mu.blocked \cup {g}
              /\ pc' = [pc EXCEPT ![g] = "rblocked"]
<1>1. CASE mu.w = NoGoroutine
  <2>1. mu' = [mu EXCEPT !.readers = mu.readers \cup {g}]
    BY <1>1 DEF RLock
  <2> QED
    BY <1>1, <2>1 DEF RLock, Goto, MutexType
<1>2. CASE mu.w # NoGoroutine
  <2>1. mu' = [mu EXCEPT !.blocked = mu.blocked \cup {g}]
    BY <1>2 DEF RLock
  <2> QED
    BY <1>2, <2>1 DEF RLock, Goto, MutexType
<1> QED
  BY <1>1, <1>2

\* Every step preserves the types.
LEMMA TypeStep ==
  ASSUME TypeOK, CallInv, [Next]_vars
  PROVE  TypeOK'
<1> USE DEF TypeOK
<1>1. CASE UNCHANGED vars
  BY <1>1 DEF vars
<1>2. ASSUME NEW g \in Goroutines, Call(g) \/ Method(g) \/ Mutex(g)
      PROVE  TypeOK'
  <2>1. CASE Call(g)
    <3>1. PICK o \in Ops :
            /\ op' = [op EXCEPT ![g] = o]
            /\ Goto(g, IF o.kind \in {"SetAttempts", "AddServer"} THEN "lock" ELSE "rlock")
      BY <2>1 DEF Call
    <3> QED
      BY <2>1, <3>1 DEF Call, Goto, Labels, fields
  <2>2. CASE SetAttempts_Store(g)
    <3>1. op[g] \in Ops
      BY <2>2 DEF SetAttempts_Store, NoOp
    <3>2. op[g].arg \in Int
      BY <2>2, <3>1, OpsType DEF SetAttempts_Store
    <3> QED
      BY <2>2, <3>2 DEF SetAttempts_Store, Goto, locals, Labels, Writing
  <2>3. CASE AddServer_Load(g)
    BY <2>3 DEF AddServer_Load, Goto, fields, Labels, Writing
  <2>4. CASE AddServer_Store(g)
    <3>1. op[g] \in Ops /\ op[g].kind = "AddServer"
      BY <2>4 DEF AddServer_Store, CallInv, NoOp
    <3>2. op[g].arg \in Servers
      BY <3>1, OpsType
    <3> QED
      BY <2>4, <3>2 DEF AddServer_Store, Goto, locals, Labels, Writing
  <2>5. CASE Attempts_Read(g)
    BY <2>5 DEF Attempts_Read, Goto, fields, Labels, Reading
  <2>6. CASE servers_Copy(g)
    BY <2>6 DEF servers_Copy, Goto, fields, Labels, Reading
  <2>7. CASE servers_Defaults(g)
    BY <2>7, DefaultServersType DEF servers_Defaults, Goto, fields, Labels
  <2>8. CASE Return(g)
    BY <2>8 DEF Return, Goto, fields, Labels
  <2>9. CASE Lock_Announce(g)
    BY <2>9 DEF Lock_Announce, Goto, fields, locals, Labels
  <2>10. CASE Lock_Acquire(g)
    BY <2>10 DEF Lock_Acquire, Goto, fields, locals, Labels, Writing
  <2>11. CASE Unlock(g)
    <3>1. pc' \in [Goroutines -> Labels]
      BY <2>11 DEF Unlock, Labels, Reading
    <3>2. /\ mu'.w = NoGoroutine
          /\ mu'.readers \in SUBSET Goroutines
          /\ mu'.blocked \in SUBSET Goroutines
          /\ mu' = [w |-> mu'.w, readers |-> mu'.readers, blocked |-> mu'.blocked]
      BY <2>11 DEF Unlock
    <3> QED
      BY <2>11, <3>1, <3>2 DEF Unlock, fields, locals
  <2>12. CASE RLock(g)
    <3>1. pc' \in [Goroutines -> Labels]
      BY <2>12 DEF RLock, Goto, Labels, Reading
    <3>2. mu' \in MutexType
      BY <2>12, RLockEffect DEF MutexType
    <3> QED
      BY <2>12, <3>1, <3>2 DEF RLock, fields, locals, MutexType
  <2>13. CASE RUnlock(g)
    BY <2>13 DEF RUnlock, Goto, fields, locals, Labels
  <2> QED
    BY <1>2, <2>1, <2>2, <2>3, <2>4, <2>5, <2>6, <2>7, <2>8, <2>9, <2>10,
       <2>11, <2>12, <2>13 DEF Method, Mutex
<1> QED
  BY <1>1, <1>2 DEF Next

\* Every step keeps the mutex in agreement with the control points.
LEMMA LockStep ==
  ASSUME TypeOK, CallInv, LockInv, [Next]_vars
  PROVE  LockInv'
<1> USE DEF LockInv, Writing, Reading
<1>1. CASE UNCHANGED vars
  BY <1>1 DEF vars
<1>2. ASSUME NEW g \in Goroutines, Call(g) \/ Method(g) \/ Mutex(g)
      PROVE  LockInv'
  <2>0. pc \in [Goroutines -> Labels]
    BY DEF TypeOK
  <2>1. CASE Call(g)
    <3>1. PICK l \in {"lock", "rlock"} : pc' = [pc EXCEPT ![g] = l]
      BY <2>1 DEF Call, Goto
    <3> QED
      BY <2>0, <2>1, <3>1 DEF Call
  <2>2. CASE SetAttempts_Store(g)
    BY <2>0, <2>2 DEF SetAttempts_Store, Goto
  <2>3. CASE AddServer_Load(g)
    BY <2>0, <2>3 DEF AddServer_Load, Goto
  <2>4. CASE AddServer_Store(g)
    BY <2>0, <2>4 DEF AddServer_Store, Goto
  <2>5. CASE Attempts_Read(g)
    BY <2>0, <2>5 DEF Attempts_Read, Goto
  <2>6. CASE servers_Copy(g)
    BY <2>0, <2>6 DEF servers_Copy, Goto
  <2>7. CASE servers_Defaults(g)
    BY <2>0, <2>7 DEF servers_Defaults, Goto
  <2>8. CASE Return(g)
    BY <2>0, <2>8 DEF Return, Goto
  <2>9. CASE Lock_Announce(g)
    BY <2>0, <2>9, ConfigAssumption DEF Lock_Announce, Goto, TypeOK
  <2>10. CASE Lock_Acquire(g)
    BY <2>0, <2>10 DEF Lock_Acquire, Goto
  <2>11. CASE Unlock(g)
    BY <2>0, <2>11, ConfigAssumption DEF Unlock, TypeOK
  <2>12. CASE RLock(g)
    <3>0. mu \in MutexType /\ pc[g] = "rlock" /\ NoGoroutine \notin Goroutines
      BY <2>12, ConfigAssumption DEF TypeOK, MutexType, RLock
    <3>1. CASE mu.w = NoGoroutine
      <4>1. /\ mu'.w = mu.w /\ mu'.blocked = mu.blocked
            /\ mu'.readers = mu.readers \cup {g}
            /\ pc' = [pc EXCEPT ![g] = "rlocked"]
        BY <2>0, <2>12, <3>0, <3>1, RLockEffect
      <4> QED
        BY <2>0, <3>0, <3>1, <4>1
    <3>2. CASE mu.w # NoGoroutine
      <4>1. /\ mu'.w = mu.w /\ mu'.readers = mu.readers
            /\ mu'.blocked = mu.blocked \cup {g}
            /\ pc' = [pc EXCEPT ![g] = "rblocked"]
        BY <2>0, <2>12, <3>0, <3>2, RLockEffect
      <4> QED
        BY <2>0, <3>0, <3>2, <4>1
    <3> QED
      BY <3>1, <3>2
  <2>13. CASE RUnlock(g)
    BY <2>0, <2>13 DEF RUnlock, Goto, TypeOK
  <2> QED
    BY <1>2, <2>1, <2>2, <2>3, <2>4, <2>5, <2>6, <2>7, <2>8, <2>9, <2>10,
       <2>11, <2>12, <2>13 DEF Method, Mutex
<1> QED
  BY <1>1, <1>2 DEF Next

\* Every step keeps the calls in agreement with the control points.
LEMMA CallStep ==
  ASSUME TypeOK, CallInv, LockInv, [Next]_vars
  PROVE  CallInv'
<1> USE DEF CallInv
<1>1. CASE UNCHANGED vars
  BY <1>1 DEF vars
<1>2. ASSUME NEW g \in Goroutines, Call(g) \/ Method(g) \/ Mutex(g)
      PROVE  CallInv'
  <2>0. /\ pc \in [Goroutines -> Labels] /\ op \in [Goroutines -> Ops \cup {NoOp}]
        /\ n \in [Goroutines -> Int] /\ copy \in [Goroutines -> Seq(Servers)]
    BY DEF TypeOK
  <2>1. CASE Call(g)
    <3>1. PICK o \in Ops :
            /\ op' = [op EXCEPT ![g] = o]
            /\ Goto(g, IF o.kind \in {"SetAttempts", "AddServer"} THEN "lock" ELSE "rlock")
      BY <2>1 DEF Call
    <3>2. /\ o.kind \in {"SetAttempts", "AddServer", "Attempts", "servers"}
          /\ o # NoOp
      BY OpsType
    <3> QED
      BY <2>0, <2>1, <3>1, <3>2 DEF Call, Goto
  <2>2. CASE SetAttempts_Store(g)
    BY <2>0, <2>2 DEF SetAttempts_Store, Goto, locals
  <2>3. CASE AddServer_Load(g)
    BY <2>0, <2>3 DEF AddServer_Load, Goto
  <2>4. CASE AddServer_Store(g)
    BY <2>0, <2>4 DEF AddServer_Store, Goto, locals
  <2>5. CASE Attempts_Read(g)
    BY <2>0, <2>5 DEF Attempts_Read, Goto
  <2>6. CASE servers_Copy(g)
    BY <2>0, <2>6 DEF servers_Copy, Goto
  <2>7. CASE servers_Defaults(g)
    BY <2>0, <2>7 DEF servers_Defaults, Goto
  <2>8. CASE Return(g)
    BY <2>0, <2>8 DEF Return, Goto, NoOp
  <2>9. CASE Lock_Announce(g)
    BY <2>0, <2>9 DEF Lock_Announce, Goto, locals
  <2>10. CASE Lock_Acquire(g)
    BY <2>0, <2>10 DEF Lock_Acquire, Goto, locals
  <2>11. CASE Unlock(g)
    BY <2>0, <2>11 DEF Unlock, locals, LockInv
  <2>12. CASE RLock(g)
    BY <2>0, <2>12 DEF RLock, Goto, locals
  <2>13. CASE RUnlock(g)
    BY <2>0, <2>13 DEF RUnlock, Goto, locals
  <2> QED
    BY <1>2, <2>1, <2>2, <2>3, <2>4, <2>5, <2>6, <2>7, <2>8, <2>9, <2>10,
       <2>11, <2>12, <2>13 DEF Method, Mutex
<1> QED
  BY <1>1, <1>2 DEF Next

\* Every step keeps what AddServer has read of the list up to date: only the
\* writer that holds the lock changes the list, and there is only one.
LEMMA LoadedStep ==
  ASSUME TypeOK, LockInv, LoadedInv, [Next]_vars
  PROVE  LoadedInv'
<1> USE DEF LoadedInv
<1>1. CASE UNCHANGED vars
  BY <1>1 DEF vars
<1>2. ASSUME NEW g \in Goroutines, Call(g) \/ Method(g) \/ Mutex(g)
      PROVE  LoadedInv'
  <2>0. pc \in [Goroutines -> Labels] /\ loaded \in [Goroutines -> Seq(Servers)]
    BY DEF TypeOK
  <2>1. CASE AddServer_Store(g)
    <3>1. \A h \in Goroutines : pc[h] = "loaded" => h = g
      BY <2>1 DEF AddServer_Store, LockInv, Writing
    <3> QED
      BY <2>0, <2>1, <3>1 DEF AddServer_Store, Goto
  <2>2. CASE AddServer_Load(g)
    BY <2>0, <2>2 DEF AddServer_Load, Goto, fields
  <2>3. CASE Call(g) \/ SetAttempts_Store(g) \/ Attempts_Read(g) \/ servers_Copy(g)
               \/ servers_Defaults(g) \/ Return(g)
    BY <2>0, <2>3 DEF Call, SetAttempts_Store, Attempts_Read, servers_Copy,
       servers_Defaults, Return, Goto, fields, locals
  <2>4. CASE Mutex(g)
    BY <2>0, <2>4 DEF Mutex, Lock_Announce, Lock_Acquire, Unlock, RLock, RUnlock,
       Goto, fields, locals
  <2> QED
    BY <1>2, <2>1, <2>2, <2>3, <2>4 DEF Method
<1> QED
  BY <1>1, <1>2 DEF Next

\* A servers() call that returns has at least one server: it leaves the copy
\* alone when it is not empty, and fills in the defaults when it is.
LEMMA ServersStep ==
  ASSUME TypeOK, CallInv, ServersNotEmpty, [Next]_vars
  PROVE  ServersNotEmpty'
<1> USE DEF ServersNotEmpty
<1>1. CASE UNCHANGED vars
  BY <1>1 DEF vars
<1>2. ASSUME NEW g \in Goroutines, Call(g) \/ Method(g) \/ Mutex(g)
      PROVE  ServersNotEmpty'
  <2>0. /\ pc \in [Goroutines -> Labels] /\ op \in [Goroutines -> Ops \cup {NoOp}]
        /\ copy \in [Goroutines -> Seq(Servers)]
    BY DEF TypeOK
  <2>1. CASE servers_Defaults(g)
    BY <2>0, <2>1, DefaultServersType DEF servers_Defaults, Goto
  <2>2. CASE Unlock(g)
    BY <2>0, <2>2 DEF Unlock, locals, CallInv
  <2>3. CASE Call(g) \/ SetAttempts_Store(g) \/ AddServer_Load(g) \/ AddServer_Store(g)
               \/ Attempts_Read(g) \/ servers_Copy(g) \/ Return(g)
    BY <2>0, <2>3 DEF Call, SetAttempts_Store, AddServer_Load, AddServer_Store,
       Attempts_Read, servers_Copy, Return, Goto, locals
  <2>4. CASE Lock_Announce(g) \/ Lock_Acquire(g) \/ RLock(g) \/ RUnlock(g)
    BY <2>0, <2>4 DEF Lock_Announce, Lock_Acquire, RLock, RUnlock, Goto, locals
  <2> QED
    BY <1>2, <2>1, <2>2, <2>3, <2>4 DEF Method, Mutex
<1> QED
  BY <1>1, <1>2 DEF Next

-----------------------------------------------------------------------------

\* The invariant holds in every reachable state of a ResolverConfig.
THEOREM Invariance == Spec => []IInv
<1>1. IInv /\ [Next]_vars => IInv'
  BY TypeStep, LockStep, CallStep, LoadedStep, ServersStep DEF IInv
<1> QED
  BY InitInv, <1>1, PTL DEF Spec

\* The fields and the locals of ResolverConfig keep their types.
THEOREM TypeCorrect == Spec => []TypeOK
<1>1. IInv => TypeOK
  BY DEF IInv
<1> QED
  BY Invariance, <1>1, PTL

\* The methods of ResolverConfig never race on its fields.
THEOREM DataRaceFreedom == Spec => []NoDataRace
<1>1. IInv => NoDataRace
  BY DEF IInv, LockInv, NoDataRace, Writing, Reading
<1> QED
  BY Invariance, <1>1, PTL

\* servers() never returns an empty list.
THEOREM SomeServer == Spec => []ServersNotEmpty
<1>1. IInv => ServersNotEmpty
  BY DEF IInv
<1> QED
  BY Invariance, <1>1, PTL

\* No AddServer overwrites what a concurrent AddServer stored.
THEOREM NoLostServer == Spec => OnlyAppends
<1>1. ASSUME IInv, [Next]_vars
      PROVE  list' = list \/ \E s \in Servers : list' = Append(list, s)
  <2>1. CASE UNCHANGED vars
    BY <2>1 DEF vars
  <2>2. ASSUME NEW g \in Goroutines, Call(g) \/ Method(g) \/ Mutex(g)
        PROVE  list' = list \/ \E s \in Servers : list' = Append(list, s)
    <3>1. CASE AddServer_Store(g)
      <4>1. op[g] \in Ops /\ op[g].kind = "AddServer"
        BY <1>1, <3>1 DEF IInv, TypeOK, CallInv, AddServer_Store, NoOp
      <4>2. op[g].arg \in Servers
        BY <4>1, OpsType
      <4>3. loaded[g] = list
        BY <1>1, <3>1 DEF IInv, LoadedInv, AddServer_Store
      <4> QED
        BY <3>1, <4>2, <4>3 DEF AddServer_Store
    <3>2. CASE ~AddServer_Store(g)
      BY <2>2, <3>2 DEF Call, Method, Mutex, SetAttempts_Store, AddServer_Load,
         Attempts_Read, servers_Copy, servers_Defaults, Return, Lock_Announce,
         Lock_Acquire, Unlock, RLock, RUnlock, fields
    <3> QED
      BY <3>1, <3>2
  <2> QED
    BY <1>1, <2>1, <2>2 DEF Next
<1> QED
  BY Invariance, <1>1, PTL DEF Spec, OnlyAppends

-----------------------------------------------------------------------------
\* The refinement

phaseBar == [g \in Goroutines |-> Phase(pc[g])]
answerBar == [g \in Goroutines |-> Answer(g)]

\* A step that moves one goroutine to a label of the same phase, and changes
\* neither the fields nor an answer, is invisible.
LEMMA Invisible ==
  ASSUME NEW g \in Goroutines, pc \in [Goroutines -> Labels],
         NEW l \in Labels, pc' = [pc EXCEPT ![g] = l],
         Phase(l) = Phase(pc[g]), Answer(g)' = Answer(g),
         \A h \in Goroutines \ {g} : copy'[h] = copy[h],
         op' = op, n' = n, attempts' = attempts, list' = list
  PROVE  UNCHANGED Abstract!vars
<1>1. phaseBar' = phaseBar
  BY DEF phaseBar
<1>2. ASSUME NEW h \in Goroutines, h # g
      PROVE  Answer(h)' = Answer(h)
  BY <1>2 DEF Answer, DefaultServers
<1>3. answerBar' = answerBar
  BY <1>2 DEF answerBar
<1> QED
  BY <1>1, <1>3 DEF Abstract!vars, phaseBar, answerBar

\* Every step of a method or of the mutex is a step of ConfigSpec or invisible.
LEMMA RefinementStep ==
  ASSUME IInv, IInv', [Next]_vars
  PROVE  [Abstract!Next]_(Abstract!vars)
<1>0. /\ pc \in [Goroutines -> Labels] /\ op \in [Goroutines -> Ops \cup {NoOp}]
      /\ n \in [Goroutines -> Int] /\ copy \in [Goroutines -> Seq(Servers)]
  BY DEF IInv, TypeOK
<1>1. CASE UNCHANGED vars
  <2>1. phaseBar' = phaseBar /\ answerBar' = answerBar
    BY <1>1 DEF vars, phaseBar, answerBar, Answer, DefaultServers
  <2> QED
    BY <1>1, <2>1 DEF vars, Abstract!vars, phaseBar, answerBar
<1>2. ASSUME NEW g \in Goroutines, Call(g) \/ Method(g) \/ Mutex(g)
      PROVE  [Abstract!Next]_(Abstract!vars)
  <2>1. CASE Call(g)
    <3>1. PICK o \in Ops : op' = [op EXCEPT ![g] = o]
      BY <2>1 DEF Call
    <3>2. PICK l \in {"lock", "rlock"} : pc' = [pc EXCEPT ![g] = l]
      BY <2>1 DEF Call, Goto
    <3>3. pc[g] = "idle" /\ copy' = copy /\ n' = n /\ UNCHANGED fields
      BY <2>1 DEF Call
    <3>4. phaseBar[g] = "idle" /\ phaseBar' = [phaseBar EXCEPT ![g] = "called"]
      BY <1>0, <3>2, <3>3 DEF phaseBar, Phase
    <3>5. answerBar' = answerBar
      BY <1>0, <3>1, <3>2, <3>3 DEF answerBar, Answer, DefaultServers
    <3>6. Abstract!Call(g)
      BY <3>1, <3>3, <3>4, <3>5 DEF Abstract!Call, phaseBar, answerBar, fields
    <3> QED
      BY <3>6 DEF Abstract!Next
  <2>2. CASE SetAttempts_Store(g)
    <3>1. phaseBar[g] = "called" /\ phaseBar' = [phaseBar EXCEPT ![g] = "answered"]
      BY <1>0, <2>2 DEF SetAttempts_Store, Goto, phaseBar, Phase
    <3>2. answerBar' = answerBar
      BY <1>0, <2>2 DEF SetAttempts_Store, Goto, answerBar, Answer, locals,
         DefaultServers
    <3>3. Abstract!TakeEffect(g)
      BY <2>2, <3>1, <3>2
      DEF SetAttempts_Store, Abstract!TakeEffect, phaseBar, answerBar, locals
    <3> QED
      BY <3>3 DEF Abstract!Next
  <2>3. CASE AddServer_Load(g)
    BY <1>0, <2>3, Invisible
    DEF AddServer_Load, Goto, fields, Answer, Phase, Labels, Writing, DefaultServers
  <2>4. CASE AddServer_Store(g)
    <3>1. phaseBar[g] = "called" /\ phaseBar' = [phaseBar EXCEPT ![g] = "answered"]
      BY <1>0, <2>4 DEF AddServer_Store, Goto, phaseBar, Phase
    <3>2. answerBar' = answerBar
      BY <1>0, <2>4 DEF AddServer_Store, Goto, answerBar, Answer, locals,
         DefaultServers
    <3>3. op[g].kind = "AddServer" /\ loaded[g] = list
      BY <2>4 DEF AddServer_Store, IInv, CallInv, LoadedInv
    <3>4. Abstract!TakeEffect(g)
      BY <2>4, <3>1, <3>2, <3>3
      DEF AddServer_Store, Abstract!TakeEffect, phaseBar, answerBar, locals
    <3> QED
      BY <3>4 DEF Abstract!Next
  <2>5. CASE Attempts_Read(g)
    <3>1. phaseBar[g] = "called" /\ phaseBar' = [phaseBar EXCEPT ![g] = "answered"]
      BY <1>0, <2>5 DEF Attempts_Read, Goto, phaseBar, Phase
    <3>2. answerBar' = answerBar
      BY <1>0, <2>5 DEF Attempts_Read, Goto, answerBar, Answer, DefaultServers
    <3>3. Abstract!TakeEffect(g)
      BY <2>5, <3>1, <3>2
      DEF Attempts_Read, Abstract!TakeEffect, phaseBar, answerBar, fields
    <3> QED
      BY <3>3 DEF Abstract!Next
  <2>6. CASE servers_Copy(g)
    <3>1. phaseBar[g] = "called" /\ phaseBar' = [phaseBar EXCEPT ![g] = "answered"]
      BY <1>0, <2>6 DEF servers_Copy, Goto, phaseBar, Phase
    <3>2. answerBar' = [answerBar EXCEPT ![g] =
                          IF list = <<>> THEN DefaultServers ELSE list]
      BY <1>0, <2>6 DEF servers_Copy, Goto, answerBar, Answer, DefaultServers
    <3>3. Abstract!TakeEffect(g)
      BY <2>6, <3>1, <3>2
      DEF servers_Copy, Abstract!TakeEffect, phaseBar, answerBar, fields
    <3> QED
      BY <3>3 DEF Abstract!Next
  <2>7. CASE servers_Defaults(g)
    BY <1>0, <2>7, Invisible
    DEF servers_Defaults, Goto, fields, Answer, Phase, Labels, DefaultServers
  <2>8. CASE Return(g)
    <3>1. phaseBar[g] = "answered" /\ phaseBar' = [phaseBar EXCEPT ![g] = "idle"]
      BY <1>0, <2>8 DEF Return, Goto, phaseBar, Phase
    <3>2. answerBar' = [answerBar EXCEPT ![g] = <<>>]
      BY <1>0, <2>8 DEF Return, Goto, answerBar, Answer, DefaultServers
    <3>3. Abstract!Return(g)
      BY <2>8, <3>1, <3>2 DEF Return, Abstract!Return, phaseBar, answerBar, fields
    <3> QED
      BY <3>3 DEF Abstract!Next
  <2>9. CASE Lock_Announce(g)
    BY <1>0, <2>9, Invisible
    DEF Lock_Announce, Goto, fields, locals, Answer, Phase, Labels, DefaultServers
  <2>10. CASE Lock_Acquire(g)
    BY <1>0, <2>10, Invisible
    DEF Lock_Acquire, Goto, fields, locals, Answer, Phase, Labels, Writing,
        DefaultServers
  <2>11. CASE Unlock(g)
    <3>1. \A h \in mu.blocked : pc[h] = "rblocked"
      BY DEF IInv, LockInv, TypeOK
    <3>2. phaseBar' = phaseBar
      BY <1>0, <2>11, <3>1 DEF Unlock, phaseBar, Phase
    <3>3. \A h \in Goroutines : pc[h] \notin {"read", "runlocked"} =>
                                   pc'[h] \notin {"read", "runlocked"}
      BY <1>0, <2>11 DEF Unlock
    <3>4. \A h \in Goroutines : pc[h] \in {"read", "runlocked"} => pc'[h] = pc[h]
      BY <1>0, <2>11, <3>1 DEF Unlock
    <3>5. answerBar' = answerBar
      BY <1>0, <2>11, <3>3, <3>4 DEF Unlock, answerBar, Answer, locals,
         DefaultServers
    <3> QED
      BY <2>11, <3>2, <3>5 DEF Unlock, Abstract!vars, phaseBar, answerBar, fields,
         locals
  <2>12. CASE RLock(g)
    BY <1>0, <2>12, Invisible
    DEF RLock, Goto, fields, locals, Answer, Phase, Labels, Reading, DefaultServers
  <2>13. CASE RUnlock(g)
    BY <1>0, <2>13, Invisible
    DEF RUnlock, Goto, fields, locals, Answer, Phase, Labels, Reading,
        DefaultServers
  <2> QED
    BY <1>2, <2>1, <2>2, <2>3, <2>4, <2>5, <2>6, <2>7, <2>8, <2>9, <2>10,
       <2>11, <2>12, <2>13 DEF Method, Mutex
<1> QED
  BY <1>1, <1>2 DEF Next

\* ResolverConfig implements ConfigSpec: for any number of goroutines, its
\* methods are atomic.
THEOREM Linearizability == Spec => Linearizable
<1>1. Init => Abstract!Init
  BY DEF Init, Abstract!Init, Phase, Answer
<1>2. IInv /\ IInv' /\ [Next]_vars => [Abstract!Next]_(Abstract!vars)
  BY RefinementStep
<1> QED
  BY <1>1, <1>2, Invariance, PTL DEF Spec, Linearizable, Abstract!Spec

-----------------------------------------------------------------------------
\* QueryBuilder

\* The padding of QueryOptionEDNS0 never has a negative length and completes a
\* block, for a message of any length: the wrapping of uint16 does no harm because
\* 2^16 is a multiple of 128.
LEMMA PaddingCompletesBlock ==
  ASSUME NEW size \in Nat
  PROVE  remainder(size) \in 0..127 /\ (size + 4 + remainder(size)) % 128 = 0
<1>1. PICK m \in Nat : m = size + 4
  OBVIOUS
<1>2. 2^16 = 65536
  OBVIOUS
<1>3. /\ ((128 - (m % 65536)) % 65536) % 128 \in 0..127
      /\ (m + (((128 - (m % 65536)) % 65536) % 128)) % 128 = 0
  OBVIOUS
<1>4. remainder(size) = ((128 - (m % 65536)) % 65536) % 128
  BY <1>1, <1>2 DEF remainder
<1> QED
  BY <1>1, <1>3, <1>4

-----------------------------------------------------------------------------

\* How far the call has come.
StageInv ==
  /\ stage \in {"encode", "message"} => applied = 0
  /\ stage # "done" => err = "nil"
  /\ err = "nil" /\ applied > 0 => stage \in {"options", "done"}

\* The ID after the options applied so far.
IDInv ==
  err = "nil" /\ stage \in {"options", "done"} =>
    IF Applied("id") # {} THEN LastHas("id", LAMBDA o : o.id = query.id)
    ELSE proto = "doh" => query.id = 0

\* The inductive invariant.
BuilderInv == BuilderTypeOK /\ StageInv /\ LastBlockFilled /\ IDInv

-----------------------------------------------------------------------------
\* The options

\* The fields of an option.
LEMMA OptionFields ==
  ASSUME NEW o \in Options
  PROVE  /\ o.kind = "edns0" => o.size \in Uint16 /\ o.DO \in BOOLEAN /\ o.padding \in BOOLEAN
         /\ o.kind = "id" => o.id \in Uint16
<1>1. CASE o \in [kind : {"edns0"}, size : Uint16, DO : BOOLEAN, padding : BOOLEAN]
  BY <1>1
<1>2. CASE o \in [kind : {"id"}, id : Uint16]
  BY <1>2
<1>3. CASE o = [kind |-> "fails"]
  BY <1>3
<1> QED
  BY <1>1, <1>2, <1>3 DEF Options

\* The next option of the loop.
LEMMA NextOption ==
  ASSUME BuilderTypeOK, applied < Len(options)
  PROVE  options[applied + 1] \in Options /\ applied \in Nat /\ applied + 1 \in 0..Len(options)
<1>1. options \in Seq(Options)
  BY BuilderAssumption DEF BuilderTypeOK
<1> QED
  BY <1>1 DEF BuilderTypeOK

\* Applying an option of another kind does not change the last one of a kind.
LEMMA OtherKind ==
  ASSUME applied \in Nat, applied' = applied + 1, options' = options,
         NEW k, options[applied + 1].kind # k
  PROVE  Applied(k)' = Applied(k)
BY DEF Applied

\* Applying an option makes it the last one of its kind.
LEMMA LastOption ==
  ASSUME applied \in Nat, applied' = applied + 1, options' = options,
         NEW k, options[applied + 1].kind = k
  PROVE  /\ applied + 1 \in Applied(k)'
         /\ \A j \in Applied(k)' : j \in Nat /\ j <= applied + 1
BY DEF Applied

\* SetEdns0 and the padding keep the message well formed.
LEMMA EDNS0Type ==
  ASSUME BuilderTypeOK, NEW o \in Options, o.kind = "edns0", EDNS0(o)
  PROVE  /\ query' \in [id : Uint16, len : Nat, extra : Seq(OPTs)]
         /\ query'.id = query.id
         /\ o.padding => query'.len % 128 = 0
<1> DEFINE size == query.len + 11
           pad == remainder(size)
           OPT == [type |-> "OPT", size |-> o.size, DO |-> o.DO,
                   padding |-> IF o.padding THEN <<pad>> ELSE <<>>]
<1>1. query.len \in Nat /\ query.id \in Uint16 /\ query.extra \in Seq(OPTs)
  BY DEF BuilderTypeOK
<1>2. size \in Nat /\ pad \in 0..127 /\ (size + 4 + pad) % 128 = 0
  <2>1. size \in Nat
    BY <1>1
  <2> HIDE DEF size
  <2> QED
    BY <2>1, PaddingCompletesBlock
<1>3. o.size \in Uint16 /\ o.DO \in BOOLEAN
  BY OptionFields
<1>4. OPT \in OPTs
  BY <1>2, <1>3 DEF OPTs
<1>5. query' = [query EXCEPT !.extra = Append(query.extra, OPT),
                             !.len = IF o.padding THEN size + 4 + pad ELSE size]
  BY DEF EDNS0
<1>6. Append(query.extra, OPT) \in Seq(OPTs)
  BY <1>1, <1>4
<1>7. (IF o.padding THEN size + 4 + pad ELSE size) \in Nat
  BY <1>2
<1> HIDE DEF size, pad, OPT
<1>8. query'.id = query.id /\ (o.padding => query'.len = size + 4 + pad)
  BY <1>5 DEF BuilderTypeOK
<1>9. query' \in [id : Uint16, len : Nat, extra : Seq(OPTs)]
  BY <1>5, <1>6, <1>7 DEF BuilderTypeOK
<1> QED
  BY <1>2, <1>8, <1>9

-----------------------------------------------------------------------------
\* The steps

\* QueryOptionEDNS0 preserves the invariant.
LEMMA EDNS0Step ==
  ASSUME BuilderInv, NewQuery_Option, options[applied + 1].kind = "edns0", EDNS0(options[applied + 1])
  PROVE  BuilderInv'
<1> DEFINE o == options[applied + 1]
<1>1. /\ stage = "options" /\ applied < Len(options) /\ applied' = applied + 1
      /\ UNCHANGED <<args, stage, err>> /\ options' = options /\ proto' = proto
  BY DEF NewQuery_Option, args
<1>2. o \in Options /\ applied \in Nat /\ applied + 1 \in 0..Len(options)
  BY <1>1, NextOption DEF BuilderInv
<1>3. /\ query' \in [id : Uint16, len : Nat, extra : Seq(OPTs)]
      /\ query'.id = query.id
      /\ o.padding => query'.len % 128 = 0
  BY <1>2, EDNS0Type DEF BuilderInv
<1>4. BuilderTypeOK'
  BY <1>1, <1>2, <1>3 DEF BuilderInv, BuilderTypeOK, args
<1>5. StageInv'
  BY <1>1 DEF BuilderInv, StageInv
<1>6. LastBlockFilled'
  <2>1. LastPads' => o.padding
    <3>1. /\ applied + 1 \in Applied("edns0")'
          /\ \A j \in Applied("edns0")' : j \in Nat /\ j <= applied + 1
      BY <1>1, <1>2, LastOption
    <3> QED
      BY <1>1, <1>2, <3>1 DEF LastPads, LastHas
  <2> QED
    BY <1>3, <2>1 DEF LastBlockFilled
<1>7. IDInv'
  <2>1. Applied("id")' = Applied("id")
    BY <1>1, <1>2, OtherKind
  <2> QED
    BY <1>1, <1>3, <2>1 DEF BuilderInv, IDInv, LastHas
<1> QED
  BY <1>4, <1>5, <1>6, <1>7 DEF BuilderInv

\* QueryOptionID preserves the invariant.
LEMMA IDStep ==
  ASSUME BuilderInv, NewQuery_Option, options[applied + 1].kind = "id", ID(options[applied + 1])
  PROVE  BuilderInv'
<1> DEFINE o == options[applied + 1]
<1>1. /\ stage = "options" /\ applied < Len(options) /\ applied' = applied + 1
      /\ UNCHANGED <<args, stage, err>> /\ options' = options /\ proto' = proto
  BY DEF NewQuery_Option, args
<1>2. o \in Options /\ applied \in Nat /\ applied + 1 \in 0..Len(options)
  BY <1>1, NextOption DEF BuilderInv
<1>3. o.id \in Uint16
  BY <1>2, OptionFields
<1>4. /\ query' \in [id : Uint16, len : Nat, extra : Seq(OPTs)]
      /\ query'.id = o.id /\ query'.len = query.len
  BY <1>3 DEF BuilderInv, BuilderTypeOK, ID
<1>5. BuilderTypeOK'
  BY <1>1, <1>2, <1>4 DEF BuilderInv, BuilderTypeOK, args
<1>6. StageInv'
  BY <1>1 DEF BuilderInv, StageInv
<1>7. LastBlockFilled'
  <2>1. Applied("edns0")' = Applied("edns0")
    BY <1>1, <1>2, OtherKind
  <2> QED
    BY <1>1, <1>4, <2>1 DEF BuilderInv, LastBlockFilled, LastPads, LastHas
<1>8. IDInv'
  <2>1. /\ applied + 1 \in Applied("id")'
        /\ \A j \in Applied("id")' : j \in Nat /\ j <= applied + 1
    BY <1>1, <1>2, LastOption
  <2> QED
    BY <1>1, <1>4, <2>1 DEF IDInv, LastHas
<1> QED
  BY <1>5, <1>6, <1>7, <1>8 DEF BuilderInv

\* The new message has no options applied.
LEMMA MessageStep == BuilderInv /\ NewQuery_Message => BuilderInv'
<1> SUFFICES ASSUME BuilderInv, NewQuery_Message PROVE BuilderInv'
  OBVIOUS
<1>1. /\ stage = "message" /\ stage' = "options" /\ applied = 0 /\ applied' = 0
      /\ UNCHANGED <<args, err>> /\ options' = options /\ proto' = proto /\ name' = name
  BY DEF NewQuery_Message, BuilderInv, StageInv, args
<1>2. PICK id \in defaultID : query' = [id |-> id, len |-> questionLen(Fqdn), extra |-> <<>>]
  BY DEF NewQuery_Message
<1>3. id \in Uint16 /\ (proto = "doh" => id = 0)
  <2>1. 0 \in Uint16
    BY DEF Uint16
  <2> QED
    BY <2>1, BuilderAssumption DEF defaultID
<1>4. questionLen(Fqdn) \in Nat
  <2>1. name.length \in Nat
    BY BuilderAssumption DEF BuilderInv, BuilderTypeOK
  <2>2. Fqdn \in Nat
    BY <2>1 DEF Fqdn
  <2> QED
    BY <2>2 DEF questionLen
<1>5. query' \in [id : Uint16, len : Nat, extra : Seq(OPTs)] /\ query'.id = id
  BY <1>2, <1>3, <1>4
<1>6. \A k : Applied(k)' = {}
  BY <1>1 DEF Applied
<1>7. BuilderTypeOK'
  BY <1>1, <1>5 DEF BuilderInv, BuilderTypeOK, args
<1>8. StageInv'
  BY <1>1 DEF BuilderInv, StageInv
<1>9. LastBlockFilled'
  BY <1>6 DEF LastBlockFilled, LastPads, LastHas
<1>10. IDInv'
  BY <1>1, <1>3, <1>5, <1>6 DEF IDInv
<1> QED
  BY <1>7, <1>8, <1>9, <1>10 DEF BuilderInv

\* The inductive invariant holds in every reachable state.
THEOREM BuilderInvariance == BuilderSpec => []BuilderInv
<1>1. BuilderInit => BuilderInv
  <2> SUFFICES ASSUME BuilderInit PROVE BuilderInv
    OBVIOUS
  <2>1. options \in Seq(Options)
    BY BuilderAssumption DEF BuilderInit
  <2>2. 0 \in Uint16
    BY DEF Uint16
  <2>3. BuilderTypeOK
    BY <2>1, <2>2 DEF BuilderInit, BuilderTypeOK, Nil
  <2>4. Applied("edns0") = {}
    BY DEF BuilderInit, Applied
  <2> QED
    BY <2>3, <2>4 DEF BuilderInv, BuilderInit, StageInv, LastBlockFilled, LastPads, LastHas, IDInv
<1>2. BuilderInv /\ [BuilderNext]_builderVars => BuilderInv'
  <2> SUFFICES ASSUME BuilderInv, [BuilderNext]_builderVars PROVE BuilderInv'
    OBVIOUS
  <2> USE DEF BuilderInv
  <2>1. CASE NewQuery_Option
    BY <2>1, EDNS0Step, IDStep DEF NewQuery_Option
  <2>2. CASE NewQuery_Encode
    <3>1. applied = 0 /\ applied' = 0 /\ UNCHANGED args /\ options' = options /\ stage' # "options"
      BY <2>2 DEF NewQuery_Encode, args, StageInv
    <3>2. stage' = "done" => err' # "nil"
      BY <2>2 DEF NewQuery_Encode
    <3>3. Applied("edns0")' = {}
      BY <3>1 DEF Applied
    <3>4. BuilderTypeOK' /\ StageInv'
      BY <2>2 DEF NewQuery_Encode, BuilderTypeOK, StageInv, args
    <3> QED
      BY <3>1, <3>2, <3>3, <3>4 DEF LastBlockFilled, LastPads, LastHas, IDInv
  <2>3. CASE NewQuery_Fails
    <3>1. Nil \in [id : Uint16, len : Nat, extra : Seq(OPTs)]
      <4>1. 0 \in Uint16
        BY DEF Uint16
      <4> QED
        BY <4>1 DEF Nil
    <3> QED
      BY <2>3, <3>1 DEF NewQuery_Fails, BuilderTypeOK, StageInv, LastBlockFilled, IDInv, args
  <2>4. CASE NewQuery_Return \/ UNCHANGED builderVars
    <3>1. UNCHANGED <<args, applied, query, err>> /\ options' = options
          /\ (stage' = stage \/ (stage = "options" /\ stage' = "done"))
      BY <2>4 DEF NewQuery_Return, builderVars, args
    <3>2. \A k : Applied(k)' = Applied(k)
      BY <3>1 DEF Applied
    <3>3. BuilderTypeOK' /\ StageInv'
      BY <3>1 DEF BuilderTypeOK, StageInv, args
    <3>4. LastBlockFilled'
      BY <3>1, <3>2 DEF LastBlockFilled, LastPads, LastHas
    <3>5. IDInv'
      BY <3>1, <3>2 DEF IDInv, LastHas, args
    <3> QED
      BY <3>3, <3>4, <3>5
  <2> QED
    BY <2>1, <2>2, <2>3, <2>4, MessageStep DEF BuilderNext, BuilderTerminated
<1> QED
  BY <1>1, <1>2, PTL DEF BuilderSpec

\* BuilderTypeOK holds for all constants.
THEOREM BuilderTypeCorrect == BuilderSpec => []BuilderTypeOK
BY BuilderInvariance, PTL DEF BuilderInv

\* PaddedToBlock: a query that asks for padding is padded to a block, for names of
\* any length and options in any order, and no padding has a negative length.
THEOREM QueriesPadded == BuilderSpec => []PaddedToBlock
<1>1. BuilderInv => PaddedToBlock
  <2> SUFFICES ASSUME BuilderInv, NEW i \in 1..Len(query.extra)
               PROVE  query.extra[i].padding \in {<<>>} \cup {<<pad>> : pad \in 0..127}
    BY DEF BuilderInv, PaddedToBlock
  <2>1. query.extra \in Seq(OPTs)
    BY DEF BuilderInv, BuilderTypeOK
  <2>2. query.extra[i] \in OPTs
    BY <2>1
  <2> QED BY <2>2 DEF OPTs
<1> QED
  BY <1>1, BuilderInvariance, PTL

\* IDRule: the last QueryOptionID decides, and DNS over HTTPS defaults to zero.
THEOREM IDDecided == BuilderSpec => []IDRule
<1>1. BuilderInv => IDRule
  BY DEF BuilderInv, IDInv, IDRule
<1> QED
  BY <1>1, BuilderInvariance, PTL

\* What the options have added so far, and what an error leaves behind.
ExtraInv ==
  /\ stage \in {"encode", "message"} => query = Nil
  /\ err # "nil" => stage = "done" /\ query = Nil
  /\ err = "nil" => /\ Applied("fails") = {}
                    /\ Len(query.extra) = Cardinality(Applied("edns0"))
  /\ stage = "done" /\ err = "nil" => applied = Len(options)

\* The options applied are finitely many, and one that is applied is counted once.
LEMMA OneMoreApplied ==
  ASSUME applied \in Nat, applied' = applied + 1, options' = options,
         NEW k, options[applied + 1].kind = k
  PROVE  Cardinality(Applied(k)') = Cardinality(Applied(k)) + 1
<1>1. IsFiniteSet(Applied(k))
  <2>1. Applied(k) \in SUBSET (1..applied)
    BY DEF Applied
  <2>2. IsFiniteSet(1..applied)
    BY FS_Interval
  <2> QED BY <2>1, <2>2, FS_Subset
<1>2. Applied(k)' = Applied(k) \cup {applied + 1} /\ applied + 1 \notin Applied(k)
  BY DEF Applied
<1> QED BY <1>1, <1>2, FS_AddElement

\* Every step keeps the account of the options.
LEMMA ExtraStep ==
  ASSUME BuilderInv, ExtraInv, [BuilderNext]_builderVars
  PROVE  ExtraInv'
<1>1. CASE NewQuery_Option
  <2> DEFINE o == options[applied + 1]
  <2>1. /\ stage = "options" /\ applied < Len(options) /\ applied' = applied + 1
        /\ stage' = stage /\ err' = err /\ options' = options
        /\ (o.kind = "edns0" /\ EDNS0(o)) \/ (o.kind = "id" /\ ID(o))
    BY <1>1 DEF NewQuery_Option, args
  <2>2. applied \in Nat /\ err = "nil"
    BY <2>1, NextOption DEF BuilderInv, StageInv
  <2>3. Applied("fails")' = Applied("fails")
    BY <2>1, <2>2, OtherKind
  <2>4. query.extra \in Seq(OPTs) /\ query \in [id : Uint16, len : Nat, extra : Seq(OPTs)]
    BY DEF BuilderInv, BuilderTypeOK
  <2>5. Len(query'.extra) = Cardinality(Applied("edns0")')
    <3>1. CASE o.kind = "edns0" /\ EDNS0(o)
      <4>1. PICK opt : query'.extra = Append(query.extra, opt)
        BY <2>4, <3>1 DEF EDNS0
      <4>2. Len(query'.extra) = Len(query.extra) + 1
        BY <2>4, <4>1
      <4>3. Cardinality(Applied("edns0")') = Cardinality(Applied("edns0")) + 1
        BY <2>1, <2>2, <3>1, OneMoreApplied
      <4> QED BY <2>2, <4>2, <4>3 DEF ExtraInv
    <3>2. CASE o.kind = "id" /\ ID(o)
      <4>1. query'.extra = query.extra
        BY <2>4, <3>2 DEF ID
      <4>2. Applied("edns0")' = Applied("edns0")
        BY <2>1, <2>2, <3>2, OtherKind
      <4> QED BY <2>2, <4>1, <4>2 DEF ExtraInv
    <3> QED BY <2>1, <3>1, <3>2
  <2> QED BY <2>1, <2>2, <2>3, <2>5 DEF ExtraInv
<1>2. CASE NewQuery_Encode
  <2>1. applied' = applied /\ options' = options /\ query' = query /\ query = Nil
    BY <1>2 DEF NewQuery_Encode, args, ExtraInv
  <2>2. \A k : Applied(k)' = Applied(k)
    BY <2>1 DEF Applied
  <2> QED BY <1>2, <2>1, <2>2 DEF NewQuery_Encode, ExtraInv, BuilderInv, StageInv
<1>3. CASE NewQuery_Message
  <2>1. applied' = 0 /\ options' = options /\ stage' = "options" /\ err' = "nil"
    BY <1>3 DEF NewQuery_Message, args, BuilderInv, StageInv
  <2>2. query'.extra = <<>>
    BY <1>3 DEF NewQuery_Message
  <2>3. \A k : Applied(k)' = {}
    BY <2>1 DEF Applied
  <2> QED BY <2>1, <2>2, <2>3, FS_EmptySet DEF ExtraInv
<1>4. CASE NewQuery_Fails
  BY <1>4 DEF NewQuery_Fails, ExtraInv
<1>5. CASE NewQuery_Return
  <2>1. /\ applied = Len(options) /\ applied' = applied /\ options' = options
        /\ query' = query /\ err' = err /\ stage' = "done" /\ stage = "options"
    BY <1>5 DEF NewQuery_Return, args
  <2>2. \A k : Applied(k)' = Applied(k)
    BY <2>1 DEF Applied
  <2> QED BY <2>1, <2>2 DEF ExtraInv
<1>6. CASE UNCHANGED builderVars
  BY <1>6 DEF builderVars, args, ExtraInv, Applied
<1> QED
  BY <1>1, <1>2, <1>3, <1>4, <1>5, <1>6 DEF BuilderNext, BuilderTerminated

\* AllOrNothing: a call returns a query with every option applied, or an error and
\* no query, wherever the option that fails stands.
THEOREM QueryAllOrNothing == BuilderSpec => []AllOrNothing
<1>1. BuilderInit => ExtraInv
  <2> SUFFICES ASSUME BuilderInit PROVE ExtraInv
    OBVIOUS
  <2>1. \A k : Applied(k) = {}
    BY DEF BuilderInit, Applied
  <2>2. Len(query.extra) = 0
    BY DEF BuilderInit, Nil
  <2> QED BY <2>1, <2>2, FS_EmptySet DEF BuilderInit, ExtraInv
<1>2. BuilderInv /\ ExtraInv /\ [BuilderNext]_builderVars => ExtraInv'
  BY ExtraStep
<1>3. ExtraInv => AllOrNothing
  <2> SUFFICES ASSUME ExtraInv, stage = "done", err = "nil" PROVE AllOrNothing
    BY DEF ExtraInv, AllOrNothing
  <2>1. applied = Len(options)
    BY DEF ExtraInv
  <2>2. Applied("edns0") = {i \in 1..Len(options) : options[i].kind = "edns0"}
    BY <2>1 DEF Applied
  <2> QED BY <2>1, <2>2 DEF ExtraInv, AllOrNothing
<1> QED
  BY <1>1, <1>2, <1>3, BuilderInvariance, PTL DEF BuilderSpec

-----------------------------------------------------------------------------
\* TestServer

GoroutineStates == {"none", "listen", "append", "store", "announce", "loop", "exited"}

\* The values of the variables.
TestTypeOK ==
  /\ kind \in [Calls -> Kinds]
  /\ addr \in Calls \cup {None}
  /\ ioclosers \in Seq(Calls) /\ toClose \in Seq(Calls)
  /\ readClosers \in [Calls -> Seq(Calls)]
  /\ gor \in [Calls -> GoroutineStates]
  /\ ready \in [Calls -> BOOLEAN]
  /\ listener \in [Calls -> {"none", "open", "closed"}]
  /\ peer \in [Clients -> Calls \cup {None}]
  /\ client \in [Clients -> {"off", "waiting", "answered", "failed", "gone"}]
  /\ sent \in [Clients -> {"nothing", "part", "query", "garbage"}]
  /\ serving \subseteq Clients /\ served \subseteq Clients

\* The listener of s is among the closers.
registered(s, closers) == \E i \in 1..Len(closers) : closers[i] = s

\* At most one call gets past the assertion of the Start methods, because a caller
\* that waits finds started set.
StartedOnce ==
  /\ \A s \in Calls : ready[s] <=> gor[s] \in {"loop", "exited"}
  /\ \A s \in Calls : ready[s] => started
  /\ \A s, t \in Calls : gor[s] # "none" /\ gor[t] # "none" => s = t
  /\ \A s \in Calls : listener[s] = "open" => gor[s] \notin {"none", "listen"}

\* A server that is announced is among ioclosers, and what Close still has to close
\* is all that is open.
CloserInv ==
  /\ StartedOnce
  /\ \A s \in Calls : ready[s] \/ gor[s] = "announce" => registered(s, ioclosers)
  /\ closing # "no" => \A s \in Calls : gor[s] # "none" => ready[s]
  /\ closing = "closing" => \A s \in Calls : listener[s] = "open" => registered(s, toClose)
  /\ CloseIsComplete

\* Only Close closes a listener, and a client is served by the server it dialled.
ServeInv ==
  /\ \A s \in Calls : listener[s] = "closed" => closing # "no"
  /\ \A c \in serving : peer[c] \in Calls
  /\ GoodClientsDoNotCrash

\* A step of the process, by the goroutine that takes it.
StartStep(s) == Start(s) \/ Listen(s) \/ Append_Load(s) \/ Append_Store(s) \/ Announce(s) \/ LoopEnds(s)
ClientStep(c) == Dial(c) \/ Send(c) \/ Leave(c)
CrashStep(c) == serveConn_Fails(c) \/ Handle_Garbage(c) \/ Handle_WriteFails(c)

\* The steps of TestServer: without the kinds of the Start methods.
LEMMA TestSteps ==
  ASSUME [TestNext]_testVars
  PROVE  \/ UNCHANGED testVars
         \/ panic = "no" /\ \E s \in Calls : StartStep(s)
         \/ panic = "no" /\ (Close_Call \/ Close_Loop)
         \/ panic = "no" /\ \E c \in Clients : ClientStep(c)
         \/ panic = "no" /\ \E c \in Clients, s \in Calls : Accept(s, c)
         \/ panic = "no" /\ \E c \in Clients : CrashStep(c) \/ Handle_Query(c)
<1>1. CASE panic = "no" /\ \E s \in Calls : Start(s) \/ Goroutine(s)
  BY <1>1 DEF Goroutine, StartUDP, StartTCP, StartTLS, StartHTTPS, steps, StartStep
<1>2. CASE panic = "no" /\ (Close_Call \/ Close_Loop)
  BY <1>2
<1>3. CASE panic = "no" /\ \E c \in Clients : Dial(c) \/ Send(c) \/ Leave(c) \/ Serve(c)
  BY <1>3 DEF Serve, ClientStep, CrashStep
<1>4. CASE TestTerminated \/ UNCHANGED testVars
  BY <1>4 DEF TestTerminated
<1> QED BY <1>1, <1>2, <1>3, <1>4 DEF TestNext

\* The types of what the Start methods and Close assign.
LEMMA StartType ==
  ASSUME TestTypeOK, NEW s \in Calls, StartStep(s)
  PROVE  TestTypeOK'
<1> USE DEF TestTypeOK, GoroutineStates, closeVars, clientVars, serveVars
<1>1. CASE Start(s)
  BY <1>1 DEF Start
<1>2. CASE Listen(s)
  BY <1>2 DEF Listen
<1>3. CASE Append_Load(s)
  BY <1>3 DEF Append_Load
<1>4. CASE Append_Store(s)
  <2>1. ioclosers' \in Seq(Calls)
    BY <1>4 DEF Append_Store
  <2> QED BY <1>4, <2>1 DEF Append_Store
<1>5. CASE Announce(s)
  BY <1>5 DEF Announce
<1>6. CASE LoopEnds(s)
  BY <1>6 DEF LoopEnds
<1> QED BY <1>1, <1>2, <1>3, <1>4, <1>5, <1>6 DEF StartStep

\* The types of what clients and the serving of a client assign.
LEMMA ClientType ==
  ASSUME TestTypeOK, NEW c \in Clients,
         ClientStep(c) \/ CrashStep(c) \/ Handle_Query(c) \/ \E s \in Calls : Accept(s, c)
  PROVE  TestTypeOK'
<1> USE DEF TestTypeOK, startVars, closeVars, serveVars
<1>1. CASE ClientStep(c)
  BY <1>1 DEF ClientStep, Dial, Send, Leave
<1>2. CASE CrashStep(c)
  BY <1>2 DEF CrashStep, Crash, serveConn_Fails, Handle_Garbage, Handle_WriteFails
<1>3. CASE Handle_Query(c)
  BY <1>3 DEF Handle_Query
<1>4. CASE \E s \in Calls : Accept(s, c)
  BY <1>4 DEF Accept, clientVars
<1> QED BY <1>1, <1>2, <1>3, <1>4

\* The types of the variables of TestServer.
LEMMA TestTypeCorrect == TestSpec => []TestTypeOK
<1>1. TestInit => TestTypeOK
  BY DEF TestInit, TestTypeOK, GoroutineStates
<1>2. TestTypeOK /\ [TestNext]_testVars => TestTypeOK'
  <2> SUFFICES ASSUME TestTypeOK, [TestNext]_testVars PROVE TestTypeOK'
    OBVIOUS
  <2>1. CASE UNCHANGED testVars
    BY <2>1 DEF TestTypeOK, testVars, startVars, closeVars, clientVars, serveVars
  <2>2. CASE Close_Call
    BY <2>2 DEF TestTypeOK, Close_Call, startVars, clientVars, serveVars
  <2>3. CASE Close_Loop
    <3>1. CASE toClose = <<>>
      BY <2>3, <3>1 DEF TestTypeOK, Close_Loop, startVars, clientVars, serveVars
    <3>2. CASE toClose # <<>>
      <4>1. toClose' \in Seq(Calls) /\ Head(toClose) \in Calls
        <5>1. toClose \in Seq(Calls) /\ toClose' = Tail(toClose)
          BY <2>3, <3>2 DEF TestTypeOK, Close_Loop
        <5>2. Tail(toClose) \in Seq(Calls) /\ Head(toClose) \in Calls
          BY <5>1, <3>2
        <5> QED BY <5>1, <5>2
      <4> QED
        BY <2>3, <3>2, <4>1 DEF TestTypeOK, Close_Loop, startVars, clientVars, serveVars
    <3> QED BY <3>1, <3>2
  <2> QED BY <2>1, <2>2, <2>3, TestSteps, StartType, ClientType
<1> QED BY <1>1, <1>2, PTL DEF TestSpec

-----------------------------------------------------------------------------
\* What Close leaves open

\* CloserInv speaks of these variables only.
LEMMA CloserStutter ==
  ASSUME CloserInv, UNCHANGED <<ready, gor, started, listener, ioclosers, closing, toClose>>
  PROVE  CloserInv'
BY Zenon DEF CloserInv, StartedOnce, CloseIsComplete, registered

\* The goroutine of a call that is not announced yet is alone, and Close has not
\* been called: it may go on to its next control point.
LEMMA GoroutineAdvances ==
  ASSUME CloserInv, NEW s \in Calls, gor \in [Calls -> GoroutineStates],
         gor[s] \in {"listen", "append", "store", "announce"},
         NEW next \in {"append", "store", "announce", "loop"},
         gor' = [gor EXCEPT ![s] = next],
         ready'[s] <=> next = "loop", next = "loop" => started',
         \A t \in Calls : t # s => ready'[t] = ready[t] /\ listener'[t] = listener[t],
         next \in {"announce", "loop"} => registered(s, ioclosers'),
         closing' = closing
  PROVE  CloserInv'
<1>1. ~ready[s] /\ gor[s] # "none"
  BY Zenon DEF CloserInv, StartedOnce
<1>2. closing' = "no"
  BY <1>1, Zenon DEF CloserInv
<1>3. \A t \in Calls : t # s => gor[t] = "none"
  BY <1>1, Zenon DEF CloserInv, StartedOnce
<1>4. \A t \in Calls : t # s => ~ready'[t] /\ listener'[t] # "open"
  BY <1>3, Zenon DEF CloserInv, StartedOnce
<1>5. gor'[s] = next /\ \A t \in Calls : t # s => gor'[t] = "none"
  BY <1>3
<1>6. StartedOnce'
  BY <1>4, <1>5 DEF StartedOnce
<1>7. \A t \in Calls : ready'[t] \/ gor'[t] = "announce" => registered(t, ioclosers')
  BY <1>4, <1>5
<1> QED BY <1>2, <1>6, <1>7 DEF CloserInv, CloseIsComplete

\* The assertion of a Start method fails, or no other call was made before.
LEMMA CloserStart ==
  ASSUME CloserInv, Waits, gor \in [Calls -> GoroutineStates], NEW s \in Calls, Start(s)
  PROVE  CloserInv'
<1>1. /\ closing = "no" /\ callerMayGoOn
      /\ UNCHANGED <<ready, started, listener, ioclosers, closing, toClose>>
  BY Zenon DEF Start, closeVars
<1>2. CASE started
  <2>1. gor' = gor
    BY <1>2 DEF Start
  <2> QED BY <1>1, <2>1, CloserStutter
<1>3. CASE ~started
  <2>1. \A t \in Calls : ~ready[t]
    BY <1>3, Zenon DEF CloserInv, StartedOnce
  <2>2. \A t \in Calls : gor[t] = "none"
    BY <1>1, <2>1, Zenon DEF callerMayGoOn
  <2>3. \A t \in Calls : listener[t] # "open"
    BY <2>2, Zenon DEF CloserInv, StartedOnce
  <2>4. gor' = [gor EXCEPT ![s] = "listen"]
    BY <1>3 DEF Start
  <2>5. gor'[s] = "listen" /\ \A t \in Calls : t # s => gor'[t] = "none"
    BY <2>2, <2>4
  <2>6. StartedOnce'
    BY <1>1, <2>1, <2>3, <2>5 DEF StartedOnce
  <2>7. \A t \in Calls : ready'[t] \/ gor'[t] = "announce" => registered(t, ioclosers')
    BY <1>1, <2>1, <2>5
  <2> QED BY <1>1, <2>6, <2>7 DEF CloserInv, CloseIsComplete
<1> QED BY <1>2, <1>3

\* append yields a list with the new element.
LEMMA AppendRegisters ==
  ASSUME NEW s \in Calls, NEW before \in Seq(Calls)
  PROVE  registered(s, Append(before, s))
<1>1. Append(before, s)[Len(before) + 1] = s /\ Len(Append(before, s)) = Len(before) + 1
  OBVIOUS
<1>2. Len(before) + 1 \in 1..(Len(before) + 1)
  OBVIOUS
<1> QED BY <1>1, <1>2 DEF registered

\* A step of the goroutine of a server keeps CloserInv.
LEMMA CloserGoroutine ==
  ASSUME TestTypeOK, CloserInv, Waits, NEW s \in Calls, StartStep(s)
  PROVE  CloserInv'
<1>0. /\ gor \in [Calls -> GoroutineStates] /\ ready \in [Calls -> BOOLEAN]
      /\ listener \in [Calls -> {"none", "open", "closed"}] /\ readClosers \in [Calls -> Seq(Calls)]
  BY Zenon DEF TestTypeOK
<1>a. gor[s] \in {"listen", "append", "store", "announce"} => ~ready[s]
  BY Zenon DEF CloserInv, StartedOnce
<1>1. CASE Start(s)
  BY <1>0, <1>1, CloserStart
<1>2. CASE Listen(s)
  <2>1. gor[s] = "listen" /\ UNCHANGED <<ready, started, ioclosers, closing, toClose>>
    BY <1>2, Zenon DEF Listen, closeVars
  <2>2. CASE UNCHANGED <<listener, gor>>
    BY <2>1, <2>2, CloserStutter
  <2>3. CASE /\ listener' = [listener EXCEPT ![s] = "open"]
             /\ gor' = [gor EXCEPT ![s] = "append"]
    <3>1. \A t \in Calls : t # s => ready'[t] = ready[t] /\ listener'[t] = listener[t]
      BY <1>0, <2>1, <2>3
    <3> QED BY <1>0, <1>a, <2>1, <2>3, <3>1, GoroutineAdvances, Zenon
  <2> QED BY <1>2, <2>2, <2>3, Zenon DEF Listen
<1>3. CASE Append_Load(s)
  <2>1. /\ gor[s] = "append" /\ gor' = [gor EXCEPT ![s] = "store"]
        /\ UNCHANGED <<ready, listener, closing>>
    BY <1>3, Zenon DEF Append_Load, closeVars
  <2> QED BY <1>0, <1>a, <2>1, GoroutineAdvances
<1>4. CASE Append_Store(s)
  <2>1. /\ gor[s] = "store" /\ gor' = [gor EXCEPT ![s] = "announce"]
        /\ UNCHANGED <<ready, listener, closing>> /\ ioclosers' = Append(readClosers[s], s)
    BY <1>4, Zenon DEF Append_Store, closeVars
  <2>2. readClosers[s] \in Seq(Calls)
    BY <1>0
  <2>3. registered(s, ioclosers')
    BY <2>1, <2>2, AppendRegisters
  <2> QED BY <1>0, <1>a, <2>1, <2>3, GoroutineAdvances, Zenon
<1>5. CASE Announce(s)
  <2>1. /\ gor[s] = "announce" /\ gor' = [gor EXCEPT ![s] = "loop"] /\ started' = TRUE
        /\ ready' = [ready EXCEPT ![s] = TRUE] /\ UNCHANGED <<ioclosers, listener, closing>>
    BY <1>5, Zenon DEF Announce, closeVars
  <2>2. registered(s, ioclosers')
    BY <2>1, Zenon DEF CloserInv
  <2>3. ready'[s] /\ \A t \in Calls : t # s => ready'[t] = ready[t]
    BY <1>0, <2>1
  <2> QED BY <1>0, <2>1, <2>2, <2>3, GoroutineAdvances, Zenon
<1>6. CASE LoopEnds(s)
  <2>1. /\ gor[s] = "loop" /\ gor' = [gor EXCEPT ![s] = "exited"]
        /\ UNCHANGED <<ready, started, listener, ioclosers, closing, toClose>>
    BY <1>6, Zenon DEF LoopEnds, closeVars
  <2>2. gor'[s] = "exited" /\ \A t \in Calls : t # s => gor'[t] = gor[t]
    BY <1>0, <2>1
  <2>3. StartedOnce'
    <3>1. StartedOnce
      BY Zenon DEF CloserInv
    <3>2. \A t \in Calls : ready'[t] <=> gor'[t] \in {"loop", "exited"}
      BY <2>1, <2>2, <3>1 DEF StartedOnce
    <3>3. \A t \in Calls : ready'[t] => started'
      BY <2>1, <3>1, Zenon DEF StartedOnce
    <3>4. \A t \in Calls : gor'[t] # "none" => gor[t] # "none"
      BY <2>1, <2>2
    <3>5. \A t, u \in Calls : gor'[t] # "none" /\ gor'[u] # "none" => t = u
      BY <3>1, <3>4, Zenon DEF StartedOnce
    <3>6. \A t \in Calls : listener'[t] = "open" => gor'[t] \notin {"none", "listen"}
      BY <2>1, <2>2, <3>1 DEF StartedOnce
    <3> QED BY <3>2, <3>3, <3>5, <3>6, Zenon DEF StartedOnce
  <2>4. \A t \in Calls : /\ gor'[t] = "announce" => gor[t] = "announce"
                         /\ gor'[t] # "none" => gor[t] # "none"
    BY <2>1, <2>2
  <2> QED BY <2>1, <2>3, <2>4, Zenon DEF CloserInv, CloseIsComplete, registered
<1> QED BY <1>1, <1>2, <1>3, <1>4, <1>5, <1>6, Zenon DEF StartStep

\* Close opens no listener and leaves the calls alone.
LEMMA StartedOnceKept ==
  ASSUME StartedOnce, UNCHANGED <<ready, gor, started>>,
         \A s \in Calls : listener'[s] = "open" => listener[s] = "open"
  PROVE  StartedOnce'
<1>1. ready' = ready /\ gor' = gor /\ started' = started
  OBVIOUS
<1>2. \A s \in Calls : listener'[s] = "open" => gor'[s] \notin {"none", "listen"}
  BY <1>1, Zenon DEF StartedOnce
<1>3. \A s \in Calls : ready'[s] <=> gor'[s] \in {"loop", "exited"}
  BY <1>1, Zenon DEF StartedOnce
<1>4. \A s \in Calls : ready'[s] => started'
  <2>1. \A s \in Calls : ready[s] => started
    BY Zenon DEF StartedOnce
  <2> QED BY <1>1, <2>1
<1>5. \A s, t \in Calls : gor'[s] # "none" /\ gor'[t] # "none" => s = t
  <2>1. \A s, t \in Calls : gor[s] # "none" /\ gor[t] # "none" => s = t
    BY Zenon DEF StartedOnce
  <2> QED BY <1>1, <2>1
<1> QED BY <1>2, <1>3, <1>4, <1>5, Zenon DEF StartedOnce

\* A step of Close keeps CloserInv.
LEMMA CloserCloseStep ==
  ASSUME TestTypeOK, CloserInv, Waits, Close_Call \/ Close_Loop
  PROVE  CloserInv'
<1>0. Close_Call \/ Close_Loop => UNCHANGED <<ready, gor, started, ioclosers>>
  BY Zenon DEF Close_Call, Close_Loop, startVars
<1>1. CASE Close_Call
  <2>1. /\ closing = "no" /\ closing' = "closing" /\ toClose' = ioclosers /\ listener' = listener
        /\ callerMayGoOn
    BY <1>1, Zenon DEF Close_Call
  <2>2. \A s \in Calls : gor[s] # "none" => ready[s]
    BY <2>1, Zenon DEF callerMayGoOn
  <2>3. StartedOnce'
    BY <1>0, <1>1, <2>1, StartedOnceKept DEF CloserInv
  <2>4. \A s \in Calls : ready[s] \/ gor[s] = "announce" => registered(s, ioclosers)
    BY Zenon DEF CloserInv
  <2>5. \A s \in Calls : listener[s] = "open" => registered(s, ioclosers)
    BY <2>2, <2>4, Zenon DEF CloserInv, StartedOnce
  <2> QED BY <1>0, <1>1, <2>1, <2>2, <2>3, <2>4, <2>5 DEF CloserInv, CloseIsComplete
<1>2. CASE Close_Loop /\ toClose = <<>>
  <2>1. closing = "closing" /\ closing' = "closed" /\ UNCHANGED <<toClose, listener>>
    BY <1>2 DEF Close_Loop
  <2>2. \A s : ~registered(s, toClose)
    BY <1>2 DEF registered
  <2>3. \A s \in Calls : listener[s] # "open"
    BY <2>1, <2>2, Zenon DEF CloserInv
  <2>4. StartedOnce'
    BY <1>0, <1>2, <2>1, StartedOnceKept DEF CloserInv
  <2> QED BY <1>0, <1>2, <2>1, <2>3, <2>4 DEF CloserInv, CloseIsComplete
<1>3. CASE Close_Loop /\ toClose # <<>>
  <2>1. /\ toClose \in Seq(Calls) /\ toClose' = Tail(toClose)
        /\ listener' = [listener EXCEPT ![Head(toClose)] = "closed"]
        /\ closing = "closing" /\ closing' = closing
    BY <1>3 DEF Close_Loop, TestTypeOK
  <2>2. Head(toClose) \in Calls /\ Head(toClose) = toClose[1]
    BY <1>3, <2>1
  <2>3. ASSUME NEW s \in Calls, listener'[s] = "open"
        PROVE  registered(s, toClose')
    <3>1. listener[s] = "open" /\ s # Head(toClose)
      BY <2>1, <2>2, <2>3 DEF TestTypeOK
    <3>2. PICK i \in 1..Len(toClose) : toClose[i] = s
      BY <2>1, <3>1 DEF CloserInv, registered
    <3>3. i # 1
      BY <2>2, <3>1, <3>2
    <3>4. i - 1 \in 1..Len(Tail(toClose)) /\ Tail(toClose)[i - 1] = s
      BY <1>3, <2>1, <3>2, <3>3
    <3> QED BY <2>1, <3>4, Zenon DEF registered
  <2>4. \A s \in Calls : listener'[s] = "open" => listener[s] = "open"
    BY <2>1, <2>2 DEF TestTypeOK
  <2>5. StartedOnce'
    BY <1>0, <1>3, <2>4, StartedOnceKept DEF CloserInv
  <2> QED BY <1>0, <1>3, <2>1, <2>3, <2>5 DEF CloserInv, CloseIsComplete
<1> QED BY <1>1, <1>2, <1>3, Zenon

\* CloseIsComplete: for a caller that waits for the ready channel, Close closes every
\* listener that was opened, although ioclosers and started are written by the
\* goroutine of the server and read by the caller without a lock.
THEOREM CloseLeavesNothingOpen ==
  ASSUME Waits
  PROVE  TestSpec => []CloseIsComplete
<1>1. TestInit => CloserInv
  <2> SUFFICES ASSUME TestInit PROVE CloserInv
    OBVIOUS
  <2>1. \A s \in Calls : ~ready[s] /\ gor[s] = "none" /\ listener[s] = "none"
    BY DEF TestInit
  <2> QED BY <2>1 DEF TestInit, CloserInv, StartedOnce, CloseIsComplete
<1>2. TestTypeOK /\ CloserInv /\ [TestNext]_testVars => CloserInv'
  <2> SUFFICES ASSUME TestTypeOK, CloserInv, [TestNext]_testVars PROVE CloserInv'
    OBVIOUS
  <2>1. CASE UNCHANGED <<startVars, listener, closeVars>>
    BY <2>1, CloserStutter, Zenon DEF startVars, closeVars
  <2>2. ASSUME NEW c \in Clients,
               ClientStep(c) \/ CrashStep(c) \/ Handle_Query(c) \/ \E s \in Calls : Accept(s, c)
        PROVE  UNCHANGED <<startVars, listener, closeVars>>
    BY <2>2 DEF ClientStep, Dial, Send, Leave, CrashStep, serveConn_Fails, Handle_Garbage,
                Handle_WriteFails, Handle_Query, Accept
  <2>3. CASE UNCHANGED testVars
    BY <2>1, <2>3 DEF testVars
  <2> QED BY <2>1, <2>2, <2>3, TestSteps, CloserGoroutine, CloserCloseStep
<1>3. CloserInv => CloseIsComplete
  BY Zenon DEF CloserInv
<1> QED BY <1>1, <1>2, <1>3, TestTypeCorrect, PTL DEF TestSpec

-----------------------------------------------------------------------------
\* What may crash the process

\* A panic in the serving of a client, and what it takes.
LEMMA CrashCause ==
  ASSUME TestTypeOK, ServeInv, NEW c \in Clients, CrashStep(c)
  PROVE  /\ serving' \subseteq serving /\ UNCHANGED <<startVars, listener, closeVars, peer>>
         /\ panic' # panic => \/ closing' # "no"
                              \/ client'[c] = "gone" \/ sent'[c] = "garbage"
<1>1. serving' \subseteq serving /\ UNCHANGED <<startVars, listener, closeVars, peer, sent>>
  BY DEF CrashStep, Crash, serveConn_Fails, Handle_Garbage, Handle_WriteFails
<1>2. panic' # panic => client' = client /\ kind[peer[c]] # "doh"
  BY DEF CrashStep, Crash, serveConn_Fails, Handle_Garbage, Handle_WriteFails
<1>3. CASE serveConn_Fails(c) \/ Handle_Garbage(c)
  BY <1>1, <1>2, <1>3 DEF serveConn_Fails, Handle_Garbage
<1>4. CASE Handle_WriteFails(c)
  <2>1. CASE kind[peer[c]] = "udp"
    BY <1>1, <1>4, <2>1 DEF Handle_WriteFails, udpWriteFails, ServeInv, closeVars
  <2>2. CASE kind[peer[c]] # "udp"
    BY <1>1, <1>2, <1>4, <2>2 DEF Handle_WriteFails, streamWriteFails
  <2> QED BY <2>1, <2>2
<1> QED BY <1>1, <1>3, <1>4 DEF CrashStep

\* GoodClientsDoNotCrash: however the caller waits and however many servers there
\* are, the panics of serveConn and of the handler need a client that has left, one
\* that sent garbage, or a Close.
THEOREM GoodClientsSafe == TestSpec => []GoodClientsDoNotCrash
<1>1. TestInit => ServeInv
  BY DEF TestInit, ServeInv, GoodClientsDoNotCrash
<1>2. TestTypeOK /\ ServeInv /\ [TestNext]_testVars => ServeInv'
  <2> SUFFICES ASSUME TestTypeOK, ServeInv, [TestNext]_testVars PROVE ServeInv'
    OBVIOUS
  <2>1. CASE UNCHANGED testVars
    BY <2>1 DEF ServeInv, GoodClientsDoNotCrash, testVars, startVars, closeVars, clientVars, serveVars
  <2>2. ASSUME NEW s \in Calls, StartStep(s), panic = "no"
        PROVE  ServeInv'
    <3>1. /\ UNCHANGED <<closing, serving, peer>> /\ panic' \in {"no", "started", "listen"}
          /\ \A t \in Calls : listener'[t] = "closed" => listener[t] = "closed"
      BY <2>2 DEF StartStep, Start, Listen, Append_Load, Append_Store, Announce, LoopEnds,
                  closeVars, clientVars, serveVars, TestTypeOK
    <3> QED BY <3>1 DEF ServeInv, GoodClientsDoNotCrash
  <2>3. CASE panic = "no" /\ (Close_Call \/ Close_Loop)
    <3>1. closing' # "no" /\ UNCHANGED <<serving, peer>>
      BY <2>3 DEF Close_Call, Close_Loop, serveVars, clientVars
    <3> QED BY <3>1 DEF ServeInv, GoodClientsDoNotCrash
  <2>4. ASSUME NEW c \in Clients, panic = "no",
               ClientStep(c) \/ Handle_Query(c) \/ \E s \in Calls : Accept(s, c)
        PROVE  ServeInv'
    <3>1. UNCHANGED <<listener, closing, panic>>
      BY <2>4 DEF ClientStep, Dial, Send, Leave, Handle_Query, Accept, closeVars
    <3>2. \A d \in serving' : peer'[d] \in Calls
      BY <2>4 DEF ClientStep, Dial, Send, Leave, Handle_Query, Accept, serveVars, clientVars,
                  ServeInv, TestTypeOK
    <3> QED BY <2>4, <3>1, <3>2 DEF ServeInv, GoodClientsDoNotCrash
  <2>5. ASSUME NEW c \in Clients, panic = "no", CrashStep(c)
        PROVE  ServeInv'
    BY <2>5, CrashCause DEF ServeInv, GoodClientsDoNotCrash, closeVars
  <2> QED BY <2>1, <2>2, <2>3, <2>4, <2>5, TestSteps
<1>3. ServeInv => GoodClientsDoNotCrash
  BY DEF ServeInv
<1> QED BY <1>1, <1>2, <1>3, TestTypeCorrect, PTL DEF TestSpec
=============================================================================
