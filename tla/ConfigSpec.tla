----------------------------- MODULE ConfigSpec -----------------------------
(***************************************************************************)
(* What ResolverConfig promises to the goroutines that share it: every call  *)
(* takes effect atomically, at one instant between its invocation and its    *)
(* return ("This struct is safe for concurrent use by multiple goroutines"). *)
(***************************************************************************)
EXTENDS Sequences

CONSTANTS
  Goroutines,
  Ops,             \* calls: records with a kind and an argument
  NoOp,            \* the absence of a call
  DefaultAttempts,
  DefaultServers   \* what servers() returns for an empty configuration

VARIABLES
  attempts,        \* the configured number of attempts
  list,            \* the configured servers
  phase,           \* per goroutine: "idle", "called" or "answered"
  op,              \* per goroutine: its call
  gotAttempts,     \* per goroutine: the answer to its Attempts()
  gotServers       \* per goroutine: the answer to its servers()

vars == <<attempts, list, phase, op, gotAttempts, gotServers>>

Call(g) ==
  /\ phase[g] = "idle"
  /\ phase' = [phase EXCEPT ![g] = "called"]
  /\ \E o \in Ops : op' = [op EXCEPT ![g] = o]
  /\ UNCHANGED <<attempts, list, gotAttempts, gotServers>>

\* The instant at which the call of g takes effect.
TakeEffect(g) ==
  /\ phase[g] = "called"
  /\ phase' = [phase EXCEPT ![g] = "answered"]
  /\ \/ /\ op[g].kind = "SetAttempts"
        /\ attempts' = op[g].arg
        /\ UNCHANGED <<list, gotAttempts, gotServers>>
     \/ /\ op[g].kind = "AddServer"
        /\ list' = Append(list, op[g].arg)
        /\ UNCHANGED <<attempts, gotAttempts, gotServers>>
     \/ /\ op[g].kind = "Attempts"
        /\ gotAttempts' = [gotAttempts EXCEPT ![g] = attempts]
        /\ UNCHANGED <<attempts, list, gotServers>>
     \/ /\ op[g].kind = "servers"
        /\ gotServers' = [gotServers EXCEPT
                            ![g] = IF list = <<>> THEN DefaultServers ELSE list]
        /\ UNCHANGED <<attempts, list, gotAttempts>>
  /\ UNCHANGED op

Return(g) ==
  /\ phase[g] = "answered"
  /\ phase' = [phase EXCEPT ![g] = "idle"]
  /\ op' = [op EXCEPT ![g] = NoOp]
  /\ gotAttempts' = [gotAttempts EXCEPT ![g] = 0]
  /\ gotServers' = [gotServers EXCEPT ![g] = <<>>]
  /\ UNCHANGED <<attempts, list>>

Init ==
  /\ attempts = DefaultAttempts
  /\ list = <<>>
  /\ phase = [g \in Goroutines |-> "idle"]
  /\ op = [g \in Goroutines |-> NoOp]
  /\ gotAttempts = [g \in Goroutines |-> 0]
  /\ gotServers = [g \in Goroutines |-> <<>>]

Next == \E g \in Goroutines : Call(g) \/ TakeEffect(g) \/ Return(g)

Spec == Init /\ [][Next]_vars
=============================================================================
