--------------------------- MODULE QueryContract ---------------------------
(***************************************************************************)
(* What Transport.Query of src/transport.go promises for every protocol, and *)
(* what exchange in src/lookup.go relies on.  A call whose context is done    *)
(* does not start; a call returns once; it returns the first thing received  *)
(* from the server if that is a message, and it reports an abort only if the *)
(* context is done or its deadline has passed.                               *)
(***************************************************************************)
EXTENDS Sequences

CONSTANTS Msgs, Garbage, None

VARIABLES
  ctxDone,   \* ctx.Err() is not nil
  late,      \* the deadline of the context has passed
  call,      \* "called", "running" or "returned"
  outcome,   \* the kind of the result, and the message
  inbox      \* what was received from the server so far

cvars == <<ctxDone, late, call, outcome, inbox>>

Pending == [kind |-> "none", msg |-> None]
Aborted == [kind |-> "aborted", msg |-> None]
Failed == [kind |-> "failed", msg |-> None]
Message(m) == [kind |-> "message", msg |-> m]

Init ==
  /\ ctxDone \in BOOLEAN /\ late \in BOOLEAN
  /\ call = "called"
  /\ outcome = Pending
  /\ inbox = <<>>

\* Time passes, or the caller cancels; neither is ever undone.
ContextChanges ==
  /\ ctxDone => ctxDone'
  /\ late => late'
  /\ UNCHANGED <<call, outcome, inbox>>

\* Something arrives from the server of a call that has started.
Receive ==
  /\ call # "called"
  /\ \E d \in Msgs \cup {Garbage} : inbox' = Append(inbox, d)
  /\ UNCHANGED <<ctxDone, late, call, outcome>>

\* "immediately fail if the context is already done"
Begin ==
  /\ call = "called" /\ ~ctxDone
  /\ call' = "running"
  /\ UNCHANGED <<ctxDone, late, outcome, inbox>>

ReturnAborted ==
  /\ call # "returned" /\ (ctxDone \/ late)
  /\ call' = "returned" /\ outcome' = Aborted
  /\ UNCHANGED <<ctxDone, late, inbox>>

ReturnFailed ==
  /\ call # "returned"
  /\ call' = "returned" /\ outcome' = Failed
  /\ UNCHANGED <<ctxDone, late, inbox>>

\* "The returned DNS message is the first message received from the server"
ReturnMessage ==
  /\ call = "running" /\ inbox # <<>>
  /\ inbox[1] \in Msgs
  /\ call' = "returned" /\ outcome' = Message(inbox[1])
  /\ UNCHANGED <<ctxDone, late, inbox>>

Next ==
  \/ ContextChanges \/ Receive \/ Begin
  \/ ReturnAborted \/ ReturnFailed \/ ReturnMessage

Spec == Init /\ [][Next]_cvars
=============================================================================
