------------------------ MODULE UDPDuplicatesProofs ------------------------
(***************************************************************************)
(* Theorems about UDPDuplicates, for any capacity of the channel, any set of *)
(* messages and any number of datagrams.  UDPQueryProofs has the lemmas about *)
(* the functions that queryUDP and queryUDPWithDuplicates share.             *)
(***************************************************************************)
EXTENDS UDPDuplicates, UDPQueryProofs

\* The control points before the goroutine decides to leave.
Running == {"start", "dial", "pack", "write", "sent", "read", "reading", "received"}
Sending == {"start", "dial", "pack", "write", "sent"}

\* Before the goroutine decides to leave, only messages were emitted; when it
\* leaves, the last item is an error unless the context is done.
ErrorInv ==
  /\ pc \in Running => \A i \in 1..Len(emitted) : emitted[i].err = "nil"
  /\ pc \notin Running =>
       \/ ctx # "live"
       \/ emitted # <<>> /\ emitted[Len(emitted)].err # "nil"
  /\ closed <=> pc = "done"
  /\ pc = "start" => emitted = <<>>

\* Nothing was read or emitted before the query was sent.
SendInv ==
  /\ pc \in Sending => /\ nread = 0 /\ emitted = <<>> /\ dropped = <<>>
                       /\ closer = "none"
  /\ pc \in {"read", "reading", "received", "cancel"} => closer # "none"

\* What the goroutine read and did not drop: the channel and the item in hand.
flow == emitted \o inHand

\* While the context is live the flow follows the datagrams.
FlowInv ==
  (ctx = "live" /\ closer # "none") =>
    /\ dropped = <<>>
    /\ Len(flow) = nread \/ Len(flow) = nread + 1
    /\ \A i \in 1..nread :
         /\ flow[i].err = "nil" => flow[i].msg = arrived[i]
         /\ flow[i].err # "nil" => flow[i].err = "unpack" /\ i = nread
    /\ pc \in {"read", "reading"} => Len(emitted) = nread
    /\ pc = "received" /\ ret.err = "nil" => Len(emitted) + 1 = nread

\* The inductive invariant.
DupInv == DupTypeOK /\ ErrorIsLast /\ ErrorInv /\ SendInv /\ FlowInv

-----------------------------------------------------------------------------
\* Sequences

\* What is appended to the channel is appended to what was emitted.
LEMMA ConcatAppend ==
  ASSUME NEW S, NEW s \in Seq(S), NEW t \in Seq(S), NEW x \in S
  PROVE  s \o Append(t, x) = Append(s \o t, x)
OBVIOUS

\* Moving the head of the channel to the reader changes nothing.
LEMMA MoveHead ==
  ASSUME NEW S, NEW s \in Seq(S), NEW t \in Seq(S), t # <<>>
  PROVE  /\ Head(t) \in S /\ Tail(t) \in Seq(S)
         /\ Len(Tail(t)) = Len(t) - 1
         /\ Append(s, Head(t)) \o Tail(t) = s \o t
OBVIOUS

-----------------------------------------------------------------------------

\* The initial states satisfy the invariant.
LEMMA DupInitInv == DupInit => DupInv
<1> SUFFICES ASSUME DupInit PROVE DupInv
  OBVIOUS
<1>1. /\ out \in Seq(Results) /\ got \in Seq(Results) /\ dropped \in Seq(Results)
      /\ Len(out) <= Cap
  BY CapAssumption DEF DupInit
<1>2. emitted = <<>>
  BY DEF DupInit, emitted
<1>3. DupTypeOK
  <2>1. SockTypeOK
    BY SockInitType DEF DupInit
  <2>2. closed \in BOOLEAN /\ reader = "ranging" /\ pc = "start"
    BY DEF DupInit, SockInit, ctxInit
  <2> QED
    BY <1>1, <2>1, <2>2 DEF DupTypeOK
<1>4. ErrorIsLast /\ ErrorInv
  BY <1>2 DEF DupInit, SockInit, ctxInit, ErrorIsLast, ErrorInv, Running
<1>5. SendInv /\ FlowInv
  BY <1>2 DEF DupInit, SockInit, ctxInit, SendInv, FlowInv
<1> QED
  BY <1>3, <1>4, <1>5 DEF DupInv

\* The two outcomes of emitMessageOrError.
LEMMA EmitEffect ==
  ASSUME DupTypeOK, NEW r \in Results, emitMessageOrError(r), got' = got
  PROVE  /\ out' \in Seq(Results) /\ Len(out') <= Cap /\ dropped' \in Seq(Results)
         /\ \/ emitted' = Append(emitted, r) /\ dropped' = dropped
            \/ emitted' = emitted /\ ctx # "live"
<1>0. got \in Seq(Results) /\ out \in Seq(Results) /\ dropped \in Seq(Results)
  BY DEF DupTypeOK
<1>1. CASE Len(out) < Cap /\ out' = Append(out, r) /\ UNCHANGED dropped
  <2>1. emitted' = Append(emitted, r)
    BY <1>0, <1>1, ConcatAppend DEF emitted
  <2> QED
    BY <1>0, <1>1, <2>1, CapAssumption
<1>2. CASE ctx # "live" /\ dropped' = Append(dropped, r) /\ UNCHANGED out
  BY <1>0, <1>2 DEF emitted, DupTypeOK
<1> QED
  BY <1>1, <1>2 DEF emitMessageOrError

\* The reader takes items from the channel without changing what was emitted.
LEMMA ReaderEffect ==
  ASSUME DupTypeOK, Reader
  PROVE  DupTypeOK' /\ emitted' = emitted /\ UNCHANGED <<sockVars, closed, dropped>>
<1>0. got \in Seq(Results) /\ out \in Seq(Results)
  BY DEF DupTypeOK
<1>1. CASE ReaderReceives
  <2>1. /\ Head(out) \in Results /\ Tail(out) \in Seq(Results)
        /\ Len(Tail(out)) = Len(out) - 1
        /\ Append(got, Head(out)) \o Tail(out) = got \o out
    BY <1>0, <1>1, MoveHead DEF ReaderReceives
  <2>2. out' = Tail(out) /\ got' = Append(got, Head(out))
    BY <1>1 DEF ReaderReceives
  <2>3. emitted' = emitted
    BY <2>1, <2>2 DEF emitted
  <2>4. out' \in Seq(Results) /\ Len(out') <= Cap /\ got' \in Seq(Results)
    BY <1>0, <2>1, <2>2, CapAssumption DEF DupTypeOK
  <2> QED
    BY <1>1, <2>3, <2>4
    DEF ReaderReceives, DupTypeOK, SockTypeOK, ctxTypeOK, sockVars, ctxVars, connVars, netVars
<1>2. CASE ReaderFinishes \/ ReaderStops
  BY <1>2 DEF ReaderFinishes, ReaderStops, emitted, DupTypeOK, SockTypeOK, ctxTypeOK, sockVars,
     ctxVars, connVars, netVars
<1> QED
  BY <1>1, <1>2 DEF Reader

-----------------------------------------------------------------------------

\* Every step preserves the types.
LEMMA DupTypeStep ==
  ASSUME DupInv, [DupNext]_dupVars
  PROVE  DupTypeOK'
<1>0. DupTypeOK
  BY DEF DupInv
<1>1. CASE UNCHANGED dupVars
  BY <1>0, <1>1
  DEF dupVars, sockVars, chanVars, ctxVars, connVars, netVars, DupTypeOK, SockTypeOK, ctxTypeOK
<1>2. CASE duplicates_Enter
  <2>1. CASE ctx # "live"
    <3>1. out = <<>>
      <4>1. emitted = <<>>
        BY <1>2 DEF DupInv, ErrorInv, duplicates_Enter
      <4>2. got \in Seq(Results) /\ out \in Seq(Results)
        BY <1>0 DEF DupTypeOK
      <4>3. Len(got \o out) = Len(got) + Len(out) /\ Len(got \o out) = 0
        BY <4>1, <4>2 DEF emitted
      <4> QED
        BY <4>2, <4>3
    <3>2. Err("ctx") \in Results
      BY ResultsType DEF Errors
    <3>3. out' = Append(<<>>, Err("ctx")) /\ 1 <= Cap
      BY <1>2, <2>1, <3>1, CapAssumption DEF duplicates_Enter
    <3>4. out' \in Seq(Results) /\ Len(out') <= Cap
      BY <3>2, <3>3, CapAssumption
    <3> QED
      BY <1>0, <1>2, <2>1, <3>4
      DEF duplicates_Enter, ctxVars, connVars, netVars, DupTypeOK, SockTypeOK, ctxTypeOK
  <2>2. CASE ctx = "live"
    BY <1>0, <1>2, <2>2
    DEF duplicates_Enter, ctxVars, connVars, netVars, DupTypeOK, SockTypeOK, ctxTypeOK
  <2> QED
    BY <2>1, <2>2
<1>3. CASE duplicates_Sent
  <2>1. out' \in Seq(Results) /\ Len(out') <= Cap /\ dropped' \in Seq(Results)
    <3>1. CASE ret.err = "nil"
      BY <1>0, <1>3, <3>1 DEF duplicates_Sent, DupTypeOK
    <3>2. CASE ret.err # "nil"
      BY <1>0, <1>3, <3>2, EmitEffect DEF duplicates_Sent, DupTypeOK, SockTypeOK, ctxTypeOK
    <3> QED
      BY <3>1, <3>2
  <2> QED
    BY <1>0, <1>3, <2>1
    DEF duplicates_Sent, ctxVars, netVars, DupTypeOK, SockTypeOK, ctxTypeOK
<1>4. CASE duplicates_Received
  <2>1. out' \in Seq(Results) /\ Len(out') <= Cap /\ dropped' \in Seq(Results)
    BY <1>0, <1>4, EmitEffect DEF duplicates_Received, DupTypeOK, SockTypeOK, ctxTypeOK
  <2> QED
    BY <1>0, <1>4, <2>1
    DEF duplicates_Received, ctxVars, connVars, netVars, DupTypeOK, SockTypeOK, ctxTypeOK
<1>5. CASE duplicates_Cancel \/ duplicates_Close
  BY <1>0, <1>5 DEF duplicates_Cancel, duplicates_Close, ctxVars, connVars, netVars,
     chanVars, DupTypeOK, SockTypeOK, ctxTypeOK
<1>6. CASE (Helpers \/ Environment) /\ UNCHANGED chanVars
  <2>1. SockTypeOK'
    BY <1>0, <1>6, SockTypeStep DEF DupTypeOK
  <2>2. pc' = pc \/ pc' \in {"pack", "write", "sent", "reading", "received"}
    BY <1>6, SockControl
  <2> QED
    BY <1>0, <1>6, <2>1, <2>2 DEF DupTypeOK, chanVars
<1>7. CASE Reader
  BY <1>0, <1>7, ReaderEffect
<1>8. CASE QueryWithDuplicates_Refuse
  <2>1. out = <<>>
    <3>1. emitted = <<>>
      BY <1>8 DEF DupInv, ErrorInv, QueryWithDuplicates_Refuse
    <3>2. got \in Seq(Results) /\ out \in Seq(Results)
      BY <1>0 DEF DupTypeOK
    <3>3. Len(got \o out) = Len(got) + Len(out) /\ Len(got \o out) = 0
      BY <3>1, <3>2 DEF emitted
    <3> QED
      BY <3>2, <3>3
  <2>2. Err("duplicates") \in Results
    BY ResultsType DEF Errors
  <2>3. out' = Append(<<>>, Err("duplicates")) /\ 1 <= Cap
    BY <1>8, <2>1, CapAssumption DEF QueryWithDuplicates_Refuse
  <2>4. out' \in Seq(Results) /\ Len(out') <= Cap
    BY <2>2, <2>3, CapAssumption
  <2> QED
    BY <1>0, <1>8, <2>4
    DEF QueryWithDuplicates_Refuse, ctxVars, connVars, netVars, DupTypeOK, SockTypeOK, ctxTypeOK
<1> QED
  BY <1>1, <1>2, <1>3, <1>4, <1>5, <1>6, <1>7, <1>8 DEF DupNext, Duplicates, DupTerminated

\* The control and the context move forward in the shared functions.
LEMMA SockEffect ==
  ASSUME Helpers \/ Environment
  PROVE  /\ pc' = pc \/ (pc \in Running /\ pc' \in Running /\ pc' # "start")
         /\ ctx # "live" => ctx' # "live"
         /\ pc' = "read" => pc = "read"
         /\ closer = "none" => closer' = "none"
         /\ closer # "none" => closer' # "none"
<1> USE DEF Running
<1>1. CASE sendQueryUDP_Dial \/ sendQueryUDP_Pack \/ sendQueryUDP_Write
  BY <1>1 DEF sendQueryUDP_Dial, sendQueryUDP_Pack, sendQueryUDP_Write, ctxVars, connVars
<1>2. CASE recvResponseUDP_Call \/ recvResponseUDP_Data
  BY <1>2 DEF recvResponseUDP_Call, recvResponseUDP_Data, ctxVars, connVars
<1>3. CASE recvResponseUDP_Abort \/ recvResponseUDP_NetworkError
  BY <1>3 DEF recvResponseUDP_Abort, recvResponseUDP_NetworkError, ctxVars, connVars
<1>4. CASE closeOnDone
  BY <1>4 DEF closeOnDone, ctxVars
<1>5. CASE Environment
  BY <1>5 DEF Environment, Cancel, DeadlinePasses, ContextExpires, callerCancels,
    clockPassesDeadline, timerFires, Deliver, ctxVars,
     connVars
<1> QED
  BY <1>1, <1>2, <1>3, <1>4, <1>5 DEF Helpers

\* Appending to a sequence without errors puts an error, if any, at the end.
LEMMA AppendResult ==
  ASSUME NEW s \in Seq(Results), NEW r \in Results,
         \A i \in 1..Len(s) : s[i].err = "nil"
  PROVE  LET t == Append(s, r)
         IN  /\ t # <<>> /\ t[Len(t)] = r
             /\ \A i \in 1..Len(t) : t[i].err # "nil" => i = Len(t)
             /\ r.err = "nil" => \A i \in 1..Len(t) : t[i].err = "nil"
OBVIOUS

\* What every step does to the items emitted: it keeps them, or appends what the
\* last helper returned, and it drops only when the context is done.
LEMMA EmittedStep ==
  ASSUME DupInv, [DupNext]_dupVars
  PROVE  /\ emitted \in Seq(Results)
         /\ \/ emitted' = emitted
            \/ /\ pc \in Running /\ pc' \in {"read", "cancel", "close", "done"}
               /\ \E r \in Results : emitted' = Append(emitted, r)
<1>0. DupTypeOK /\ emitted \in Seq(Results) /\ got \in Seq(Results) /\ out \in Seq(Results)
  BY DEF DupInv, DupTypeOK, emitted
<1>1. CASE \/ UNCHANGED dupVars \/ duplicates_Cancel \/ duplicates_Close
           \/ (Helpers \/ Environment) /\ UNCHANGED chanVars
  BY <1>0, <1>1 DEF dupVars, chanVars, duplicates_Cancel, duplicates_Close, emitted
<1>2. CASE duplicates_Enter
  <2>1. Err("ctx") \in Results
    BY ResultsType DEF Errors
  <2>2. got \o Append(out, Err("ctx")) = Append(got \o out, Err("ctx"))
    BY <1>0, <2>1, ConcatAppend
  <2>3. CASE ctx # "live"
    <3>1. emitted' = Append(emitted, Err("ctx")) /\ pc = "start" /\ pc' = "done"
      BY <1>2, <2>2, <2>3 DEF duplicates_Enter, emitted
    <3> QED
      BY <1>0, <2>1, <3>1 DEF Running
  <2>4. CASE ctx = "live"
    BY <1>0, <1>2, <2>4 DEF duplicates_Enter, emitted
  <2> QED
    BY <2>3, <2>4
<1>3. CASE duplicates_Sent
  <2>1. CASE ret.err = "nil"
    BY <1>0, <1>3, <2>1 DEF duplicates_Sent, emitted
  <2>2. CASE ret.err # "nil"
    BY <1>0, <1>3, <2>2, EmitEffect DEF duplicates_Sent, DupTypeOK, SockTypeOK, ctxTypeOK, Running
  <2> QED
    BY <2>1, <2>2
<1>4. CASE duplicates_Received
  BY <1>0, <1>4, EmitEffect DEF duplicates_Received, DupTypeOK, SockTypeOK, ctxTypeOK, Running
<1>5. CASE Reader
  BY <1>0, <1>5, ReaderEffect
<1>8. CASE QueryWithDuplicates_Refuse
  <2>1. Err("duplicates") \in Results
    BY ResultsType DEF Errors
  <2>2. got \o Append(out, Err("duplicates")) = Append(got \o out, Err("duplicates"))
    BY <1>0, <2>1, ConcatAppend
  <2>3. emitted' = Append(emitted, Err("duplicates")) /\ pc = "start" /\ pc' = "done"
    BY <1>8, <2>2 DEF QueryWithDuplicates_Refuse, emitted
  <2> QED
    BY <1>0, <2>1, <2>3 DEF Running
<1>6. \/ UNCHANGED dupVars \/ duplicates_Cancel \/ duplicates_Close
      \/ (Helpers \/ Environment) /\ UNCHANGED chanVars
      \/ duplicates_Enter \/ duplicates_Sent \/ duplicates_Received \/ Reader
      \/ QueryWithDuplicates_Refuse
  BY DEF DupNext, Duplicates, DupTerminated
<1> QED
  BY <1>0, <1>1, <1>2, <1>3, <1>4, <1>5, <1>6, <1>8

\* Steps that keep the items emitted and do not leave the loop.
LEMMA QuietStep ==
  ASSUME DupInv, emitted' = emitted, closed' = closed,
         ctx # "live" => ctx' # "live",
         pc' = pc \/ (pc \in Running /\ pc' \in Running /\ pc' # "start")
  PROVE  ErrorIsLast' /\ ErrorInv'
<1>1. ErrorIsLast /\ ErrorInv
  BY DEF DupInv
<1>2. ErrorIsLast'
  BY <1>1 DEF ErrorIsLast
<1> QED
  BY <1>1, <1>2 DEF ErrorInv, Running

\* Every step keeps errors at the end of what was emitted.
LEMMA ErrorStep ==
  ASSUME DupInv, [DupNext]_dupVars
  PROVE  ErrorIsLast' /\ ErrorInv'
<1>0. DupTypeOK /\ ErrorIsLast /\ ErrorInv /\ emitted \in Seq(Results) /\ ret \in Results
  BY EmittedStep DEF DupInv, DupTypeOK, SockTypeOK, ctxTypeOK
<1>1. CASE UNCHANGED dupVars
  <2>1. emitted' = emitted /\ closed' = closed /\ ctx' = ctx /\ pc' = pc
    BY <1>1 DEF dupVars, sockVars, chanVars, ctxVars, emitted
  <2> QED
    BY <2>1, QuietStep
<1>2. CASE duplicates_Enter
  <2>1. CASE ctx = "live"
    <3>1. emitted' = emitted /\ closed' = closed /\ ctx' = ctx /\ pc = "start" /\ pc' = "dial"
      BY <1>2, <2>1 DEF duplicates_Enter, ctxVars, emitted
    <3> QED
      BY <3>1, QuietStep DEF Running
  <2>2. CASE ctx # "live"
    <3>1. /\ emitted = <<>> /\ ctx' = ctx /\ closed' = TRUE /\ pc' = "done"
          /\ got' = got /\ out' = Append(out, Err("ctx"))
      BY <1>0, <1>2, <2>2 DEF duplicates_Enter, ctxVars, ErrorInv
    <3>2. Err("ctx") \in Results
      BY ResultsType DEF Errors
    <3>3. got \in Seq(Results) /\ out \in Seq(Results)
      BY <1>0 DEF DupTypeOK
    <3>4. emitted' = Append(emitted, Err("ctx"))
      BY <3>1, <3>2, <3>3, ConcatAppend DEF emitted
    <3>5. Len(emitted') = 1
      BY <3>1, <3>4
    <3> QED
      BY <2>2, <3>1, <3>5 DEF ErrorIsLast, ErrorInv, Running
  <2> QED
    BY <2>1, <2>2
<1>3. CASE duplicates_Sent \/ duplicates_Received
  <2>0. pc \in Running /\ pc # "done" /\ got' = got /\ ctx' = ctx /\ closed' = closed
    BY <1>3 DEF duplicates_Sent, duplicates_Received, ctxVars, Running
  <2>1. \A i \in 1..Len(emitted) : emitted[i].err = "nil"
    BY <1>0, <2>0 DEF ErrorInv
  <2>2. CASE emitMessageOrError(ret)
    <3>1. \/ emitted' = Append(emitted, ret)
          \/ emitted' = emitted /\ ctx # "live"
      BY <1>0, <2>0, <2>2, EmitEffect
    <3>2. pc' \in {"read", "cancel", "close"} /\ (pc' = "read" => ret.err = "nil")
                                          /\ (pc' # "read" => ret.err # "nil")
      BY <1>3 DEF duplicates_Sent, duplicates_Received
    <3>3. CASE emitted' = Append(emitted, ret)
      <4>1. /\ emitted' # <<>> /\ emitted'[Len(emitted')] = ret
            /\ \A i \in 1..Len(emitted') : emitted'[i].err # "nil" => i = Len(emitted')
            /\ ret.err = "nil" => \A i \in 1..Len(emitted') : emitted'[i].err = "nil"
        BY <1>0, <2>1, <3>3, AppendResult
      <4> QED
        BY <1>0, <2>0, <3>2, <4>1 DEF ErrorIsLast, ErrorInv, Running
    <3>4. CASE emitted' = emitted /\ ctx # "live"
      BY <1>0, <2>0, <2>1, <3>2, <3>4 DEF ErrorIsLast, ErrorInv, Running
    <3> QED
      BY <3>1, <3>3, <3>4
  <2>3. CASE ~emitMessageOrError(ret)
    <3>1. pc' = "read" /\ out' = out
      BY <1>3, <2>3 DEF duplicates_Sent, duplicates_Received
    <3>2. emitted' = emitted
      BY <2>0, <3>1 DEF emitted
    <3> QED
      BY <2>0, <3>1, <3>2, QuietStep DEF Running
  <2> QED
    BY <2>2, <2>3
<1>4. CASE duplicates_Cancel
  <2>1. /\ emitted' = emitted /\ closed' = closed /\ ctx' = ctx
        /\ pc = "cancel" /\ pc' = "close"
    BY <1>4 DEF duplicates_Cancel, chanVars, ctxVars, emitted
  <2> QED
    BY <1>0, <2>1 DEF ErrorIsLast, ErrorInv, Running
<1>5. CASE duplicates_Close
  <2>1. /\ emitted' = emitted /\ closed' = TRUE /\ ctx' = ctx
        /\ pc = "close" /\ pc' = "done"
    BY <1>5 DEF duplicates_Close, ctxVars, emitted
  <2> QED
    BY <1>0, <2>1 DEF ErrorIsLast, ErrorInv, Running
<1>6. CASE (Helpers \/ Environment) /\ UNCHANGED chanVars
  <2>1. emitted' = emitted /\ closed' = closed
    BY <1>6 DEF chanVars, emitted
  <2> QED
    BY <1>6, <2>1, SockEffect, QuietStep
<1>7. CASE Reader
  <2>1. emitted' = emitted /\ closed' = closed /\ ctx' = ctx /\ pc' = pc
    BY <1>0, <1>7, ReaderEffect DEF sockVars, ctxVars
  <2> QED
    BY <2>1, QuietStep
<1>8. CASE QueryWithDuplicates_Refuse
  <2>1. /\ emitted = <<>> /\ closed' = TRUE /\ pc' = "done"
        /\ got' = got /\ out' = Append(out, Err("duplicates"))
    BY <1>0, <1>8 DEF QueryWithDuplicates_Refuse, ErrorInv
  <2>2. Err("duplicates") \in Results /\ Err("duplicates").err = "duplicates"
    BY ResultsType DEF Errors, Err
  <2>3. got \in Seq(Results) /\ out \in Seq(Results)
    BY <1>0 DEF DupTypeOK
  <2>4. emitted' = Append(emitted, Err("duplicates"))
    BY <2>1, <2>2, <2>3, ConcatAppend DEF emitted
  <2>5. Len(emitted') = 1 /\ emitted'[1] = Err("duplicates") /\ emitted' # <<>>
    BY <2>1, <2>2, <2>4
  <2> QED
    BY <2>1, <2>2, <2>5 DEF ErrorIsLast, ErrorInv, Running
<1> QED
  BY <1>1, <1>2, <1>3, <1>4, <1>5, <1>6, <1>7, <1>8 DEF DupNext, Duplicates, DupTerminated

-----------------------------------------------------------------------------

\* Nothing is read or emitted before the query was sent.
LEMMA SendStep ==
  ASSUME DupInv, [DupNext]_dupVars
  PROVE  SendInv'
<1>0. DupTypeOK /\ SendInv
  BY DEF DupInv
<1> USE DEF SendInv, Sending
<1>1. CASE UNCHANGED dupVars
  BY <1>0, <1>1 DEF dupVars, sockVars, chanVars, connVars, netVars, emitted
<1>2. CASE duplicates_Enter
  BY <1>0, <1>2 DEF duplicates_Enter, connVars, netVars, emitted
<1>3. CASE duplicates_Sent
  BY <1>0, <1>3 DEF duplicates_Sent
<1>4. CASE duplicates_Received
  BY <1>0, <1>4 DEF duplicates_Received, connVars
<1>5. CASE duplicates_Cancel \/ duplicates_Close
  BY <1>0, <1>5 DEF duplicates_Cancel, duplicates_Close
<1>6. CASE (Helpers \/ Environment) /\ UNCHANGED chanVars
  <2>0. emitted' = emitted /\ dropped' = dropped
    BY <1>6 DEF chanVars, emitted
  <2>1. CASE sendQueryUDP
    BY <1>0, <2>0, <2>1 DEF sendQueryUDP, sendQueryUDP_Dial, sendQueryUDP_Pack,
       sendQueryUDP_Write, connVars, netVars
  <2>2. CASE \/ recvResponseUDP_Call \/ recvResponseUDP_Data
             \/ recvResponseUDP_Abort \/ recvResponseUDP_NetworkError
    BY <1>0, <2>2 DEF recvResponseUDP_Call, recvResponseUDP_Data,
       recvResponseUDP_Abort, recvResponseUDP_NetworkError, connVars
  <2>3. CASE closeOnDone
    BY <1>0, <2>0, <2>3 DEF closeOnDone, netVars
  <2>4. CASE Environment
    BY <1>0, <2>0, <2>4
    DEF Environment, Cancel, DeadlinePasses, ContextExpires, callerCancels,
    clockPassesDeadline, timerFires, Deliver, connVars, netVars
  <2> QED
    BY <1>6, <2>1, <2>2, <2>3, <2>4 DEF Helpers, sendQueryUDP
<1>7. CASE Reader
  BY <1>0, <1>7, ReaderEffect DEF sockVars, connVars, netVars
<1>8. CASE QueryWithDuplicates_Refuse
  BY <1>0, <1>8 DEF QueryWithDuplicates_Refuse, connVars, netVars, emitted
<1> QED
  BY <1>1, <1>2, <1>3, <1>4, <1>5, <1>6, <1>7, <1>8 DEF DupNext, Duplicates, DupTerminated

\* The flow with and without an item in hand.
LEMMA FlowValue ==
  ASSUME DupTypeOK
  PROVE  /\ emitted \in Seq(Results) /\ flow \in Seq(Results)
         /\ pc # "received" => flow = emitted
         /\ pc = "received" => flow = Append(emitted, ret)
<1>1. emitted \in Seq(Results) /\ ret \in Results
  BY DEF DupTypeOK, SockTypeOK, ctxTypeOK, emitted
<1>2. pc # "received" => flow = emitted
  BY <1>1 DEF flow, inHand
<1>3. pc = "received" => flow = Append(emitted, ret)
  BY <1>1 DEF flow, inHand
<1> QED
  BY <1>1, <1>2, <1>3

\* Steps that keep the flow, and may deliver one more datagram.
LEMMA FlowStable ==
  ASSUME DupInv, flow' = flow, nread' = nread, dropped' = dropped,
         arrived' = arrived \/ \E d \in Payloads : arrived' = Append(arrived, d),
         ctx' = "live" => ctx = "live", closer # "none",
         pc' \in {"read", "reading"} => Len(emitted') = nread,
         (pc' = "received" /\ ret'.err = "nil") => Len(emitted') + 1 = nread
  PROVE  FlowInv'
<1>1. SUFFICES ASSUME ctx' = "live", closer' # "none" PROVE FlowInv'
  BY DEF FlowInv
<1>2. \A i \in 1..nread : arrived'[i] = arrived[i]
  <2>1. arrived \in Seq(Payloads) /\ nread \in 0..Len(arrived)
    BY DEF DupInv, DupTypeOK, SockTypeOK, ctxTypeOK
  <2>2. CASE arrived' = arrived
    BY <2>2
  <2>3. CASE \E d \in Payloads : arrived' = Append(arrived, d)
    BY <2>1, <2>3
  <2> QED
    BY <2>2, <2>3
<1>3. /\ dropped = <<>>
      /\ Len(flow) = nread \/ Len(flow) = nread + 1
      /\ \A i \in 1..nread :
           /\ flow[i].err = "nil" => flow[i].msg = arrived[i]
           /\ flow[i].err # "nil" => flow[i].err = "unpack" /\ i = nread
  BY <1>1 DEF DupInv, FlowInv
<1>4. \A i \in 1..nread' :
        /\ flow'[i].err = "nil" => flow'[i].msg = arrived'[i]
        /\ flow'[i].err # "nil" => flow'[i].err = "unpack" /\ i = nread'
  BY <1>2, <1>3
<1> QED
  BY <1>3, <1>4 DEF FlowInv

\* A read that returns a datagram, or fails, extends the flow by one item.
LEMMA FlowExtended ==
  ASSUME DupInv, DupTypeOK', pc = "read" \/ pc = "reading", pc' = "received",
         emitted' = emitted, dropped' = dropped, arrived' = arrived,
         ctx' = ctx, closer' = closer,
         \/ nread' = nread /\ ret'.err \notin {"nil", "unpack"}
         \/ /\ nread' = nread + 1 /\ nread < Len(arrived)
            /\ ret' \in Unpack(arrived[nread + 1])
  PROVE  FlowInv'
<1>1. SUFFICES ASSUME ctx = "live", closer # "none" PROVE FlowInv'
  BY DEF FlowInv
<1>2. /\ flow = emitted /\ emitted \in Seq(Results) /\ Len(emitted) = nread
      /\ dropped = <<>> /\ nread \in Nat /\ arrived \in Seq(Payloads)
  BY <1>1, FlowValue DEF DupInv, FlowInv, DupTypeOK, SockTypeOK, ctxTypeOK
<1>3. \A i \in 1..nread : emitted[i].err = "nil" /\ emitted[i].msg = arrived[i]
  BY <1>1, <1>2 DEF DupInv, FlowInv, ErrorInv, Running
<1>4. flow' = Append(emitted, ret') /\ ret' \in Results
  <2>1. ret' \in Results
    BY DEF DupTypeOK, SockTypeOK, ctxTypeOK
  <2>2. flow' = emitted \o <<ret'>>
    BY DEF flow, inHand
  <2> QED
    BY <1>2, <2>1, <2>2
<1>5. /\ Len(flow') = nread + 1 /\ flow'[nread + 1] = ret'
      /\ \A i \in 1..nread : flow'[i] = emitted[i]
  BY <1>2, <1>4
<1>6. CASE nread' = nread /\ ret'.err \notin {"nil", "unpack"}
  BY <1>2, <1>3, <1>5, <1>6 DEF FlowInv
<1>7. CASE /\ nread' = nread + 1 /\ nread < Len(arrived)
           /\ ret' \in Unpack(arrived[nread + 1])
  <2>1. /\ ret'.err \in {"nil", "unpack"}
        /\ ret'.err = "nil" => ret'.msg = arrived[nread + 1]
    BY <1>2, <1>7, UnpackType
  <2>2. \A i \in 1..(nread + 1) :
          /\ flow'[i].err = "nil" => flow'[i].msg = arrived'[i]
          /\ flow'[i].err # "nil" => flow'[i].err = "unpack" /\ i = nread + 1
    BY <1>2, <1>3, <1>5, <2>1
  <2> QED
    BY <1>2, <1>5, <1>7, <2>2 DEF FlowInv
<1> QED
  BY <1>6, <1>7

\* While the context is live every step keeps the flow in agreement with the
\* datagrams.
LEMMA FlowStep ==
  ASSUME DupInv, DupTypeOK', [DupNext]_dupVars
  PROVE  FlowInv'
<1>0. DupTypeOK /\ FlowInv /\ SendInv /\ ErrorInv
  BY DEF DupInv
<1>1. CASE UNCHANGED dupVars
  BY <1>0, <1>1
  DEF dupVars, sockVars, chanVars, ctxVars, connVars, netVars, FlowInv, flow, emitted, inHand
<1>2. CASE duplicates_Enter
  BY <1>0, <1>2 DEF duplicates_Enter, connVars, SendInv, Sending, FlowInv
<1>3. CASE duplicates_Sent
  <2>1. nread = 0 /\ emitted = <<>> /\ dropped = <<>> /\ closer = "none"
    BY <1>0, <1>3 DEF duplicates_Sent, SendInv, Sending
  <2>2. CASE ret.err # "nil"
    BY <1>3, <2>1, <2>2 DEF duplicates_Sent, FlowInv
  <2>3. CASE ret.err = "nil"
    <3>1. /\ emitted' = <<>> /\ dropped' = <<>> /\ nread' = 0 /\ pc' = "read"
      BY <1>3, <2>1, <2>3 DEF duplicates_Sent, netVars, emitted
    <3>2. flow' = <<>>
      BY <3>1 DEF flow, inHand
    <3> QED
      BY <3>1, <3>2 DEF FlowInv
  <2> QED
    BY <2>2, <2>3
<1>4. CASE duplicates_Received
  <2>1. /\ pc = "received" /\ ctx' = ctx /\ nread' = nread /\ arrived' = arrived
        /\ closer' = closer /\ closer # "none" /\ got' = got
        /\ emitMessageOrError(ret)
        /\ pc' \in {"read", "cancel"} /\ (pc' = "read" => ret.err = "nil")
    BY <1>0, <1>4 DEF duplicates_Received, ctxVars, connVars, netVars, SendInv
  <2>2. CASE ctx # "live"
    BY <2>1, <2>2 DEF FlowInv
  <2>3. CASE ctx = "live"
    <3>1. emitted' = Append(emitted, ret) /\ dropped' = dropped
      BY <1>0, <2>1, <2>3, EmitEffect DEF DupTypeOK, SockTypeOK, ctxTypeOK
    <3>2. emitted \in Seq(Results) /\ ret \in Results /\ flow = Append(emitted, ret)
      BY <1>0, <2>1, FlowValue DEF DupTypeOK, SockTypeOK, ctxTypeOK
    <3>3. flow' = flow
      BY <2>1, <3>1, <3>2 DEF flow, inHand
    <3>4. pc' = "read" => Len(emitted') = nread
      BY <1>0, <2>1, <2>3, <3>1, <3>2 DEF FlowInv
    <3> QED
      BY <2>1, <3>1, <3>3, <3>4, FlowStable
  <2> QED
    BY <2>2, <2>3
<1>5. CASE duplicates_Cancel \/ duplicates_Close
  <2>1. /\ ctx' = ctx /\ nread' = nread /\ arrived' = arrived /\ dropped' = dropped
        /\ closer' = closer /\ emitted' = emitted
        /\ pc \in {"cancel", "close"} /\ pc' \in {"close", "done"}
    BY <1>5 DEF duplicates_Cancel, duplicates_Close, ctxVars, connVars, netVars,
       chanVars, emitted
  <2>2. flow' = flow
    BY <2>1 DEF flow, inHand
  <2> QED
    BY <2>1, <2>2, <1>0 DEF FlowInv
<1>6. CASE (Helpers \/ Environment) /\ UNCHANGED chanVars
  <2>0. emitted' = emitted /\ dropped' = dropped
    BY <1>6 DEF chanVars, emitted
  <2>1. CASE sendQueryUDP
    BY <1>0, <2>1 DEF sendQueryUDP, sendQueryUDP_Dial, sendQueryUDP_Pack,
       sendQueryUDP_Write, connVars, SendInv, Sending, FlowInv
  <2>2. CASE recvResponseUDP_Call /\ pc' = "reading"
    <3>1. /\ pc = "read" /\ ctx' = ctx /\ nread' = nread /\ arrived' = arrived
          /\ closer' = closer
      BY <2>2 DEF recvResponseUDP_Call, ctxVars, connVars, netVars
    <3>2. flow' = flow
      BY <2>0, <2>2, <3>1 DEF flow, inHand
    <3> QED
      BY <1>0, <2>0, <2>2, <3>1, <3>2 DEF FlowInv
  <2>3. CASE recvResponseUDP_Call /\ pc' # "reading"
    <3>1. /\ pc = "read" /\ pc' = "received" /\ arrived' = arrived /\ ctx' = ctx
          /\ closer' = closer /\ nread' = nread /\ ret'.err \notin {"nil", "unpack"}
      BY <2>3 DEF recvResponseUDP_Call, ctxVars, connVars, netVars, Err
    <3> QED
      BY <2>0, <3>1, FlowExtended
  <2>4. CASE recvResponseUDP_Data
    BY <2>0, <2>4, FlowExtended DEF recvResponseUDP_Data, ctxVars, connVars
  <2>5. CASE recvResponseUDP_Abort \/ recvResponseUDP_NetworkError
    <3>1. /\ pc = "reading" /\ pc' = "received" /\ arrived' = arrived /\ ctx' = ctx
          /\ closer' = closer /\ nread' = nread /\ ret'.err \notin {"nil", "unpack"}
      BY <2>5 DEF recvResponseUDP_Abort, recvResponseUDP_NetworkError, ctxVars,
         connVars, netVars, Err
    <3> QED
      BY <2>0, <3>1, FlowExtended
  <2>6. CASE closeOnDone \/ Environment
    <3>1. /\ pc' = pc /\ ret' = ret /\ nread' = nread
          /\ arrived' = arrived \/ \E d \in Payloads : arrived' = Append(arrived, d)
          /\ ctx' = "live" => ctx = "live"
          /\ closer' # "none" => closer # "none"
      BY <2>6 DEF closeOnDone, Environment, Cancel, DeadlinePasses, ContextExpires, callerCancels,
    clockPassesDeadline, timerFires,
         Deliver, ctxVars, connVars, netVars
    <3>2. flow' = flow
      BY <2>0, <3>1 DEF flow, inHand
    <3>3. CASE ctx' # "live" \/ closer' = "none"
      BY <3>3 DEF FlowInv
    <3>4. CASE ctx' = "live" /\ closer' # "none"
      BY <1>0, <2>0, <3>1, <3>2, <3>4, FlowStable DEF FlowInv
    <3> QED
      BY <3>3, <3>4
  <2> QED
    BY <1>6, <2>1, <2>2, <2>3, <2>4, <2>5, <2>6 DEF Helpers, sendQueryUDP
<1>7. CASE Reader
  <2>1. /\ emitted' = emitted /\ dropped' = dropped
        /\ UNCHANGED <<ctx, closer, pc, ret, nread, arrived>>
    BY <1>0, <1>7, ReaderEffect DEF sockVars, ctxVars, connVars, netVars
  <2>2. flow' = flow
    BY <2>1 DEF flow, inHand
  <2> QED
    BY <1>0, <2>1, <2>2 DEF FlowInv
<1>8. CASE QueryWithDuplicates_Refuse
  BY <1>0, <1>8 DEF QueryWithDuplicates_Refuse, connVars, SendInv, Sending, FlowInv
<1> QED
  BY <1>1, <1>2, <1>3, <1>4, <1>5, <1>6, <1>7, <1>8 DEF DupNext, Duplicates, DupTerminated

-----------------------------------------------------------------------------

\* The invariant holds in every reachable state.
THEOREM DupInvariance == DupSpec => []DupInv
<1>1. ASSUME DupInv, [DupNext]_dupVars PROVE DupInv'
  BY <1>1, DupTypeStep, ErrorStep, SendStep, FlowStep DEF DupInv
<1> QED
  BY DupInitInv, <1>1, PTL DEF DupSpec

\* The channel never holds more than its capacity and all values keep their
\* types.
THEOREM DupTypeCorrect == DupSpec => []DupTypeOK
BY DupInvariance, PTL DEF DupInv

\* queryUDPWithDuplicates emits at most one error, and nothing after it.
THEOREM ErrorEndsChannel == DupSpec => []ErrorIsLast
BY DupInvariance, PTL DEF DupInv

\* A channel that is closed without an error at its end belongs to a context
\* that is done.
THEOREM NoSilentClose == DupSpec => []SilentCloseOnlyWhenDone
<1>1. DupInv => SilentCloseOnlyWhenDone
  BY DEF DupInv, ErrorInv, Running, SilentCloseOnlyWhenDone
<1> QED
  BY <1>1, DupInvariance, PTL

\* With a live context every datagram read is emitted once and in order,
\* whatever the capacity of the channel and the speed of the reader.
THEOREM NoLoss == DupSpec => []NoLossWhileLive
<1>1. DupInv => NoLossWhileLive
  BY DEF DupInv, DupTypeOK, SockTypeOK, ctxTypeOK, FlowInv, flow, NoLossWhileLive
<1> QED
  BY <1>1, DupInvariance, PTL

\* No step sends to a closed channel.
THEOREM ClosedIsFinal == DupSpec => NoSendAfterClose
<1>1. ASSUME DupInv, [DupNext]_dupVars PROVE [closed => emitted' = emitted]_dupVars
  BY <1>1, EmittedStep DEF DupInv, ErrorInv, Running
<1> QED
  BY <1>1, DupInvariance, PTL DEF DupSpec, NoSendAfterClose
-----------------------------------------------------------------------------
\* What must eventually happen.  That an action is enabled where NeverStuck says
\* so is an invariant that TLC checks; the theorems derive the rest from it and
\* from the fairness.

\* The goroutine that guards the connection has closed it when it is gone, and
\* it is told to do so before the channel is closed.
CloserInv ==
  /\ closer = "exited" => conn = "closed"
  /\ pc \in {"close", "done"} /\ closer # "none" => cancelled

\* The control points that a step leads to.
Moves ==
  \/ UNCHANGED <<pc, ret>>
  \/ pc = "start" /\ (pc' = "done" \/ (pc' = "dial" /\ ctx = "live"))
  \/ pc = "dial" /\ pc' \in {"pack", "sent"}
  \/ pc = "pack" /\ pc' \in {"write", "sent"}
  \/ pc = "write" /\ pc' = "sent"
  \/ pc = "sent" /\ pc' \in {"close", "read"}
  \/ pc = "read" /\ pc' = "reading" /\ conn # "closed"
  \/ pc = "read" /\ pc' = "received" /\ ret'.err # "nil"
  \/ pc = "reading" /\ pc' = "received"
  \/ pc = "received" /\ pc' = "read" /\ ret.err = "nil"
  \/ pc = "received" /\ pc' = "cancel" /\ ret.err # "nil"
  \/ pc = "cancel" /\ pc' = "close"
  \/ pc = "close" /\ pc' = "done"

\* What the steps have in common: how the control moves, and that the context
\* and the clock do not go back.
LEMMA ControlStep ==
  ASSUME DupInv, [DupNext]_dupVars
  PROVE  /\ Moves
         /\ ctx # "live" => ctx' # "live"
         /\ hasDeadline => hasDeadline'
         /\ late => late'
<1>1. CASE UNCHANGED dupVars
  BY <1>1 DEF dupVars, sockVars, ctxVars, Moves
<1>2. CASE duplicates_Enter \/ QueryWithDuplicates_Refuse
  BY <1>2 DEF duplicates_Enter, QueryWithDuplicates_Refuse, ctxVars, Moves
<1>3. CASE duplicates_Sent \/ duplicates_Received
  BY <1>3 DEF duplicates_Sent, duplicates_Received, ctxVars, Moves
<1>4. CASE duplicates_Cancel \/ duplicates_Close
  BY <1>4 DEF duplicates_Cancel, duplicates_Close, ctxVars, Moves
<1>5. CASE sendQueryUDP
  BY <1>5 DEF sendQueryUDP, sendQueryUDP_Dial, sendQueryUDP_Pack, sendQueryUDP_Write,
     ctxVars, Moves
<1>6. CASE recvResponseUDP_Call
  BY <1>6 DEF recvResponseUDP_Call, Err, ctxVars, Moves
<1>7. CASE \/ recvResponseUDP_Data \/ recvResponseUDP_Abort
           \/ recvResponseUDP_NetworkError
  BY <1>7 DEF recvResponseUDP_Data, recvResponseUDP_Abort, recvResponseUDP_NetworkError,
     ctxVars, Moves
<1>8. CASE closeOnDone
  BY <1>8 DEF closeOnDone, ctxVars, Moves
<1>9. CASE Environment
  BY <1>9 DEF Environment, Cancel, DeadlinePasses, ContextExpires, callerCancels,
     clockPassesDeadline, timerFires, Deliver, ctxVars, Moves
<1>10. CASE Reader
  BY <1>10, ReaderEffect DEF DupInv, sockVars, ctxVars, Moves
<1> QED
  BY <1>1, <1>2, <1>3, <1>4, <1>5, <1>6, <1>7, <1>8, <1>9, <1>10
  DEF DupNext, Duplicates, DupTerminated, Helpers, sendQueryUDP

\* How the goroutine that guards the connection moves.
LEMMA CloserStep ==
  ASSUME DupInv, CloserInv, [DupNext]_dupVars
  PROVE  /\ CloserInv'
         /\ closer = "waiting" => closer' \in {"waiting", "exited"}
         /\ closer = "exited" => closer' = "exited"
         /\ cancelled => cancelled'
<1>0. /\ pc \in Sending => closer = "none"
      /\ pc \in {"read", "reading", "received", "cancel"} => closer # "none"
  BY DEF DupInv, SendInv
<1> USE DEF CloserInv, Sending
<1>1. CASE UNCHANGED dupVars
  BY <1>1 DEF dupVars, sockVars, connVars
<1>2. CASE duplicates_Enter \/ QueryWithDuplicates_Refuse
  BY <1>0, <1>2 DEF duplicates_Enter, QueryWithDuplicates_Refuse, connVars
<1>3. CASE duplicates_Sent \/ duplicates_Received
  BY <1>0, <1>3 DEF duplicates_Sent, duplicates_Received, connVars
<1>4. CASE duplicates_Cancel \/ duplicates_Close
  BY <1>0, <1>4 DEF duplicates_Cancel, duplicates_Close, connVars
<1>5. CASE sendQueryUDP
  BY <1>0, <1>5 DEF sendQueryUDP, sendQueryUDP_Dial, sendQueryUDP_Pack,
     sendQueryUDP_Write, connVars
<1>6. CASE \/ recvResponseUDP_Call \/ recvResponseUDP_Data
           \/ recvResponseUDP_Abort \/ recvResponseUDP_NetworkError
  BY <1>6 DEF recvResponseUDP_Call, recvResponseUDP_Data, recvResponseUDP_Abort,
     recvResponseUDP_NetworkError, connVars
<1>7. CASE closeOnDone
  BY <1>7 DEF closeOnDone
<1>8. CASE Environment
  BY <1>8 DEF Environment, Cancel, DeadlinePasses, ContextExpires, Deliver, connVars
<1>9. CASE Reader
  BY <1>9, ReaderEffect DEF DupInv, sockVars, connVars
<1> QED
  BY <1>1, <1>2, <1>3, <1>4, <1>5, <1>6, <1>7, <1>8, <1>9
  DEF DupNext, Duplicates, DupTerminated, Helpers, sendQueryUDP

\* CloserInv is an invariant.
LEMMA CloserInvariance == DupSpec => []CloserInv
<1>1. DupInit => CloserInv
  BY DEF DupInit, SockInit, CloserInv
<1> QED
  BY <1>1, CloserStep, DupInvariance, PTL DEF DupSpec

\* The distance from the end once the context is done.  While the guard of the
\* connection has not closed it yet, the loop may go round.
Distance ==
  CASE pc = "start"  -> 12
    [] pc = "dial"   -> 11
    [] pc = "pack"   -> 10
    [] pc = "write"  -> 9
    [] pc = "sent"   -> 8
    [] pc \in {"read", "reading", "received"} /\ closer = "waiting" -> 7
    [] pc = "reading" /\ closer # "waiting" -> 6
    [] pc = "received" /\ closer # "waiting" /\ ret.err = "nil" -> 5
    [] pc = "read" /\ closer # "waiting" -> 4
    [] pc = "received" /\ closer # "waiting" /\ ret.err # "nil" -> 3
    [] pc = "cancel" -> 2
    [] pc = "close"  -> 1
    [] OTHER -> 0

Below(k) == ctx # "live" /\ Distance < k

\* The invariants the arguments below rest on.
LiveInv == DupInv /\ CloserInv

\* Once the context is done no step leads away from the end, and every step that
\* changes the control leads nearer to it, except in the loop of a connection
\* that is still open.
LEMMA DistanceStep ==
  ASSUME LiveInv, [DupNext]_dupVars, ctx # "live"
  PROVE  /\ ctx' # "live" /\ Distance \in 0..12 /\ Distance' \in 0..12
         /\ Distance' <= Distance
         /\ pc' # pc => Distance' < Distance \/ Distance = 7
         /\ Distance = 7 /\ closer' # "waiting" => Distance' < Distance
<1>0. /\ pc \in Sending => closer = "none"
      /\ pc \in {"read", "reading", "received"} => closer # "none"
      /\ closer = "exited" => conn = "closed"
      /\ closer \in {"none", "waiting", "exited"}
      /\ pc \in {"start", "dial", "pack", "write", "sent", "read", "reading",
                "received", "cancel", "close", "done"}
  BY DEF LiveInv, DupInv, SendInv, CloserInv, DupTypeOK, SockTypeOK
<1>1. /\ Moves /\ ctx' # "live"
      /\ closer = "waiting" => closer' \in {"waiting", "exited"}
      /\ closer = "exited" => closer' = "exited"
  BY ControlStep, CloserStep DEF LiveInv
<1>2. (closer' # "none" \/ pc' \notin {"read", "reading", "received"})
  <2>1. DupInv'
    BY DupTypeStep, ErrorStep, SendStep, FlowStep DEF LiveInv, DupInv
  <2> QED BY <2>1 DEF DupInv, SendInv
<1> QED
  BY <1>0, <1>1, <1>2 DEF Moves, Distance, Sending

\* From each distance the fair action that NeverStuck names leads nearer to the
\* end: the goroutine of the loop goes on.
LEMMA DuplicatesGoesOn ==
  DupFairSpec /\ []NeverStuck =>
       /\ Below(2) ~> Below(1)
       /\ Below(3) ~> Below(2)
       /\ Below(4) ~> Below(3)
       /\ Below(6) ~> Below(5)
       /\ Below(9) ~> Below(8)
       /\ Below(13) ~> Below(12)
<1> DEFINE At(k) == ctx # "live" /\ Distance = k
           Rung(k, j) ==
             /\ LiveInv /\ Below(j) => At(k) \/ Below(k)
             /\ LiveInv /\ At(k) /\ [DupNext]_dupVars => At(k)' \/ Below(k)'
             /\ LiveInv /\ At(k) /\ [DupNext]_dupVars /\ <<Duplicates>>_dupVars => Below(k)'
             /\ LiveInv /\ NeverStuck /\ At(k) => ENABLED <<Duplicates>>_dupVars
<1>1. ASSUME NEW k \in {1, 2, 3, 5, 8, 12} PROVE Rung(k, k + 1)
  <2>1. LiveInv /\ Below(k + 1) => At(k) \/ Below(k)
    BY DEF Below, Distance
  <2>2. LiveInv /\ At(k) /\ [DupNext]_dupVars => At(k)' \/ Below(k)'
    BY DistanceStep DEF Below
  <2>3. LiveInv /\ At(k) /\ [DupNext]_dupVars /\ <<Duplicates>>_dupVars => Below(k)'
    <3> SUFFICES ASSUME LiveInv, At(k), [DupNext]_dupVars, Duplicates PROVE Below(k)'
      BY Zenon
    <3>1. pc' # pc
      BY DEF Duplicates, QueryWithDuplicates_Refuse, duplicates_Enter, duplicates_Sent,
         duplicates_Received, duplicates_Cancel, duplicates_Close
    <3> QED BY <3>1, DistanceStep DEF Below
  <2>4. LiveInv /\ NeverStuck /\ At(k) => ENABLED <<Duplicates>>_dupVars
    <3> SUFFICES ASSUME LiveInv, NeverStuck, At(k) PROVE ENABLED <<Duplicates>>_dupVars
      OBVIOUS
    <3>1. pc \in {"start", "sent", "received", "cancel", "close"}
      BY DEF Distance
    <3> QED BY <3>1, Zenon DEF NeverStuck
  <2> HIDE DEF At
  <2> QED BY <2>1, <2>2, <2>3, <2>4, Zenon
<1> HIDE DEF At, Rung
<1>2. Rung(1, 2) /\ Rung(2, 3) /\ Rung(3, 4)
      /\ Rung(5, 6) /\ Rung(8, 9) /\ Rung(12, 13)
  BY <1>1
<1> QED
  BY <1>2, DupInvariance, CloserInvariance, PTL DEF Rung, DupFairSpec, DupSpec, LiveInv

\* The query is sent, or not.
LEMMA sendQueryUDPGoesOn ==
  DupFairSpec /\ []NeverStuck =>
       /\ Below(10) ~> Below(9)
       /\ Below(11) ~> Below(10)
       /\ Below(12) ~> Below(11)
<1> DEFINE At(k) == ctx # "live" /\ Distance = k
           Rung(k, j) ==
             /\ LiveInv /\ Below(j) => At(k) \/ Below(k)
             /\ LiveInv /\ At(k) /\ [DupNext]_dupVars => At(k)' \/ Below(k)'
             /\ LiveInv /\ At(k) /\ [DupNext]_dupVars /\ <<sendQueryUDP>>_sockVars => Below(k)'
             /\ LiveInv /\ NeverStuck /\ At(k) => ENABLED <<sendQueryUDP>>_sockVars
<1>1. ASSUME NEW k \in {9, 10, 11} PROVE Rung(k, k + 1)
  <2>1. LiveInv /\ Below(k + 1) => At(k) \/ Below(k)
    BY DEF Below, Distance
  <2>2. LiveInv /\ At(k) /\ [DupNext]_dupVars => At(k)' \/ Below(k)'
    BY DistanceStep DEF Below
  <2>3. LiveInv /\ At(k) /\ [DupNext]_dupVars /\ <<sendQueryUDP>>_sockVars => Below(k)'
    <3> SUFFICES ASSUME LiveInv, At(k), [DupNext]_dupVars, sendQueryUDP PROVE Below(k)'
      BY Zenon
    <3>1. pc' # pc
      BY DEF sendQueryUDP, sendQueryUDP_Dial, sendQueryUDP_Pack, sendQueryUDP_Write
    <3> QED BY <3>1, DistanceStep DEF Below
  <2>4. LiveInv /\ NeverStuck /\ At(k) => ENABLED <<sendQueryUDP>>_sockVars
    <3> SUFFICES ASSUME LiveInv, NeverStuck, At(k) PROVE ENABLED <<sendQueryUDP>>_sockVars
      OBVIOUS
    <3>1. pc \in {"dial", "pack", "write"}
      BY DEF Distance
    <3> QED BY <3>1, Zenon DEF NeverStuck
  <2> HIDE DEF At
  <2> QED BY <2>1, <2>2, <2>3, <2>4, Zenon
<1> HIDE DEF At, Rung
<1>2. Rung(9, 10) /\ Rung(10, 11) /\ Rung(11, 12)
  BY <1>1
<1> QED
  BY <1>2, DupInvariance, CloserInvariance, PTL DEF Rung, DupFairSpec, DupSpec, SockFairness, LiveInv

\* The goroutine that guards the connection closes it.
LEMMA closeOnDoneGoesOn == DupFairSpec /\ []NeverStuck => (Below(8) ~> Below(7))
<1> DEFINE P == ctx # "live" /\ Distance = 7
<1>1. LiveInv /\ P /\ [DupNext]_dupVars => P' \/ Below(7)'
  BY DistanceStep DEF Below
<1>2. LiveInv /\ P /\ [DupNext]_dupVars /\ <<closeOnDone>>_sockVars => Below(7)'
  <2> SUFFICES ASSUME LiveInv, P, [DupNext]_dupVars, closeOnDone PROVE Below(7)'
    BY Zenon
  <2>1. closer' # "waiting"
    BY DEF closeOnDone
  <2> QED BY <2>1, DistanceStep DEF Below
<1>3. LiveInv /\ NeverStuck /\ P => ENABLED <<closeOnDone>>_sockVars
  <2> SUFFICES ASSUME LiveInv, NeverStuck, P PROVE ENABLED <<closeOnDone>>_sockVars
    OBVIOUS
  <2>1. closer = "waiting" /\ derivedDone
    BY DEF Distance, derivedDone
  <2> QED BY <2>1, Zenon DEF NeverStuck
<1>4. LiveInv /\ Below(8) => P \/ Below(7)
  BY DEF Below, Distance
<1> QED
  BY <1>1, <1>2, <1>3, <1>4, DupInvariance, CloserInvariance, PTL
  DEF DupFairSpec, DupSpec, SockFairness, LiveInv

\* A read of a closed connection returns, and so does the call of one.
LEMMA recvResponseUDPGoesOn ==
  DupFairSpec /\ []NeverStuck => (Below(7) ~> Below(6)) /\ (Below(5) ~> Below(4))
<1> DEFINE P == ctx # "live" /\ Distance = 6
           Q == ctx # "live" /\ Distance = 4
<1>1. /\ LiveInv /\ P /\ [DupNext]_dupVars => P' \/ Below(6)'
      /\ LiveInv /\ Q /\ [DupNext]_dupVars => Q' \/ Below(4)'
  BY DistanceStep DEF Below
<1>2. LiveInv /\ P /\ [DupNext]_dupVars /\ <<recvResponseUDP_Abort>>_sockVars => Below(6)'
  <2> SUFFICES ASSUME LiveInv, P, [DupNext]_dupVars, recvResponseUDP_Abort PROVE Below(6)'
    BY Zenon
  <2>1. pc' # pc
    BY DEF recvResponseUDP_Abort
  <2> QED BY <2>1, DistanceStep DEF Below
<1>3. LiveInv /\ Q /\ [DupNext]_dupVars /\ <<recvResponseUDP_Call>>_sockVars => Below(4)'
  <2> SUFFICES ASSUME LiveInv, Q, [DupNext]_dupVars, recvResponseUDP_Call PROVE Below(4)'
    BY Zenon
  <2>1. pc' # pc
    BY DEF recvResponseUDP_Call
  <2> QED BY <2>1, DistanceStep DEF Below
<1>4. LiveInv /\ NeverStuck /\ P => ENABLED <<recvResponseUDP_Abort>>_sockVars
  <2> SUFFICES ASSUME LiveInv, NeverStuck, P PROVE ENABLED <<recvResponseUDP_Abort>>_sockVars
    OBVIOUS
  <2>1. pc = "reading" /\ closer # "waiting"
    BY DEF Distance
  <2>2. conn = "closed"
    BY <2>1 DEF LiveInv, DupInv, DupTypeOK, SockTypeOK, SendInv, CloserInv
  <2> QED BY <2>1, <2>2, Zenon DEF NeverStuck
<1>5. LiveInv /\ NeverStuck /\ Q => ENABLED <<recvResponseUDP_Call>>_sockVars
  <2> SUFFICES ASSUME LiveInv, NeverStuck, Q PROVE ENABLED <<recvResponseUDP_Call>>_sockVars
    OBVIOUS
  <2>1. pc = "read"
    BY DEF Distance
  <2> QED BY <2>1, Zenon DEF NeverStuck
<1>6. /\ LiveInv /\ Below(7) => P \/ Below(6)
      /\ LiveInv /\ Below(5) => Q \/ Below(4)
  BY DEF Below, Distance
<1> QED
  BY <1>1, <1>2, <1>3, <1>4, <1>5, <1>6, DupInvariance, CloserInvariance, PTL
  DEF DupFairSpec, DupSpec, SockFairness, LiveInv

\* A context with a deadline expires.
LEMMA DeadlineExpires ==
  DupFairSpec /\ []NeverStuck => (hasDeadline ~> ctx # "live")
<1> DEFINE P == hasDeadline /\ ~late
           Q == late /\ ctx = "live"
           D == ctx # "live"
<1>1. /\ DupInv /\ P /\ [DupNext]_dupVars => P' \/ late'
      /\ DupInv /\ Q /\ [DupNext]_dupVars => Q' \/ D'
  BY ControlStep
<1>2. /\ <<DeadlinePasses>>_sockVars => late'
      /\ <<ContextExpires>>_sockVars => D'
  BY DEF DeadlinePasses, ContextExpires, clockPassesDeadline, timerFires
<1>3. /\ NeverStuck /\ P => ENABLED <<DeadlinePasses>>_sockVars
      /\ NeverStuck /\ Q => ENABLED <<ContextExpires>>_sockVars
  BY Zenon DEF NeverStuck
<1>4. /\ hasDeadline => P \/ late
      /\ late => Q \/ D
  OBVIOUS
<1> QED
  BY <1>1, <1>2, <1>3, <1>4, DupInvariance, PTL DEF DupFairSpec, DupSpec, SockFairness

\* DoneContextCloses for every capacity of the channel and any number of
\* datagrams: once the context is done, or will be because of its deadline, the
\* channel is closed, whether somebody reads it or not.
THEOREM ChannelIsClosed == DupFairSpec /\ []NeverStuck => DoneContextCloses
<1>1. LiveInv /\ ctx # "live" => Below(13)
  BY DEF Below, Distance
<1>2. LiveInv /\ Below(1) => closed
  BY DEF Below, Distance, LiveInv, DupInv, DupTypeOK, ErrorInv
<1> QED
  BY <1>1, <1>2, DuplicatesGoesOn, sendQueryUDPGoesOn, closeOnDoneGoesOn,
     recvResponseUDPGoesOn, DeadlineExpires,
     DupInvariance, CloserInvariance, PTL
  DEF DupFairSpec, LiveInv, DoneContextCloses

\* ConnReleased for every capacity of the channel and any number of datagrams:
\* after the channel is closed the connection is closed and its guard is gone.
THEOREM ConnIsReleased == DupFairSpec /\ []NeverStuck => ConnReleased
<1> DEFINE P == closer = "waiting" /\ cancelled
           Q == closer = "exited" /\ conn = "closed"
<1>1. LiveInv /\ P /\ [DupNext]_dupVars => P' \/ Q'
  BY CloserStep DEF LiveInv, CloserInv
<1>2. <<closeOnDone>>_sockVars => Q'
  BY DEF closeOnDone
<1>3. NeverStuck /\ P => ENABLED <<closeOnDone>>_sockVars
  BY Zenon DEF NeverStuck, derivedDone
<1>4. LiveInv /\ closed /\ closer # "none" => P \/ Q
  BY DEF LiveInv, DupInv, DupTypeOK, SockTypeOK, ErrorInv, CloserInv
<1> QED
  BY <1>1, <1>2, <1>3, <1>4, DupInvariance, CloserInvariance, PTL
  DEF DupFairSpec, DupSpec, SockFairness, LiveInv, ConnReleased
=============================================================================
