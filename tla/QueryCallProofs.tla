--------------------------- MODULE QueryCallProofs ---------------------------
(***************************************************************************)
(* Lemmas about what the transports have in common: results, the parsing of *)
(* what was received, the context, and the view QueryContract has of a call. *)
(***************************************************************************)
EXTENDS QueryCall, TLAPS

\* Errors and messages are results.
LEMMA ResultsType ==
  /\ Nothing \in Results
  /\ \A e \in Errors : Err(e) \in Results
  /\ \A m \in Msgs, w \in BOOLEAN : Msg(m, w) \in Results
BY DEF Results, Nothing, Err, Msg

\* An error as a result.
LEMMA ErrorResult ==
  ASSUME NEW e \in Errors PROVE Err(e) \in Results /\ Err(e).err = e /\ e # "nil"
BY ResultsType DEF Err, Errors

\* The errors of an aborted operation.
LEMMA AbortErrors == {"ctx", "closed", "timeout"} \subseteq Errors
BY DEF Errors

\* What dns.Msg.Unpack makes of the first n bytes of a payload: an error, the
\* message, or a part of it if there are fewer bytes than it has.
LEMMA PrefixType ==
  ASSUME NEW d \in Payloads, NEW n \in Nat, NEW r \in UnpackPrefix(d, n)
  PROVE  \/ r = Err("unpack")
         \/ /\ d \in Msgs
            /\ r = Msg(d, TRUE) \/ (r = Msg(d, FALSE) /\ n < Size[d])
<1>1. Size[d] \in Nat
  BY CallAssumption
<1>2. CASE d = Garbage \/ n < HeaderSize
  BY <1>2 DEF UnpackPrefix
<1>3. CASE ~(d = Garbage \/ n < HeaderSize) /\ Size[d] <= n
  BY <1>3 DEF UnpackPrefix, Payloads
<1>4. CASE ~(d = Garbage \/ n < HeaderSize) /\ ~(Size[d] <= n)
  <2>1. d \in Msgs /\ n < Size[d]
    BY <1>1, <1>4 DEF Payloads
  <2>2. r \in {Err("unpack"), Msg(d, FALSE)}
    BY <1>4 DEF UnpackPrefix
  <2> QED
    BY <2>1, <2>2
<1> QED
  BY <1>2, <1>3, <1>4

\* The parsed value as a result.
LEMMA PrefixResult ==
  ASSUME NEW d \in Payloads, NEW n \in Nat, NEW r \in UnpackPrefix(d, n)
  PROVE  /\ r \in Results
         /\ r.err \in {"nil", "unpack"}
         /\ r.err = "nil" => /\ r.msg = d /\ d \in Msgs
                             /\ ~r.whole => n < Size[d]
<1>1. CASE r = Err("unpack")
  BY <1>1, ResultsType DEF Err, Errors
<1>2. CASE r = Msg(d, TRUE) /\ d \in Msgs
  BY <1>2, ResultsType DEF Msg
<1>3. CASE r = Msg(d, FALSE) /\ d \in Msgs /\ n < Size[d]
  BY <1>3, ResultsType DEF Msg
<1> QED
  BY <1>1, <1>2, <1>3, PrefixType

\* Neither a done context nor a passed deadline comes back.
LEMMA ContextStep ==
  ASSUME ctxTypeOK, callerCancels \/ clockPassesDeadline \/ timerFires
  PROVE  /\ ctxTypeOK'
         /\ ctx # "live" => ctx' # "live"
         /\ late => late'
         /\ hasDeadline' = hasDeadline /\ extra' = extra
BY DEF ctxTypeOK, callerCancels, clockPassesDeadline, timerFires

\* The context starts well formed.
LEMMA ContextInit == ctxInit => ctxTypeOK
<1> SUFFICES ASSUME ctxInit PROVE ctxTypeOK
  OBVIOUS
<1>1. late \in BOOLEAN /\ ctx \in {"live", "canceled", "expired"}
  BY Zenon DEF ctxInit
<1> QED
  BY <1>1 DEF ctxInit, ctxTypeOK

-----------------------------------------------------------------------------

\* The outcome of a call that has not returned.
LEMMA OutcomePending ==
  ASSUME NEW r PROVE Outcome(FALSE, r) = [kind |-> "none", msg |-> None]
BY DEF Outcome

\* The outcome of a call that has returned an error.
LEMMA OutcomeError ==
  ASSUME NEW e \in Errors
  PROVE  Outcome(TRUE, Err(e)) =
           [kind |-> IF e \in {"ctx", "closed", "timeout"} THEN "aborted" ELSE "failed",
            msg  |-> None]
BY DEF Outcome, Err, Errors

\* The outcome of a call that has returned a message.
LEMMA OutcomeMessage ==
  ASSUME NEW m, NEW w PROVE Outcome(TRUE, Msg(m, w)) = [kind |-> "message", msg |-> m]
BY DEF Outcome, Msg
=============================================================================
