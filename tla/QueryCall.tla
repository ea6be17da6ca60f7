----------------------------- MODULE QueryCall -----------------------------
(***************************************************************************)
(* What the transports have in common: the query and the context of one      *)
(* call, the clock, the results, and the parsing of what was received.       *)
(***************************************************************************)
EXTENDS Integers, Sequences

CONSTANTS
  Msgs,      \* well formed DNS messages that may be received
  Garbage,   \* bytes that dns.Msg.Unpack rejects
  Size,      \* Size[d] is the number of bytes of a message or of the garbage
  None,      \* the nil message
  Extras     \* the additional sections the query may have

Payloads == Msgs \cup {Garbage}

ASSUME CallAssumption ==
  /\ Garbage \notin Msgs /\ None \notin Msgs
  /\ Size \in [Payloads -> Nat]

VARIABLES
  ctx,           \* the caller's context: "live", "canceled" or "expired"
  hasDeadline,   \* ctx.Deadline() reports a deadline
  late,          \* the deadline has passed on the clock
  extra          \* query.Extra

ctxVars  == <<ctx, hasDeadline, late, extra>>

\* "toolarge" is ErrQueryTooLargeForTransport, "misbehaving" is
\* ErrServerMisbehaving, "protocol" is ErrNoSuchTransportProtocol and
\* "duplicates" is ErrTransportCannotReceiveDuplicates.
Errors == {"ctx", "dial", "pack", "write", "timeout", "closed", "net", "unpack",
           "toolarge", "eof", "request", "misbehaving", "protocol", "duplicates"}

\* A MessageOrError; whole tells a complete message from a truncated one.
Err(e) == [err |-> e, msg |-> None, whole |-> FALSE]
Msg(m, whole) == [err |-> "nil", msg |-> m, whole |-> whole]
Nothing == [err |-> "nil", msg |-> None, whole |-> FALSE]
Results == [err : Errors \cup {"nil"}, msg : Msgs \cup {None}, whole : BOOLEAN]

\* The result of a call as QueryContract sees it.
Outcome(returned, r) ==
  IF ~returned THEN [kind |-> "none", msg |-> None]
  ELSE [kind |-> IF r.err = "nil" THEN "message"
                 ELSE IF r.err \in {"ctx", "closed", "timeout"} THEN "aborted"
                 ELSE "failed",
        msg |-> r.msg]

\* The progress of a call at a control point.
CallState(at) ==
  IF at = "start" THEN "called" ELSE IF at = "done" THEN "returned" ELSE "running"

\* The first OPT record of the query decides; no OPT or a zero size means 512.
edns0MaxResponseSize(rrs) ==
  LET opts == SelectSeq(rrs, LAMBDA rr : rr.type = "OPT")
  IN  IF opts = <<>> \/ opts[1].size = 0 THEN 512 ELSE opts[1].size

\* The size is an unsigned field.
ASSUME ExtrasAssumption == \A rrs \in Extras : edns0MaxResponseSize(rrs) \in Nat \ {0}

\* dns.Msg.Unpack needs the twelve bytes of the header.
HeaderSize == 12

\* The values dns.Msg.Unpack may yield for the first n bytes of a payload.  A
\* message that was cut off either fails to parse or, when the cut falls between
\* two records, parses to a part of it; bytes after its end are ignored.
UnpackPrefix(d, n) ==
  IF d = Garbage \/ n < HeaderSize THEN {Err("unpack")}
  ELSE IF Size[d] <= n THEN {Msg(d, TRUE)}
  ELSE {Err("unpack"), Msg(d, FALSE)}

-----------------------------------------------------------------------------
\* The caller and the clock

\* The caller cancels the context.
callerCancels ==
  /\ ctx = "live"
  /\ ctx' = "canceled"
  /\ UNCHANGED <<hasDeadline, late, extra>>

\* The clock reaches the deadline of the context.
clockPassesDeadline ==
  /\ hasDeadline /\ ~late
  /\ late' = TRUE
  /\ UNCHANGED <<ctx, hasDeadline, extra>>

\* The timer of the context fires, some time after the deadline.
timerFires ==
  /\ late /\ ctx = "live"
  /\ ctx' = "expired"
  /\ UNCHANGED <<hasDeadline, late, extra>>

ctxInit ==
  /\ hasDeadline \in BOOLEAN
  /\ \/ ctx \in {"live", "canceled"} /\ late = FALSE
     \/ ctx = "expired" /\ hasDeadline /\ late = TRUE
  /\ extra \in Extras

ctxTypeOK ==
  /\ ctx \in {"live", "canceled", "expired"}
  /\ hasDeadline \in BOOLEAN
  /\ late \in BOOLEAN
  /\ extra \in Extras
=============================================================================
