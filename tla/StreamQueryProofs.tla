-------------------------- MODULE StreamQueryProofs --------------------------
(***************************************************************************)
(* Proofs about StreamQuery: the framing, the safety properties, and that   *)
(* queryTCP and queryTLS implement QueryContract, for all messages, sizes,   *)
(* streams and ways in which a stream is cut into pieces.                    *)
(***************************************************************************)
EXTENDS StreamQuery, QueryCallProofs

\* The connection and its goroutine go with the control point.
ConnInv ==
  /\ pc \in {"start", "dial"} => conn = "none"
  /\ pc \in {"start", "dial", "setup"} => closer = "none"
  /\ pc = "setup" => conn = "open"
  /\ pc \in {"pack", "write", "read", "reading"} => closer # "none"
  /\ pc # "done" => ~cancelled
  /\ pc = "done" /\ closer # "none" => cancelled
  /\ closer = "none" => conn # "closed" /\ (pc = "done" => conn = "none")
  /\ closer = "waiting" => conn = "open"
  /\ closer = "exited" => conn = "closed"
  /\ conn = "closed" => ctx # "live" \/ cancelled
  /\ connDeadline => hasDeadline

\* What was read goes with the stream.
ReadInv ==
  /\ pc \in {"start", "dial", "setup", "pack", "write"} => nread = 0 /\ written = <<>>
  /\ length # -1 => length = declared
  /\ written # <<>> => frameLength(written) = qsize

\* Why a result is what it is.
ResultInv ==
  /\ pc # "done" => result = Nothing
  /\ result.err = "nil" /\ pc = "done" =>
       /\ result.msg = stream.body /\ stream.body \in Msgs
       /\ nread >= 2 + declared /\ length = declared
       /\ ~result.whole => declared < Size[stream.body]
  /\ result.err = "toolarge" => qsize > MaxUint16 /\ written = <<>>
  /\ result.err = "closed" => ctx # "live"
  /\ result.err = "timeout" => hasDeadline /\ late

IInv == TypeOK /\ ConnInv /\ ReadInv /\ ResultInv

-----------------------------------------------------------------------------
\* The framing

\* The largest length that fits.
LEMMA LargestFrame == MaxUint16 = 65535
BY DEF MaxUint16

\* The two bytes that newRawMsgFrame writes are read back as the length of the
\* message, for every length that it accepts; it accepts all that fit.
LEMMA FramingRoundTrip ==
  ASSUME NEW n \in Nat
  PROVE  /\ n > MaxUint16 => newRawMsgFrame(n) = <<>>
         /\ n <= MaxUint16 => /\ newRawMsgFrame(n) # <<>>
                              /\ newRawMsgFrame(n) \in (0..255) \X (0..255)
                              /\ frameLength(newRawMsgFrame(n)) = n
<1>1. CASE n > MaxUint16
  BY <1>1, LargestFrame DEF newRawMsgFrame
<1>2. CASE n <= MaxUint16
  <2>1. newRawMsgFrame(n) = <<byte(n \div 256), byte(n)>>
    BY <1>2, LargestFrame DEF newRawMsgFrame
  <2>2. /\ byte(n \div 256) \in 0..255 /\ byte(n) \in 0..255
        /\ byte(n \div 256) * 256 + byte(n) = n
    BY <1>2, LargestFrame DEF byte
  <2>3. frameLength(newRawMsgFrame(n)) = byte(n \div 256) * 256 + byte(n)
    BY <2>1 DEF frameLength
  <2> QED
    BY <1>2, <2>1, <2>2, <2>3, LargestFrame
<1> QED
  BY <1>1, <1>2, LargestFrame

\* Two bytes make up an uint16.
LEMMA TwoBytes ==
  ASSUME NEW a \in 0..255, NEW b \in 0..255
  PROVE  a * 256 + b \in 0..MaxUint16
<1>1. /\ a * 256 + b \in Int
      /\ 0 <= a * 256 + b
      /\ a * 256 + b <= MaxUint16
  BY LargestFrame
<1>2. MaxUint16 \in Nat
  BY LargestFrame
<1> QED
  BY <1>1, <1>2

\* A header of two bytes declares the length of an uint16.
LEMMA HeaderRange ==
  ASSUME NEW h \in (0..255) \X (0..255)
  PROVE  frameLength(h) \in 0..MaxUint16
<1>1. h[1] \in 0..255 /\ h[2] \in 0..255
  OBVIOUS
<1>2. frameLength(h) = h[1] * 256 + h[2]
  BY DEF frameLength
<1>3. h[1] * 256 + h[2] \in 0..MaxUint16
  BY <1>1, TwoBytes
<1> QED
  BY <1>2, <1>3

\* The numbers of a stream.
LEMMA StreamNumbers ==
  ASSUME stream \in Streams
  PROVE  /\ declared \in 0..MaxUint16 /\ declared \in Nat
         /\ stream.body \in Payloads /\ Size[stream.body] \in Nat
         /\ streamLen \in Nat
<1>1. /\ stream.header \in (0..255) \X (0..255)
      /\ stream.body \in Payloads /\ stream.rest \in Nat
  BY StreamAssumption
<1> QED
  BY <1>1, HeaderRange, CallAssumption DEF declared, streamLen

-----------------------------------------------------------------------------
\* The steps

\* A step that ends the query preserves the invariant if its result is justified.
LEMMA ReturnStep ==
  ASSUME IInv, pc \notin {"done", "setup"}, NEW r \in Results, Return(r),
         UNCHANGED <<argVars, conn, connDeadline, closer, written, readVars>>,
         r.err = "nil" => /\ r.msg = stream.body /\ stream.body \in Msgs
                          /\ nread >= 2 + declared /\ length = declared
                          /\ ~r.whole => declared < Size[stream.body],
         r.err = "toolarge" => qsize > MaxUint16 /\ written = <<>>,
         r.err = "closed" => ctx # "live",
         r.err = "timeout" => hasDeadline /\ late
  PROVE  IInv'
<1> USE DEF IInv, argVars, readVars, ctxVars
<1>1. cancelled' \in BOOLEAN
  BY Zenon DEF Return, TypeOK
<1>2. cancelled => cancelled'
  BY DEF Return
<1>3. TypeOK'
  BY <1>1 DEF TypeOK, ctxTypeOK, Return, streamLen
<1>4. ConnInv'
  BY <1>2 DEF ConnInv, Return, TypeOK
<1>5. ReadInv'
  BY DEF ReadInv, Return, declared
<1>6. ResultInv'
  BY DEF ResultInv, Return, declared
<1> QED
  BY <1>3, <1>4, <1>5, <1>6

\* An error whose cause the invariant does not mention ends the query.
LEMMA ErrorStep ==
  ASSUME IInv, pc \notin {"done", "setup"},
         NEW e \in Errors \ {"toolarge", "closed", "timeout"}, Return(Err(e)),
         UNCHANGED <<argVars, conn, connDeadline, closer, written, readVars>>
  PROVE  IInv'
<1>1. PICK r \in Results : r = Err(e)
  BY ResultsType
<1>2. r.err # "nil" /\ r.err # "toolarge" /\ r.err # "closed" /\ r.err # "timeout"
  BY <1>1 DEF Err, Errors
<1> QED
  BY <1>1, <1>2, ReturnStep

\* An aborted operation ends the query, for the reason that it reports.
LEMMA AbortStep ==
  ASSUME IInv, pc \in {"write", "read", "reading"},
         NEW r \in {Err("closed"), Err("timeout")}, Aborts(r), Return(r),
         UNCHANGED <<argVars, conn, connDeadline, closer, written, readVars>>
  PROVE  IInv'
<1>1. r \in Results /\ r.err \in {"closed", "timeout"}
  BY ErrorResult, AbortErrors
<1>2. r.err = "closed" => conn = "closed"
  BY DEF Aborts, Err
<1>3. r.err = "closed" => ctx # "live"
  BY <1>2 DEF IInv, ConnInv
<1>4. r.err = "timeout" => connDeadline /\ late
  BY DEF Aborts, Err
<1>5. r.err = "timeout" => hasDeadline /\ late
  BY <1>4 DEF IInv, ConnInv
<1> QED
  BY <1>1, <1>3, <1>5, ReturnStep

\* A step to another control point that changes neither the connection nor what
\* was written or read.
LEMMA GotoStep ==
  ASSUME IInv, NEW label \in {"dial", "write", "reading"}, Goto(label),
         UNCHANGED <<argVars, conn, connDeadline, closer, written, readVars>>,
         \/ pc = "start" /\ label = "dial"
         \/ pc = "pack" /\ label = "write"
         \/ pc = "read" /\ label = "reading"
  PROVE  IInv'
<1> USE DEF IInv, argVars, readVars, ctxVars, Goto
<1>1. TypeOK'
  BY DEF TypeOK, ctxTypeOK, streamLen
<1>2. ConnInv'
  BY DEF ConnInv
<1>3. ReadInv'
  BY DEF ReadInv, declared
<1>4. ResultInv'
  BY DEF ResultInv, declared
<1> QED
  BY <1>1, <1>2, <1>3, <1>4

\* The dialed connection is open.
LEMMA DialStep == IInv /\ dialContext => IInv'
<1> SUFFICES ASSUME IInv, dialContext PROVE IInv'
  OBVIOUS
<1>1. CASE conn' = "open" /\ Goto("setup")
  <2> USE <1>1 DEF IInv, argVars, readVars, ctxVars, Goto, dialContext
  <2>1. TypeOK'
    BY DEF TypeOK, ctxTypeOK, streamLen
  <2>2. ConnInv'
    BY DEF ConnInv
  <2>3. ReadInv'
    BY DEF ReadInv, declared
  <2>4. ResultInv'
    BY DEF ResultInv, declared
  <2> QED
    BY <2>1, <2>2, <2>3, <2>4
<1>2. CASE Return(Err("dial")) /\ UNCHANGED conn
  BY <1>2, ErrorStep DEF dialContext, Errors
<1> QED
  BY <1>1, <1>2 DEF dialContext

\* The closing goroutine starts with an open connection.
LEMMA SetupStep == IInv /\ queryStream_Setup => IInv'
<1> SUFFICES ASSUME IInv, queryStream_Setup PROVE IInv'
  OBVIOUS
<1> USE DEF IInv, argVars, readVars, ctxVars, Goto, queryStream_Setup
<1>1. TypeOK'
  BY DEF TypeOK, ctxTypeOK, streamLen
<1>2. ConnInv'
  BY DEF ConnInv
<1>3. ReadInv'
  BY DEF ReadInv, declared
<1>4. ResultInv'
  BY DEF ResultInv, declared
<1> QED
  BY <1>1, <1>2, <1>3, <1>4

\* Only a query that is too large is refused.
LEMMA PackStep == IInv /\ queryStream_Pack => IInv'
<1> SUFFICES ASSUME IInv, queryStream_Pack PROVE IInv'
  OBVIOUS
<1>1. pc = "pack" /\ UNCHANGED <<argVars, conn, connDeadline, closer, written, readVars>>
  BY DEF queryStream_Pack
<1>2. CASE Return(Err("pack"))
  BY <1>1, <1>2, ErrorStep DEF Errors
<1>3. CASE newRawMsgFrame(qsize) = <<>> /\ Return(Err("toolarge"))
  <2>1. qsize \in Nat
    BY StreamAssumption DEF IInv, TypeOK
  <2>2. qsize > MaxUint16
    BY <1>3, <2>1, FramingRoundTrip, LargestFrame
  <2>3. written = <<>>
    BY <1>1 DEF IInv, ReadInv
  <2>4. Err("toolarge") \in Results /\ Err("toolarge").err = "toolarge"
    BY ResultsType DEF Err, Errors
  <2> QED
    BY <1>1, <1>3, <2>2, <2>3, <2>4, ReturnStep
<1>4. CASE Goto("write")
  BY <1>1, <1>4, GotoStep
<1> QED
  BY <1>2, <1>3, <1>4 DEF queryStream_Pack

\* What is written is the frame of the query.
LEMMA WriteStep == IInv /\ queryStream_Write => IInv'
<1> SUFFICES ASSUME IInv, queryStream_Write PROVE IInv'
  OBVIOUS
<1>1. pc = "write" /\ UNCHANGED <<argVars, conn, connDeadline, closer, readVars>>
  BY DEF queryStream_Write
<1>2. CASE written' = newRawMsgFrame(qsize) /\ Goto("read")
  <2>1. qsize \in Nat
    BY StreamAssumption DEF IInv, TypeOK
  <2>2. /\ newRawMsgFrame(qsize) \in {<<>>} \cup ((0..255) \X (0..255))
        /\ newRawMsgFrame(qsize) # <<>> => frameLength(newRawMsgFrame(qsize)) = qsize
    BY <2>1, FramingRoundTrip, LargestFrame
  <2> USE <1>1, <1>2 DEF IInv, argVars, readVars, ctxVars, Goto
  <2>3. TypeOK'
    BY <2>2 DEF TypeOK, ctxTypeOK, streamLen
  <2>4. ConnInv'
    BY DEF ConnInv
  <2>5. ReadInv'
    <3>1. written' # <<>> => frameLength(written') = qsize'
      BY <2>2
    <3>2. length' # -1 => length' = declared'
      BY DEF ReadInv, declared
    <3> QED
      BY <3>1, <3>2 DEF ReadInv
  <2>6. ResultInv'
    BY DEF ResultInv, Nothing
  <2> QED
    BY <2>3, <2>4, <2>5, <2>6
<1>3. ASSUME NEW r \in {Err("closed"), Err("timeout")}, Aborts(r), Return(r), UNCHANGED written
      PROVE  IInv'
  BY <1>1, <1>3, AbortStep
<1>4. CASE Return(Err("write")) /\ UNCHANGED written
  BY <1>1, <1>4, ErrorStep DEF Errors
<1> QED
  BY <1>2, <1>3, <1>4 DEF queryStream_Write

\* A call of conn.Read blocks or is aborted.
LEMMA CallStep == IInv /\ ReadFull_Call => IInv'
<1> SUFFICES ASSUME IInv, ReadFull_Call PROVE IInv'
  OBVIOUS
<1>1. pc = "read" /\ UNCHANGED <<argVars, conn, connDeadline, closer, written, readVars>>
  BY DEF ReadFull_Call
<1>2. CASE Goto("reading")
  BY <1>1, <1>2, GotoStep
<1>3. ASSUME NEW r \in {Err("closed"), Err("timeout")}, Aborts(r), Return(r)
      PROVE  IInv'
  BY <1>1, <1>3, AbortStep
<1> QED
  BY <1>2, <1>3 DEF ReadFull_Call

\* A piece of the stream moves the place up to which it was read.
LEMMA DataStep == IInv /\ ReadFull_Data => IInv' /\ nread <= nread' /\ nread' \in Nat
<1> SUFFICES ASSUME IInv, ReadFull_Data PROVE IInv' /\ nread <= nread' /\ nread' \in Nat
  OBVIOUS
<1> USE DEF IInv, argVars, ctxVars, Goto, ReadFull_Data
<1>1. nread \in Nat /\ streamLen \in Nat
  BY StreamNumbers DEF TypeOK
<1>2. nread' \in 0..streamLen /\ nread < nread'
  BY <1>1, StreamAssumption
<1>3. TypeOK'
  BY <1>2 DEF TypeOK, ctxTypeOK, streamLen
<1>4. ConnInv'
  BY DEF ConnInv
<1>5. ReadInv'
  BY DEF ReadInv, declared
<1>6. ResultInv'
  BY DEF ResultInv, Nothing
<1> QED
  BY <1>1, <1>2, <1>3, <1>4, <1>5, <1>6

\* A blocked conn.Read fails.
LEMMA FailStep == IInv /\ ReadFull_Fail => IInv'
<1> SUFFICES ASSUME IInv, ReadFull_Fail PROVE IInv'
  OBVIOUS
<1>1. pc = "reading" /\ UNCHANGED <<argVars, conn, connDeadline, closer, written, readVars>>
  BY DEF ReadFull_Fail
<1>2. ASSUME NEW r \in {Err("closed"), Err("timeout")}, Aborts(r), Return(r)
      PROVE  IInv'
  BY <1>1, <1>2, AbortStep
<1>3. CASE Return(Err("eof"))
  BY <1>1, <1>3, ErrorStep DEF Errors
<1>4. CASE Return(Err("net"))
  BY <1>1, <1>4, ErrorStep DEF Errors
<1> QED
  BY <1>2, <1>3, <1>4 DEF ReadFull_Fail

\* The header gives the declared length.
LEMMA HeaderStep == IInv /\ queryStream_Header => IInv'
<1> SUFFICES ASSUME IInv, queryStream_Header PROVE IInv'
  OBVIOUS
<1> USE DEF IInv, argVars, connVars, ctxVars, queryStream_Header
<1>1. length' = declared /\ declared \in 0..MaxUint16
  BY StreamNumbers DEF TypeOK, declared
<1>2. length' \in -1..MaxUint16
  <2>1. MaxUint16 \in Nat
    BY LargestFrame
  <2> QED
    BY <1>1, <2>1
<1>3. TypeOK'
  BY <1>2 DEF TypeOK, ctxTypeOK, streamLen
<1>4. ConnInv'
  BY DEF ConnInv
<1>5. ReadInv'
  BY <1>1 DEF ReadInv, declared
<1>6. ResultInv'
  BY DEF ResultInv, Nothing
<1> QED
  BY <1>3, <1>4, <1>5, <1>6

\* The message that is returned is that of the first frame.
LEMMA UnpackStep == IInv /\ queryStream_Unpack => IInv'
<1> SUFFICES ASSUME IInv, queryStream_Unpack PROVE IInv'
  OBVIOUS
<1>1. /\ pc = "read" /\ length # -1 /\ nread >= need
      /\ UNCHANGED <<argVars, conn, connDeadline, closer, written, readVars>>
  BY DEF queryStream_Unpack
<1>2. PICK r \in UnpackPrefix(stream.body, length) : Return(r)
  BY DEF queryStream_Unpack
<1>3. length = declared /\ nread >= 2 + declared
  BY <1>1 DEF IInv, ReadInv, need
<1>4. stream.body \in Payloads /\ declared \in Nat
  BY StreamNumbers DEF IInv, TypeOK
<1>5. length \in Nat
  BY <1>3, <1>4
<1>6. /\ r \in Results /\ r.err \in {"nil", "unpack"}
      /\ r.err = "nil" => /\ r.msg = stream.body /\ stream.body \in Msgs
                          /\ ~r.whole => length < Size[stream.body]
  BY <1>2, <1>4, <1>5, PrefixResult
<1> QED
  BY <1>1, <1>2, <1>3, <1>6, ReturnStep

\* The goroutine closes the connection when the context is done.
LEMMA CloseStep == IInv /\ closeOnDone => IInv'
<1> SUFFICES ASSUME IInv, closeOnDone PROVE IInv'
  OBVIOUS
<1> USE DEF IInv, argVars, readVars, ctxVars, closeOnDone
<1>1. TypeOK'
  BY DEF TypeOK, ctxTypeOK, streamLen
<1>2. ConnInv'
  BY DEF ConnInv
<1>3. ReadInv'
  BY DEF ReadInv, declared
<1>4. ResultInv'
  BY DEF ResultInv, declared
<1> QED
  BY <1>1, <1>2, <1>3, <1>4

\* The caller and the clock.
LEMMA CallerStep == IInv /\ Context => IInv'
<1> SUFFICES ASSUME IInv, Context PROVE IInv'
  OBVIOUS
<1> USE DEF IInv, connVars, readVars, Context
<1>1. /\ ctxTypeOK'
      /\ ctx # "live" => ctx' # "live"
      /\ late => late'
      /\ hasDeadline' = hasDeadline /\ extra' = extra
  BY ContextStep DEF TypeOK
<1>2. TypeOK'
  BY <1>1 DEF TypeOK, streamLen
<1>3. ConnInv'
  BY <1>1 DEF ConnInv
<1>4. ReadInv'
  BY DEF ReadInv, declared
<1>5. ResultInv'
  BY <1>1 DEF ResultInv, declared
<1> QED
  BY <1>2, <1>3, <1>4, <1>5

-----------------------------------------------------------------------------
\* The theorems

\* The inductive invariant holds in every reachable state.
THEOREM Invariance == Spec => []IInv
<1>1. Init => IInv
  <2> SUFFICES ASSUME Init PROVE IInv
    OBVIOUS
  <2> USE DEF Init, streamInit
  <2>1. MaxUint16 \in Nat
    BY LargestFrame
  <2>2. TypeOK
    <3>1. nread \in 0..streamLen /\ length \in -1..MaxUint16
      BY <2>1, StreamNumbers
    <3>2. ctxTypeOK
      BY ContextInit
    <3> QED
      BY <3>1, <3>2, ResultsType DEF TypeOK
  <2>3. ConnInv /\ ReadInv
    BY DEF ConnInv, ReadInv
  <2>4. ResultInv
    BY DEF ResultInv, Nothing
  <2> QED
    BY <2>2, <2>3, <2>4 DEF IInv
<1>2. IInv /\ [Next]_vars => IInv'
  <2> SUFFICES ASSUME IInv, [Next]_vars PROVE IInv'
    OBVIOUS
  <2>1. CASE query_Enter
    <3>1. CASE Return(Err("ctx"))
      BY <2>1, <3>1, ErrorStep DEF query_Enter, Errors
    <3>2. CASE Goto("dial")
      BY <2>1, <3>2, GotoStep DEF query_Enter
    <3> QED
      BY <2>1, <3>1, <3>2 DEF query_Enter
  <2>2. CASE UNCHANGED vars
    <3> USE <2>2 DEF vars, argVars, ctxVars, connVars, readVars, IInv
    <3>1. TypeOK'
      BY DEF TypeOK, ctxTypeOK, streamLen
    <3>2. ConnInv' /\ ReadInv' /\ ResultInv'
      BY DEF ConnInv, ReadInv, ResultInv, declared
    <3> QED
      BY <3>1, <3>2
  <2> QED
    BY <2>1, <2>2, DialStep, SetupStep, PackStep, WriteStep, CallStep, DataStep, FailStep,
       HeaderStep, UnpackStep, CloseStep, CallerStep
       DEF Next, Query, queryTCP, queryTLS, dialTLSContext, Terminated
<1> QED
  BY <1>1, <1>2, PTL DEF Spec

\* TypeOK holds for all constants.
THEOREM TypeCorrect == Spec => []TypeOK
BY Invariance, PTL DEF IInv

\* FirstFrame: whatever pieces the stream arrives in, the message returned is the
\* one of the first frame.
THEOREM ReturnsFirstFrame == Spec => []FirstFrame
<1>1. IInv => FirstFrame
  BY DEF IInv, ResultInv, FirstFrame
<1> QED
  BY <1>1, Invariance, PTL

\* QueryFramed: the server reads back the length of the query.
THEOREM QueriesFramed == Spec => []QueryFramed
<1>1. IInv => QueryFramed
  BY DEF IInv, ReadInv, ResultInv, QueryFramed
<1> QED
  BY <1>1, Invariance, PTL

\* AbortOnlyWhenDone: the closing goroutine never aborts a live query.
THEOREM AbortsJustified == Spec => []AbortOnlyWhenDone
<1>1. IInv => AbortOnlyWhenDone
  BY DEF IInv, ResultInv, AbortOnlyWhenDone
<1> QED
  BY <1>1, Invariance, PTL

\* ConnOwned: an open connection always has a goroutine that will close it.
THEOREM ConnectionOwned == Spec => []ConnOwned
<1>1. IInv => ConnOwned
  BY DEF IInv, TypeOK, ConnInv, ConnOwned
<1> QED
  BY <1>1, Invariance, PTL

-----------------------------------------------------------------------------
\* How far the query is from returning once the context is done.  At 4 the reads may
\* go on until the connection is closed under them.

Remaining ==
  CASE pc = "start"    -> 10
    [] pc = "dial"     -> 9
    [] pc = "setup"    -> 8
    [] pc = "pack"     -> 7
    [] pc = "write"    -> 6
    [] pc \in {"read", "reading"} /\ closer = "waiting" -> 4
    [] pc = "reading" /\ closer # "waiting" -> 3
    [] pc = "read" /\ closer # "waiting" /\ length = -1 -> 2
    [] pc = "read" /\ closer # "waiting" /\ length # -1 -> 1
    [] OTHER -> 0

\* A step of its goroutine changes the control point or takes the length from the
\* header, and one of the guard of the connection changes its state.
LEMMA StepMoves ==
  /\ IInv /\ Progress => pc' # pc \/ (length = -1 /\ length' # -1)
  /\ closeOnDone => closer' # closer
<1>1. IInv /\ queryStream_Header => length = -1 /\ length' # -1
  <2> SUFFICES ASSUME IInv, queryStream_Header PROVE length = -1 /\ length' # -1
    OBVIOUS
  <2>1. length = -1 /\ length' = declared
    BY DEF queryStream_Header, declared
  <2>2. declared \in Nat
    BY StreamNumbers DEF IInv, TypeOK
  <2> QED BY <2>1, <2>2
<1>2. queryTCP \/ queryTLS => pc' # pc
  BY DEF queryTCP, queryTLS, query_Enter, dialContext, dialTLSContext, Return, Goto
<1>3. queryStream_Setup \/ queryStream_Pack \/ queryStream_Write => pc' # pc
  BY DEF queryStream_Setup, queryStream_Pack, queryStream_Write, Return, Goto
<1>4. ReadFull_Call \/ ReadFull_Fail \/ queryStream_Unpack => pc' # pc
  BY DEF ReadFull_Call, ReadFull_Fail, queryStream_Unpack, Return, Goto
<1>5. closeOnDone => closer' # closer
  BY DEF closeOnDone
<1> QED BY <1>1, <1>2, <1>3, <1>4, <1>5 DEF Progress, Query

\* Once the context is done no step leads away from the return of the query, every
\* step of its goroutine leads nearer to it unless it waits for the connection to be
\* closed, and closing the connection leads nearer to it.
LEMMA RemainingStep ==
  ASSUME IInv, [Next]_vars, ctx # "live"
  PROVE  /\ ctx' # "live" /\ Remaining \in 0..10 /\ Remaining' \in 0..10
         /\ Remaining' <= Remaining
         /\ Progress => Remaining' < Remaining \/ Remaining = 4
         /\ Remaining = 4 /\ closeOnDone => Remaining' < Remaining
         /\ Remaining = 0 <=> pc = "done"
<1>0. /\ pc \in {"start", "dial", "setup", "pack", "write", "read", "reading", "done"}
      /\ pc \in {"read", "reading"} /\ closer # "waiting" => conn = "closed"
      /\ pc = "setup" => closer = "none"
  <2>1. closer \in {"none", "waiting", "exited"}
    BY DEF IInv, TypeOK
  <2>2. /\ pc \in {"start", "dial", "setup", "pack", "write", "read", "reading", "done"}
        /\ ConnInv
    BY DEF IInv, TypeOK
  <2> QED BY <2>1, <2>2 DEF ConnInv
<1> USE DEF Remaining
<1>1. CASE UNCHANGED vars
  <2>1. UNCHANGED <<ctx, pc, closer, length>>
    BY <1>1 DEF vars, argVars, ctxVars, connVars, readVars
  <2> QED BY <1>0, <2>1, StepMoves
<1>2. CASE queryTCP \/ queryTLS
  <2>1. /\ ctx' = ctx
        /\ \/ pc = "start" /\ pc' = "done"
           \/ pc = "dial" /\ pc' \in {"setup", "done"}
    BY <1>2 DEF queryTCP, queryTLS, query_Enter, dialContext, dialTLSContext, Return, Goto,
       argVars, ctxVars
  <2> QED BY <1>0, <2>1
<1>3. CASE queryStream_Setup \/ queryStream_Pack \/ queryStream_Write
  <2>1. /\ ctx' = ctx
        /\ \/ pc = "setup" /\ pc' = "pack"
           \/ pc = "pack" /\ pc' \in {"write", "done"}
           \/ pc = "write" /\ pc' \in {"read", "done"}
    BY <1>3 DEF queryStream_Setup, queryStream_Pack, queryStream_Write, Return, Goto,
       argVars, ctxVars
  <2> QED BY <1>0, <2>1
<1>4. CASE ReadFull_Call
  <2>1. /\ ctx' = ctx /\ closer' = closer /\ pc = "read"
        /\ pc' = "done" \/ (pc' = "reading" /\ conn = "open")
    BY <1>4 DEF ReadFull_Call, Usable, Return, Goto, argVars, ctxVars
  <2> QED BY <1>0, <2>1, StepMoves
<1>5. CASE ReadFull_Data \/ ReadFull_Fail
  <2>1. /\ ctx' = ctx /\ closer' = closer /\ pc = "reading" /\ pc' \in {"read", "done"}
    BY <1>5 DEF ReadFull_Data, ReadFull_Fail, Return, Goto, argVars, ctxVars
  <2> QED BY <1>0, <2>1, StepMoves
<1>6. CASE queryStream_Header
  <2>1. ctx' = ctx /\ closer' = closer /\ pc = "read" /\ pc' = pc
    BY <1>6 DEF queryStream_Header, argVars, ctxVars, connVars
  <2>2. Progress /\ ~closeOnDone
    BY <1>6, <2>1, StepMoves DEF Progress, Query
  <2>3. length = -1 /\ length' # -1
    BY <2>1, <2>2, StepMoves
  <2> QED BY <1>0, <2>1, <2>2, <2>3
<1>7. CASE queryStream_Unpack
  <2>1. ctx' = ctx /\ pc = "read" /\ pc' = "done"
    BY <1>7 DEF queryStream_Unpack, Return, argVars, ctxVars
  <2> QED BY <1>0, <2>1
<1>8. CASE closeOnDone
  <2>1. ctx' = ctx /\ pc' = pc /\ closer = "waiting" /\ closer' = "exited" /\ length' = length
    BY <1>8 DEF closeOnDone, argVars, ctxVars, readVars
  <2> QED BY <1>0, <2>1, StepMoves
<1>9. CASE Context
  <2>1. ctx' # "live" /\ UNCHANGED <<pc, closer, length>>
    BY <1>9 DEF Context, callerCancels, clockPassesDeadline, timerFires, connVars, readVars
  <2> QED BY <1>0, <2>1, StepMoves
<1> QED
  BY Zenon, <1>1, <1>2, <1>3, <1>4, <1>5, <1>6, <1>7, <1>8, <1>9 DEF Next, Query, Terminated

\* The clock does not run backwards, and a goroutine that has been told to close the
\* connection waits until it has closed it.
LEMMA GuardStep ==
  ASSUME [Next]_vars
  PROVE  /\ hasDeadline' = hasDeadline /\ (late => late') /\ (ctx # "live" => ctx' # "live")
         /\ closer = "waiting" /\ cancelled /\ pc = "done" =>
              \/ closer' = "waiting" /\ cancelled' /\ pc' = "done"
              \/ closer' = "exited" /\ conn' = "closed"
<1>1. CASE UNCHANGED vars
  BY <1>1 DEF vars, ctxVars, argVars, connVars
<1>2. CASE Query \/ ReadFull_Data \/ ReadFull_Fail
  <2>1. UNCHANGED ctxVars /\ pc # "done"
    BY <1>2 DEF Query, queryTCP, queryTLS, query_Enter, dialContext, dialTLSContext,
       queryStream_Setup, queryStream_Pack, queryStream_Write, ReadFull_Call,
       ReadFull_Data, ReadFull_Fail, queryStream_Header, queryStream_Unpack, argVars
  <2> QED BY <2>1 DEF ctxVars
<1>3. CASE closeOnDone
  BY <1>3 DEF closeOnDone, argVars, ctxVars
<1>4. CASE Context
  BY <1>4 DEF Context, callerCancels, clockPassesDeadline, timerFires, connVars
<1> QED BY <1>1, <1>2, <1>3, <1>4 DEF Next, Terminated

-----------------------------------------------------------------------------
\* The refinement

Received == IF nread >= 2 + declared THEN <<stream.body>> ELSE <<>>

\* What the contract sees of a step that leaves the arguments and the reads alone.
LEMMA SameArguments ==
  ASSUME UNCHANGED argVars
  PROVE  (ctx # "live")' = (ctx # "live") /\ late' = late /\ declared' = declared
         /\ stream' = stream
BY DEF argVars, ctxVars, declared

\* A step inside the running query is invisible.
LEMMA QuietRefines ==
  ASSUME IInv, pc \notin {"start", "done"}, pc' \notin {"start", "done"},
         UNCHANGED argVars, Received' = Received
  PROVE  UNCHANGED Contract!cvars
<1>1. CallState(pc) = "running" /\ CallState(pc)' = "running"
  BY DEF CallState
<1>2. Outcome(pc = "done", result)' = Outcome(pc = "done", result)
  BY DEF Outcome
<1> QED
  BY <1>1, <1>2, SameArguments DEF Contract!cvars, Received

\* A returned error is a failure or a justified abort of the contract.
LEMMA ErrorRefines ==
  ASSUME pc # "done", NEW e \in Errors, Return(Err(e)), UNCHANGED <<argVars, readVars>>,
         e \in {"ctx", "closed", "timeout"} => ctx # "live" \/ late
  PROVE  Contract!ReturnAborted \/ Contract!ReturnFailed
<1>1. pc' = "done" /\ result' = Err(e)
  BY DEF Return
<1>2. CallState(pc) # "returned" /\ CallState(pc)' = "returned"
  BY <1>1 DEF CallState
<1>3. Outcome(pc = "done", result)' = Outcome(TRUE, Err(e))
  BY <1>1
<1>4. Received' = Received
  BY SameArguments DEF Received, readVars
<1>5. CASE e \in {"ctx", "closed", "timeout"}
  <2>1. Outcome(TRUE, Err(e)) = Contract!Aborted
    BY <1>5, OutcomeError DEF Contract!Aborted
  <2> QED
    BY <1>2, <1>3, <1>4, <1>5, <2>1, SameArguments DEF Contract!ReturnAborted, Received
<1>6. CASE e \notin {"ctx", "closed", "timeout"}
  <2>1. Outcome(TRUE, Err(e)) = Contract!Failed
    BY <1>6, OutcomeError DEF Contract!Failed
  <2> QED
    BY <1>2, <1>3, <1>4, <2>1, SameArguments DEF Contract!ReturnFailed, Received
<1> QED
  BY <1>5, <1>6

\* An aborted operation is a justified abort of the contract.
LEMMA AbortRefines ==
  ASSUME IInv, pc # "done", NEW r \in {Err("closed"), Err("timeout")}, Aborts(r), Return(r),
         UNCHANGED <<argVars, readVars>>, ~cancelled
  PROVE  Contract!ReturnAborted \/ Contract!ReturnFailed
<1>1. CASE r = Err("closed")
  <2>1. conn = "closed"
    BY <1>1 DEF Aborts, Err
  <2>2. ctx # "live"
    BY <2>1 DEF IInv, ConnInv
  <2> QED
    BY <1>1, <2>2, ErrorRefines, AbortErrors
<1>2. CASE r = Err("timeout")
  <2>1. late
    BY <1>2 DEF Aborts, Err
  <2> QED
    BY <1>2, <2>1, ErrorRefines, AbortErrors
<1> QED
  BY <1>1, <1>2

\* The parsed message is the first that was received.
LEMMA UnpackRefines ==
  ASSUME IInv, queryStream_Unpack
  PROVE  Contract!ReturnMessage \/ Contract!ReturnAborted \/ Contract!ReturnFailed
<1>1. /\ pc = "read" /\ length # -1 /\ nread >= need
      /\ UNCHANGED <<argVars, readVars>>
  BY DEF queryStream_Unpack
<1>2. PICK r \in UnpackPrefix(stream.body, length) : Return(r)
  BY DEF queryStream_Unpack
<1>3. length = declared /\ nread >= 2 + declared
  BY <1>1 DEF IInv, ReadInv, need
<1>4. stream.body \in Payloads /\ declared \in Nat
  BY StreamNumbers DEF IInv, TypeOK
<1>5. CASE r = Err("unpack")
  <2>1. "unpack" \in Errors
    BY DEF Errors
  <2> QED
    BY <1>1, <1>2, <1>5, <2>1, ErrorRefines
<1>6. ASSUME NEW w \in BOOLEAN, r = Msg(stream.body, w), stream.body \in Msgs
      PROVE  Contract!ReturnMessage
  <2>1. pc' = "done" /\ result' = Msg(stream.body, w)
    BY <1>2, <1>6 DEF Return
  <2>2. Received = <<stream.body>> /\ Received' = Received
    BY <1>1, <1>3, SameArguments DEF Received, readVars
  <2>3. Outcome(pc = "done", result)' = Contract!Message(stream.body)
    BY <2>1, OutcomeMessage DEF Contract!Message
  <2>4. CallState(pc) = "running" /\ CallState(pc)' = "returned"
    BY <1>1, <2>1 DEF CallState
  <2> QED
    BY <1>1, <1>6, <2>2, <2>3, <2>4, SameArguments DEF Contract!ReturnMessage, Received
<1> QED
  BY <1>2, <1>3, <1>4, <1>5, <1>6, PrefixType

\* A piece of the stream completes the first frame or is invisible.
LEMMA DataRefines ==
  ASSUME IInv, ReadFull_Data PROVE Contract!Receive \/ UNCHANGED Contract!cvars
<1>1. pc = "reading" /\ pc' = "read" /\ UNCHANGED argVars /\ result' = result
  BY DEF ReadFull_Data, Goto
<1>2. nread <= nread' /\ nread \in Nat /\ nread' \in Nat
  BY DataStep, StreamNumbers DEF IInv, TypeOK
<1>3. declared' = declared /\ stream' = stream /\ declared \in Nat /\ stream.body \in Payloads
  BY <1>1, SameArguments, StreamNumbers DEF IInv, TypeOK
<1>4. CASE nread < 2 + declared /\ nread' >= 2 + declared
  <2>1. Received = <<>> /\ Received' = <<stream.body>>
    BY <1>2, <1>3, <1>4 DEF Received
  <2>2. Received' = Append(Received, stream.body)
    BY <2>1
  <2>3. CallState(pc) = "running" /\ CallState(pc)' = "running"
    BY <1>1 DEF CallState
  <2>4. Outcome(pc = "done", result)' = Outcome(pc = "done", result)
    BY <1>1 DEF Outcome
  <2> QED
    BY <1>1, <1>3, <2>2, <2>3, <2>4, SameArguments DEF Contract!Receive, Received, Payloads
<1>5. CASE ~(nread < 2 + declared /\ nread' >= 2 + declared)
  <2>1. Received' = Received
    BY <1>2, <1>3, <1>5 DEF Received
  <2> QED
    BY <1>1, <2>1, QuietRefines
<1> QED
  BY <1>4, <1>5

\* The context is checked before the query begins.
LEMMA EnterRefines ==
  ASSUME IInv, query_Enter
  PROVE  Contract!Begin \/ Contract!ReturnAborted \/ Contract!ReturnFailed
<1>1. pc = "start" /\ UNCHANGED <<argVars, readVars>>
  BY DEF query_Enter
<1>2. CASE ctx # "live" /\ Return(Err("ctx"))
  BY <1>1, <1>2, ErrorRefines, AbortErrors
<1>3. CASE ctx = "live" /\ Goto("dial")
  <2>1. CallState(pc) = "called" /\ CallState(pc)' = "running"
    BY <1>1, <1>3 DEF CallState, Goto
  <2>2. Outcome(pc = "done", result)' = Outcome(pc = "done", result)
    BY <1>1, <1>3 DEF Outcome, Goto
  <2>3. Received' = Received
    BY <1>1, SameArguments DEF Received, readVars
  <2> QED
    BY <1>1, <1>3, <2>1, <2>2, <2>3, SameArguments DEF Contract!Begin, Received
<1> QED
  BY <1>2, <1>3 DEF query_Enter

\* The other steps of the goroutine that runs the query.
LEMMA QueryRefines ==
  ASSUME IInv, \/ dialContext \/ queryStream_Setup \/ queryStream_Pack
               \/ queryStream_Write \/ ReadFull_Call \/ ReadFull_Fail \/ queryStream_Header
  PROVE  Contract!ReturnAborted \/ Contract!ReturnFailed \/ UNCHANGED Contract!cvars
<1>1. UNCHANGED argVars
  BY DEF dialContext, queryStream_Setup, queryStream_Pack, queryStream_Write,
         ReadFull_Call, ReadFull_Fail, queryStream_Header
<1>2. nread' = nread
  BY DEF dialContext, queryStream_Setup, queryStream_Pack, queryStream_Write,
         ReadFull_Call, ReadFull_Fail, queryStream_Header, readVars
<1>3. Received' = Received
  BY <1>1, <1>2, SameArguments DEF Received
<1>4. pc \notin {"start", "done"} /\ ~cancelled
  BY DEF dialContext, queryStream_Setup, queryStream_Pack, queryStream_Write,
         ReadFull_Call, ReadFull_Fail, queryStream_Header, IInv, ConnInv
<1>5. \/ pc' \notin {"start", "done"}
      \/ /\ UNCHANGED readVars
         /\ \E e \in {"dial", "pack", "toolarge", "write", "eof", "net"} : Return(Err(e))
      \/ /\ UNCHANGED readVars
         /\ \E r \in {Err("closed"), Err("timeout")} : Aborts(r) /\ Return(r)
  BY DEF dialContext, queryStream_Setup, queryStream_Pack, queryStream_Write,
         ReadFull_Call, ReadFull_Fail, queryStream_Header, Goto
<1>6. CASE pc' \notin {"start", "done"}
  BY <1>1, <1>3, <1>4, <1>6, QuietRefines
<1>7. ASSUME NEW e \in {"dial", "pack", "toolarge", "write", "eof", "net"}, Return(Err(e)),
             UNCHANGED readVars
      PROVE  Contract!ReturnAborted \/ Contract!ReturnFailed
  <2>1. e \in Errors /\ e \notin {"ctx", "closed", "timeout"}
    BY DEF Errors
  <2> QED
    BY <1>1, <1>4, <1>7, <2>1, ErrorRefines
<1>8. ASSUME NEW r \in {Err("closed"), Err("timeout")}, Aborts(r), Return(r), UNCHANGED readVars
      PROVE  Contract!ReturnAborted \/ Contract!ReturnFailed
  BY <1>1, <1>4, <1>8, AbortRefines
<1> QED
  BY <1>5, <1>6, <1>7, <1>8

\* Implements: queryTCP and queryTLS keep the promise of Transport.Query, whatever
\* the server sends and however the closing goroutine and the clock interleave.
THEOREM Refinement == Spec => Implements
<1>1. Init => Contract!Init
  <2> SUFFICES ASSUME Init PROVE Contract!Init
    OBVIOUS
  <2>1. pc = "start" /\ nread = 0 /\ declared \in Nat /\ late \in BOOLEAN
    BY StreamNumbers, ContextInit DEF Init, streamInit, ctxTypeOK
  <2>2. Received = <<>>
    BY <2>1 DEF Received
  <2>3. CallState(pc) = "called"
    BY <2>1 DEF CallState
  <2>4. Outcome(pc = "done", result) = Contract!Pending
    BY <2>1 DEF Outcome, Contract!Pending
  <2> QED
    BY <2>1, <2>2, <2>3, <2>4 DEF Contract!Init, Received
<1>2. IInv /\ [Next]_vars => [Contract!Next]_(Contract!cvars)
  <2> SUFFICES ASSUME IInv, [Next]_vars PROVE Contract!Next \/ UNCHANGED Contract!cvars
    OBVIOUS
  <2>1. CASE query_Enter
    BY <2>1, EnterRefines DEF Contract!Next
  <2>2. CASE \/ dialContext \/ queryStream_Setup \/ queryStream_Pack
             \/ queryStream_Write \/ ReadFull_Call \/ ReadFull_Fail \/ queryStream_Header
    BY <2>2, QueryRefines DEF Contract!Next
  <2>3. CASE ReadFull_Data
    BY <2>3, DataRefines DEF Contract!Next
  <2>4. CASE queryStream_Unpack
    BY <2>4, UnpackRefines DEF Contract!Next
  <2>5. CASE Context
    <3>1. (ctx # "live" => ctx' # "live") /\ (late => late')
      BY <2>5, ContextStep DEF Context, IInv, TypeOK
    <3>2. pc' = pc /\ result' = result /\ Received' = Received
      BY <2>5 DEF Context, Received, readVars, declared
    <3>3. CallState(pc)' = CallState(pc)
      BY <3>2
    <3>4. Outcome(pc = "done", result)' = Outcome(pc = "done", result)
      BY <3>2
    <3> QED
      BY <3>1, <3>2, <3>3, <3>4 DEF Contract!Next, Contract!ContextChanges, Received
  <2>6. CASE closeOnDone \/ UNCHANGED vars
    <3>1. UNCHANGED <<argVars, pc, readVars, result>>
      BY <2>6 DEF closeOnDone, vars
    <3>2. pc' = pc /\ result' = result /\ Received' = Received
      BY <3>1, SameArguments DEF Received, readVars
    <3>3. CallState(pc)' = CallState(pc)
      BY <3>2
    <3>4. Outcome(pc = "done", result)' = Outcome(pc = "done", result)
      BY <3>2
    <3> QED
      BY <3>1, <3>2, <3>3, <3>4, SameArguments DEF Contract!cvars, Received
  <2> QED
    BY <2>1, <2>2, <2>3, <2>4, <2>5, <2>6
       DEF Next, Query, queryTCP, queryTLS, dialTLSContext, Terminated
<1> QED
  BY <1>1, <1>2, Invariance, PTL DEF Spec, Implements, Contract!Spec
=============================================================================
