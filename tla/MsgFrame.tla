------------------------------ MODULE MsgFrame ------------------------------
(***************************************************************************)
(* The two length bytes in front of a DNS message on a stream: written by    *)
(* newRawMsgFrame of src/dotcp.go and responseWriterStream.Write of           *)
(* src/dnscoretest/dotcp.go, read by queryStream and serveConn.               *)
(***************************************************************************)
EXTENDS Integers

MaxUint16 == 65535

\* byte(n) keeps the low eight bits of an int.
byte(n) == n % 256

\* Mutant: a message of 65535 bytes is refused as well.
newRawMsgFrame_TooStrict(size) ==
  IF size >= MaxUint16 THEN <<>>
  ELSE <<byte(size \div 256), byte(size)>>

\* The header of the frame for a message of size bytes; none if it is too large.
newRawMsgFrame(size) ==
  IF size > MaxUint16 THEN <<>>
  ELSE <<byte(size \div 256), byte(size)>>

\* int(header[0])<<8 | int(header[1])
frameLength(header) == header[1] * 256 + header[2]
=============================================================================
