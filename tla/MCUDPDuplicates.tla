--------------------------- MODULE MCUDPDuplicates ---------------------------
(***************************************************************************)
(* Instance of UDPDuplicates for TLC.  The channel is smaller than the       *)
(* number of datagrams, so that it fills up when the reader is slow.         *)
(***************************************************************************)
EXTENDS UDPDuplicates, TLC

CONSTANTS small, big

MCMsgs == {small, big}
MCSize == (small :> 512 @@ big :> 513 @@ Garbage :> 1)
MCExtras == {<<>>}
=============================================================================
