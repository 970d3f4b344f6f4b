----------------------------- MODULE MCUdnPath -----------------------------
(* Instances of UdnPath for TLC.                                           *)
EXTENDS UdnPath, SequencesExt

(* '-', '3', 'a', '_', a control character and a byte above 127.           *)
ShortUdns == BoundedSeq({45, 51, 97, 95, 10, 195}, 5)
=============================================================================
