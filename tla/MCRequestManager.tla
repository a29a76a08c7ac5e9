-------------------------- MODULE MCRequestManager --------------------------
(* Instances of RequestManager for TLC.                                    *)
EXTENDS RequestManager, TLC

(* The last piece of a torrent is short.                                   *)
ShortLast == [p \in Pieces |-> IF \A q \in Pieces : q <= p THEN 1 ELSE 3]
=============================================================================
