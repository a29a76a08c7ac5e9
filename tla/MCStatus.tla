------------------------------ MODULE MCStatus -------------------------------
(* Status over a torrent of a few pieces.                                  *)
EXTENDS Status, TLC
=============================================================================
