-------------------------- MODULE MCAnnouncements ---------------------------
(* Instances of Announcements for TLC.                                     *)
EXTENDS Announcements, TLC

CONSTANT p1
=============================================================================
