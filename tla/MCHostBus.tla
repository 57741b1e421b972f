------------------------------ MODULE MCHostBus ------------------------------
(***************************************************************************)
(* Small instances of HostBus.                                             *)
(***************************************************************************)
EXTENDS HostBus

\* A report of one byte, one too long for the buffer, one that fills it.
ThreeReports == <<1, 3, 2>>
NoReports == <<>>
TwoPackets == <<2, 1>>
OnePacket == <<1>>
=============================================================================
