---------------------------- MODULE MCReportPath ----------------------------
(***************************************************************************)
(* Small instances of ReportPath.                                          *)
(***************************************************************************)
EXTENDS ReportPath

LongShort == <<2, 1>>
OneSlot == {1}
BothSources == {0, 1}
=============================================================================
