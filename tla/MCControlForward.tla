-------------------------- MODULE MCControlForward --------------------------
(***************************************************************************)
(* Small instances of ControlForward.                                      *)
(***************************************************************************)
EXTENDS ControlForward, TLC

R(class, req, iface, boot, in, length) ==
    [id |-> 0, class |-> class, req |-> req, iface |-> iface, boot |-> boot,
     in |-> in, length |-> length]

Standard == R(FALSE, "OTHER", 0, FALSE, FALSE, 0)
GetReport == R(TRUE, "OTHER", 0, FALSE, TRUE, 1)
SetReport(n) == R(TRUE, "OTHER", 0, FALSE, FALSE, n)
SetProtocol(i, boot) == R(TRUE, "SET_PROTOCOL", i, boot, FALSE, 0)

\* An OUT transfer and SET_PROTOCOL of two interfaces, with STANDARD requests
\* in between.
ForwardRequests == {Standard, GetReport, SetReport(2), SetProtocol(0, TRUE), SetProtocol(1, TRUE)}

\* IN and OUT transfers and SET_PROTOCOL; a lost ACK makes the OUT one too long
\* for the buffer.
LiveRequests == {Standard, GetReport, SetReport(2), SetProtocol(0, TRUE)}

BootOnly == {SetProtocol(0, TRUE)}

SplitEndpoints == (0 :> 0) @@ (1 :> 1)
NoEndpoints == [k \in {} |-> 0]
OneEndpoint == 0 :> 0
=============================================================================
