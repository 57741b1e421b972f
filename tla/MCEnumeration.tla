---------------------------- MODULE MCEnumeration ----------------------------
(***************************************************************************)
(* Small instances of Enumeration.                                         *)
(***************************************************************************)
EXTENDS Enumeration

\* A device with two interfaces and a string named twice, one that knows high
\* speed and has no strings, and one of a speed that is not supported.
TwoInterfaces == [speed |-> "full", strings |-> <<0, 1, 1>>, interfaces |-> <<0, 0, 1>>]
HighSpeed == [speed |-> "high", strings |-> <<0, 0, 0>>, interfaces |-> <<0>>]
LowSpeed == [speed |-> "low", strings |-> <<0, 0, 0>>, interfaces |-> <<0>>]

ThreeSpeeds == {TwoInterfaces, HighSpeed, LowSpeed}
=============================================================================
