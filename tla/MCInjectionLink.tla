-------------------------- MODULE MCInjectionLink --------------------------
(***************************************************************************)
(* Model checking of InjectionLink.                                        *)
(***************************************************************************)
EXTENDS InjectionLink

\* A composite device whose second interface is the mouse, then a pad.
Composite == << <<"NONE", "MOUSE">>, <<"PAD">> >>
=============================================================================
