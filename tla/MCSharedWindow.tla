--------------------------- MODULE MCSharedWindow ---------------------------
(***************************************************************************)
(* A small instance of SharedWindow.                                       *)
(***************************************************************************)
EXTENDS SharedWindow

Descriptor(generation, interface, length, injectable) ==
  [generation |-> generation, interface |-> interface, length |-> length,
   injectable |-> injectable]

\* A composite device whose second interface is the mouse, then another mouse.
Composite ==
  {Descriptor(1, 0, 2, FALSE), Descriptor(1, 1, 1, TRUE), Descriptor(2, 0, 2, TRUE)}
=============================================================================
