-------------------------- MODULE MCInjectionEngine --------------------------
(***************************************************************************)
(* A small instance of InjectionEngine.                                    *)
(***************************************************************************)
EXTENDS InjectionEngine

Command(kind, layout, value, hold, clear) ==
  [kind |-> kind, layout |-> layout, value |-> value, hold |-> hold, clear |-> clear]

\* A motion larger than a report carries, a click (two of them: the second comes
\* while the first is held), a redundant command for the other layout, and a CLEAR
\* that reaches both.
FourCommands ==
  {Command("RELATIVE", 1, 2, 0, {}), Command("BUTTON", 1, 1, 1, {}),
   Command("SET", 2, 0, 0, {}),
   Command("CLEAR", 1, 0, 0, {"MOTION", "BUTTONS"})}
=============================================================================
