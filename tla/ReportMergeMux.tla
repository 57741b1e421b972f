--------------------------- MODULE ReportMergeMux ---------------------------
(***************************************************************************)
(* host.py, ReportMergeMux: one report at a time from the pollers' buffers *)
(* to one stream, round robin.  A source is locked from its first byte to  *)
(* its last.                                                               *)
(***************************************************************************)
EXTENDS Naturals

CONSTANT LastSource      \* the pollers are 0..LastSource

ASSUME SourceAssumption == LastSource \in Nat

VARIABLES sel, locked

muxVars == <<sel, locked>>

Sources == 0..LastSource

MuxInit == sel = 0 /\ locked = FALSE

NextSource(k) == IF k = LastSource THEN 0 ELSE k + 1

\* The distance of source k from `sel` in the round.
Turn(k) == IF k >= sel THEN k - sel ELSE k + LastSource + 1 - sel

report_valid(valid) == locked /\ valid[sel]

\* report_ready of source k.
source_ready(k, ready) == ready /\ locked /\ sel = k

\* Mutant: the lock is kept until the report's last byte comes.
MuxStepKept(valid, ready, last) ==
    \/ /\ ~locked /\ \E k \in Sources : valid[k]
       /\ locked' = TRUE
       /\ sel' \in {k \in Sources : valid[k] /\ \A j \in Sources : valid[j] => Turn(k) <= Turn(j)}
    \/ /\ locked /\ valid[sel] /\ ready /\ last
       /\ locked' = FALSE /\ sel' = NextSource(sel)
    \/ /\ IF locked THEN ~(valid[sel] /\ ready /\ last) ELSE \A k \in Sources : ~valid[k]
       /\ UNCHANGED muxVars

\* One cycle: valid[k] is buffer_full of poller k, ready and last go with the
\* byte offered.  A source whose report vanished gives up the lock.
MuxStep(valid, ready, last) ==
    \/ /\ ~locked /\ \E k \in Sources : valid[k]
       /\ locked' = TRUE
       /\ sel' \in {k \in Sources : valid[k] /\ \A j \in Sources : valid[j] => Turn(k) <= Turn(j)}
    \/ /\ locked /\ ~valid[sel]
       /\ locked' = FALSE /\ UNCHANGED sel
    \/ /\ locked /\ valid[sel] /\ ready /\ last
       /\ locked' = FALSE /\ sel' = NextSource(sel)
    \/ /\ IF locked THEN valid[sel] /\ ~(ready /\ last) ELSE \A k \in Sources : ~valid[k]
       /\ UNCHANGED muxVars
=============================================================================
