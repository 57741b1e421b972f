------------------------- MODULE InjectionMapStore -------------------------
(***************************************************************************)
(* The FPGA's map store (injection_map.py): a candidate map is received,   *)
(* checked and made active in one step, by flipping banks.  The store is a *)
(* record and each of its inputs an operator on it.                        *)
(*                                                                         *)
(* Kept: the receiving FSM, the checks that tell one upload from another,  *)
(* the invalidation latch, the active bank.  Abstracted: validation, some  *)
(* 4000 cycles at most, is one step; the checks of a field's place and     *)
(* width, and the CRC, which every map the session builds passes, are left *)
(* out.  The bank that is not active holds nothing that is read.           *)
(***************************************************************************)
EXTENDS InjectionWire, Sequences

CONSTANT MaxFields   \* room for entries (64 in the code)

ASSUME MaxFieldsAssumption == MaxFields \in Nat \ {0}

NoBank == [valid |-> FALSE, desc |-> 0, map |-> 0, entries |-> <<>>]

\* begin holds the header latched from MAP_BEGIN; it is dead in IDLE.
NoBegin == [desc |-> 0, map |-> 0, count |-> 0]

StoreInit == [state |-> "IDLE", begin |-> NoBegin, entries |-> <<>>, matches |-> FALSE,
              latched |-> FALSE, bank |-> NoBank]

busy(st) == st.state # "IDLE"

Header(f) == [desc |-> f.desc, map |-> f.map, count |-> f.arg]

StoreBegin(st, f) ==
  [st EXCEPT !.state = "RECEIVE", !.begin = Header(f), !.entries = <<>>, !.latched = FALSE]

\* An entry more than there is room for is an overflow: it is counted once.
StoreEntry(st, f) ==
  [st EXCEPT !.entries = IF Len(@) > MaxFields THEN @ ELSE Append(@, f)]

\* Mutant: the entries received are not counted.
CommitMatchesHeader(st, f, generation) ==
  st.begin.desc = generation /\ Header(f) = st.begin

\* RECEIVE on commit: the header of MAP_COMMIT, the generation and the count.
CommitMatches(st, f, generation) ==
  /\ st.begin.desc = generation
  /\ Header(f) = st.begin
  /\ st.begin.count <= MaxFields
  /\ Len(st.entries) = st.begin.count

StoreCommit(st, f, generation) ==
  [st EXCEPT !.state = "VALIDATE", !.matches = CommitMatches(st, f, generation)]

\* CHECK_ENTRY of every entry.
EntriesMatch(st) ==
  \A i \in 1..Len(st.entries) :
    /\ st.entries[i].desc = st.begin.desc
    /\ st.entries[i].map = st.begin.map
    /\ st.entries[i].arg = i - 1

\* ACCEPT, or REJECT.
Accepted(st, generation) ==
  st.matches /\ EntriesMatch(st) /\ st.begin.desc = generation

\* The bank flips even under a latched invalidation; its valid bit does not.
Flipped(st) ==
  [valid |-> ~st.latched, desc |-> st.begin.desc, map |-> st.begin.map, entries |-> st.entries]

StoreEnd(st, generation) ==
  [st EXCEPT !.state = "IDLE", !.begin = NoBegin, !.entries = <<>>, !.matches = FALSE,
             !.bank = IF Accepted(st, generation) THEN Flipped(st) ELSE @]

\* abort and invalidate together, as the plane raises them.
StoreInvalidate(st) ==
  LET stopped == IF st.state = "RECEIVE"
                 THEN [st EXCEPT !.state = "IDLE", !.begin = NoBegin, !.entries = <<>>] ELSE st
  IN  [stopped EXCEPT !.latched = TRUE, !.bank.valid = FALSE]

active_valid(st, generation) ==
  st.bank.valid /\ ~st.latched /\ st.bank.desc = generation
=============================================================================
