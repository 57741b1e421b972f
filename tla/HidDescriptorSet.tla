-------------------------- MODULE HidDescriptorSet --------------------------
(***************************************************************************)
(* The MCU's set of report descriptors (hid_descriptor_set.c): a slot for  *)
(* each interface, all of one generation.  The set is a record; a          *)
(* descriptor is one fragment, so a slot that is claimed is complete.  The *)
(* set has room for every interface of a device.                           *)
(***************************************************************************)
EXTENDS Naturals, Sequences

EmptySet == [desc |-> 0, slots |-> <<>>, dirty |-> {}]

\* A fragment of another generation empties the set.
Retargeted(set, desc) == IF set.desc = desc THEN set ELSE [EmptySet EXCEPT !.desc = desc]

complete_mask(set) == DOMAIN set.slots

Holds(set, interface) == \E i \in complete_mask(set) : set.slots[i] = interface

\* slot_for: the interface's slot, or the next free one.
slot_for(set, interface) ==
  IF Holds(set, interface)
  THEN CHOOSE i \in complete_mask(set) : set.slots[i] = interface
  ELSE Len(set.slots) + 1

\* Only the edge to complete counts: the FPGA exports again on every link-up.
newly_complete(set, desc, interface) == ~Holds(Retargeted(set, desc), interface)
PushedSlot(set, desc, interface) == slot_for(Retargeted(set, desc), interface)

Push(set, desc, interface) ==
  LET old == Retargeted(set, desc)
  IN  IF Holds(old, interface) THEN old
      ELSE [old EXCEPT !.slots = Append(@, interface),
                       !.dirty = @ \union {slot_for(old, interface)}]

\* hid_descriptor_set_redirty, then take_dirty and snapshot of one slot.
Redirty(set, mask) == set.dirty \union (mask \intersect complete_mask(set))
Lowest(slots) == CHOOSE i \in slots : \A j \in slots : i <= j
Snapshot(set, slot) ==
  [type |-> "SNAPSHOT", desc |-> set.desc, slot |-> slot, interface |-> set.slots[slot]]

snapshot_valid(set, snap) ==
  /\ set.desc = snap.desc
  /\ snap.slot \in complete_mask(set)
  /\ set.slots[snap.slot] = snap.interface
=============================================================================
