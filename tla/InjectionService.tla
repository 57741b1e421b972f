-------------------------- MODULE InjectionService --------------------------
(***************************************************************************)
(* What the injection promises, whatever happens on the link: requests are *)
(* acted on one by one, in the order they were made and none twice; each   *)
(* under the upload it was computed for, which is of the device attached;  *)
(* and an upload once revoked never comes back in force.                   *)
(*                                                                         *)
(* InjectionLink implements this: a request may be lost on its way, an     *)
(* upload may come to nothing.                                             *)
(***************************************************************************)
EXTENDS Naturals, Sequences

CONSTANTS
  Uploads,   \* the uploads of all runs of the firmware
  NoUpload

VARIABLES
  device,    \* the device attached, 0 for none
  upload,    \* the upload last received
  in_force,  \* and whether the engine injects by it
  asked,     \* how many requests were made
  done       \* those acted on, and the upload each was computed for

vars == <<device, upload, in_force, asked, done>>

Init ==
  /\ device = 0
  /\ upload = NoUpload /\ in_force = FALSE
  /\ asked = 0 /\ done = <<>>

Attach ==
  /\ device = 0
  /\ device' \in Nat \ {0}
  /\ UNCHANGED <<upload, in_force, asked, done>>

\* The device goes, and with it what was uploaded for it.
Detach ==
  /\ device # 0
  /\ device' = 0
  /\ in_force' = FALSE
  /\ UNCHANGED <<upload, asked, done>>

\* An upload, which is in force at once unless it was revoked meanwhile.
Receive ==
  /\ upload' \in Uploads \ {upload}
  /\ in_force' \in {FALSE, device # 0 /\ upload'.desc = device}
  /\ UNCHANGED <<device, asked, done>>

Revoke ==
  /\ in_force
  /\ in_force' = FALSE
  /\ UNCHANGED <<device, upload, asked, done>>

Ask ==
  /\ asked' = asked + 1
  /\ UNCHANGED <<device, upload, in_force, done>>

Act ==
  /\ in_force
  /\ \E n \in 1..asked :
       /\ \A i \in DOMAIN done : done[i].request < n
       /\ done' = Append(done, [request |-> n, upload |-> upload])
  /\ UNCHANGED <<device, upload, in_force, asked>>

Next == Attach \/ Detach \/ Receive \/ Revoke \/ Ask \/ Act

Spec == Init /\ [][Next]_vars
=============================================================================
