-------------------------- MODULE MCDescriptorServe --------------------------
(***************************************************************************)
(* Instances of DescriptorServe for TLC: packets of two bytes, fragments   *)
(* of two, a store of seven bytes and three entries; a device that fills   *)
(* it (a report descriptor of a whole fragment and a part of one, another  *)
(* of one whole one, a descriptor that is captured twice), then one that   *)
(* does not fit.                                                           *)
(***************************************************************************)
EXTENDS DescriptorServe

MCScripts == <<<<<<"report 0", 3>>, <<"device", 1>>, <<"device", 1>>, <<"report 1", 2>>>>,
               <<<<"device", 4>>, <<"report 0", 4>>>>>>

MCLengths == {2, 9}
=============================================================================
