---------------------------- MODULE MCBootLoader ----------------------------
(* BootLoader with a kernel of ten sectors, on drives whose tracks end inside *)
(* it, with one and several heads, and on one whose heads overflow a byte. *)
(* A failed call for the geometry leaves the registers of the read before, *)
(* zeros, ones, or the geometry of another drive.                          *)
EXTENDS BootLoader

MCGeometries ==
  [spt : {2, 3, 4}, heads : {1, 2, 3}] \cup {[spt |-> 18, heads |-> 2], [spt |-> 63, heads |-> 256]}
MCLeftovers ==
  {[cl |-> 2, dh |-> 0], [cl |-> 0, dh |-> 0], [cl |-> 255, dh |-> 255], [cl |-> 67, dh |-> 1]}
MCSegments == {0, 1984}
MCZero == {0}
MCLowMemSizes == {480, 639}
MCHimem == {[cx |-> 0, ax |-> 0], [cx |-> 0, ax |-> 1024], [cx |-> 15360, ax |-> 15360]}
=============================================================================
