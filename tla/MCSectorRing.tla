---------------------------- MODULE MCSectorRing ----------------------------
(***************************************************************************)
(* SectorRing for TLC: four sectors, as the linker script reserves, and    *)
(* enough indices for the ring to go round twice, with gaps.               *)
(***************************************************************************)
EXTENDS SectorRing
=============================================================================
