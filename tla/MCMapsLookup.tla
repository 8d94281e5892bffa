---------------------------- MODULE MCMapsLookup ----------------------------
(* MapsLookup on the maps of MapsData. *)
EXTENDS MapsLookup, MapsData
=============================================================================
