----------------------------- MODULE MCGeofence -----------------------------
(* Clients of Geofence are interchangeable.                                *)
EXTENDS Geofence, TLC

Symmetry == Permutations(Clients)

=============================================================================
