---------------------------- MODULE MCEIBHandler ----------------------------
(* Instances of EIBHandler for TLC.  Clients, and the threads of the web     *)
(* interface, are interchangeable; the symmetry is used where no liveness is *)
(* checked.                                                                  *)
EXTENDS EIBHandler, TLC

CONSTANTS c1, c2, a1, a2
MCSymmetry == Permutations(Clients) \cup Permutations(Admins)
=============================================================================
