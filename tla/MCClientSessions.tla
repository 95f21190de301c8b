-------------------------- MODULE MCClientSessions --------------------------
(* Instances of ClientSessions for TLC; the .cfg files give the values.     *)
EXTENDS ClientSessions, TLC

(* No session and no id is named in the module.                             *)
Symmetry == Permutations(Sessions) \cup Permutations(Ids)
=============================================================================
