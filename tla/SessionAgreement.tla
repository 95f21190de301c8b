-------------------------- MODULE SessionAgreement --------------------------
(***************************************************************************)
(* What the handshake between a program and the EIB server promises: the   *)
(* program believes in a session only after the server has logged it in,   *)
(* and never again in one that it has left.  Each side may give a session  *)
(* up at any time, without asking the other.                               *)
(***************************************************************************)
CONSTANTS Sessions, None

VARIABLES
  held,   (* what the server has made of each session                        *)
  joined, (* the session that the program believes in                        *)
  past    (* the sessions that it has believed in                            *)

agreementVars == <<held, joined, past>>

AgreementInit ==
  /\ held = [s \in Sessions |-> "before"]
  /\ joined = None
  /\ past = {}

LogIn(s) ==
  /\ held[s] = "before"
  /\ held' = [held EXCEPT ![s] = "in"]
  /\ UNCHANGED <<joined, past>>

Refuse(s) ==
  /\ held[s] = "before"
  /\ held' = [held EXCEPT ![s] = "refused"]
  /\ UNCHANGED <<joined, past>>

LogOut(s) ==
  /\ held[s] = "in"
  /\ held' = [held EXCEPT ![s] = "out"]
  /\ UNCHANGED <<joined, past>>

Join(s) ==
  /\ joined = None
  /\ held[s] \in {"in", "out"} /\ s \notin past
  /\ joined' = s
  /\ past' = past \cup {s}
  /\ UNCHANGED held

Leave ==
  /\ joined' = None
  /\ UNCHANGED <<held, past>>

AgreementNext ==
  \/ \E s \in Sessions : LogIn(s) \/ Refuse(s) \/ LogOut(s) \/ Join(s)
  \/ Leave

AgreementSpec == AgreementInit /\ [][AgreementNext]_agreementVars
=============================================================================
