--------------------------- MODULE MCParticipants ---------------------------
(* Instances of Participants for TLC; the .cfg files choose the requests. *)
EXTENDS Participants, TLC

Symmetry == Permutations(Joiners) \cup Permutations(Deciders)
=============================================================================
