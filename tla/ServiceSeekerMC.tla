-------------------------- MODULE ServiceSeekerMC ---------------------------
(* Small instances of ServiceSeeker for TLC. *)
EXTENDS ServiceSeeker

Scores == {1, 2}
=============================================================================
