------------------------------- MODULE MCRsvp -------------------------------
(* Small instances of Rsvp for TLC.                                        *)
EXTENDS Rsvp, TLC

Interchangeable == Permutations(Invitation) \cup Permutations(Request)
=============================================================================
