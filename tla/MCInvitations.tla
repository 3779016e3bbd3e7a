---------------------------- MODULE MCInvitations ----------------------------
(* Small instances of Invitations for TLC: the sets are given in the .cfg  *)
(* files, their elements are interchangeable.                              *)
EXTENDS Invitations, TLC

Interchangeable == Permutations(Guest) \cup Permutations(Invitation)
                       \cup Permutations(Host) \cup Permutations(Visitor)
                       \cup Permutations(Grant)
=============================================================================
