--------------------------- MODULE MCLiveRequests ---------------------------
(* What must end: small instances of EmailGate and, side by side with it,  *)
(* of Invitations under its fairness.  The two share no state, so a        *)
(* behaviour steps one of them and leaves the other in its initial state,  *)
(* where its fairness asks for nothing.  Nothing is declared               *)
(* interchangeable: the run checks liveness.                               *)
EXTENDS EmailGate

CONSTANTS Guest, Invitation, Grant, Host, Visitor, MaxTrack, None
VARIABLES part, archived, inv, acts, grants, host, visitor

links == <<archived, inv, acts, grants, host, visitor>>
Links == INSTANCE Invitations

PartsInit == part \in {"gate", "links"} /\ Init /\ Links!Init

PartsNext == /\ UNCHANGED part
             /\ \/ part = "gate" /\ Next /\ UNCHANGED links
                \/ part = "links" /\ Links!Next /\ UNCHANGED vars

PartsSpec == /\ PartsInit /\ [][PartsNext]_<<part, vars, links>>
             /\ Fairness /\ Links!Fairness

(* RequestsEnd of Invitations.                                             *)
RequestsEnd == Links!RequestsEnd
=============================================================================
